-------------------------- MODULE MCForwardDaemon --------------------------
(* Instances of ForwardDaemon for TLC. *)
EXTENDS ForwardDaemon, TLC

\* Handlers, connections, cells and transports are interchangeable.
Symmetry == Permutations(Procs) \union Permutations(Conns)
            \union Permutations(Slots) \union Permutations(Transports)
=============================================================================
