------------------------- MODULE MCDaemonLifecycle -------------------------
(* Instances of DaemonLifecycle for TLC. *)
EXTENDS DaemonLifecycle, TLC

\* Processes, commands and inodes are interchangeable.
Symmetry == Permutations(Procs) \union Permutations(Clients) \union Permutations(Inodes)
=============================================================================
