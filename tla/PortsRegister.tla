---------------------------- MODULE PortsRegister ----------------------------
(***************************************************************************)
(* What saved forwards promise: one list per machine, which every edit     *)
(* changes by what it was asked to change, all at once or not at all.      *)
(***************************************************************************)
CONSTANTS Ports,     \* mappings
          Template   \* the mappings a template saves

VARIABLE list

RegisterInit == list \in SUBSET Ports

Add(p) == list' = list \cup {p}
Drop(p) == list' = list \ {p}
Seed == list' = list \cup Template
Replace == list' = Template
Forgotten == list' = {}

RegisterNext == \/ \E p \in Ports : Add(p) \/ Drop(p)
                \/ Seed \/ Replace \/ Forgotten

RegisterSpec == RegisterInit /\ [][RegisterNext]_list
=============================================================================
