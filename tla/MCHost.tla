-------------------------------- MODULE MCHost --------------------------------
(***************************************************************************)
(* The instance of the components that share nothing but the laptop they   *)
(* run on, for TLC.  Each behaviour is one of one component: `part` says   *)
(* whose, and the other components stay in one of their initial states.    *)
(***************************************************************************)
EXTENDS Providers, SavedPorts, SmolStart, ConfigFile, SelfUpdate, Opens, TLC

CONSTANTS c1, c2     \* the commands on provider servers

VARIABLE part

hostvars == <<part, pvars, svars, bootvars, cvars, zvars, opvars>>

(* The host's own daemon, and behind it a hub's. *)
DaemonsDef == 1..2

RunsDef == [c \in {c1, c2} |-> IF c = c1 THEN {"delete", "start", "stop", "setup", "status"} ELSE {"create"}]

(* 1-rc1; 1 and 1.0; one commit past 1; 1.1 *)
V(nums, kind_, n) == [nums |-> nums, kind |-> kind_, n |-> n]
AscendingDef == <<{V(<<1>>, "pre", 1)}, {V(<<1>>, "release", 0), V(<<1, 0>>, "release", 0)},
                  {V(<<1>>, "past", 1)}, {V(<<1, 1>>, "release", 0)}>>

(* The processes that edit a list are alike, and so are those that start a VM. *)
Alike == Permutations(Procs) \cup Permutations(Starters)

HostInit ==
    /\ part \in {"providers", "ports", "boot", "config", "update", "open"}
    /\ ProvidersInit /\ SmolInit
    /\ SavedInit /\ (part # "ports" => kind = "smol" /\ machine = {} /\ legacy = [list |-> {}, parses |-> TRUE])
    /\ ConfigInit /\ (part # "config" => file = NoText)
    /\ UpdInit /\ (part # "update" => upd.force /\ upd.tag = upd.old /\ upd.old.n = 1 /\ upd.old.kind = "pre"
                                      /\ \A m \in Machines : daemons[m] = Absent)
    /\ OpensInit /\ (part # "open" => \A d \in Daemons : ~listens[d].on)

HostNext ==
    \/ part = "providers" /\ ProvidersNext /\ UNCHANGED <<part, svars, bootvars, cvars, zvars, opvars>>
    \/ part = "ports" /\ SavedNext /\ UNCHANGED <<part, pvars, bootvars, cvars, zvars, opvars>>
    \/ part = "boot" /\ SmolNext /\ UNCHANGED <<part, pvars, svars, cvars, zvars, opvars>>
    \/ part = "config" /\ ConfigNext /\ UNCHANGED <<part, pvars, svars, bootvars, zvars, opvars>>
    \/ part = "update" /\ UpdNext /\ UNCHANGED <<part, pvars, svars, bootvars, cvars, opvars>>
    \/ part = "open" /\ OpensNext /\ UNCHANGED <<part, pvars, svars, bootvars, cvars, zvars>>

HostSpec == HostInit /\ [][HostNext]_hostvars

(* Every variable of the component that runs keeps its type. *)
HostTypeOK == CASE part = "providers" -> ProvidersTypeOK
                [] part = "ports"     -> SavedTypeOK
                [] part = "boot"      -> SmolTypeOK
                [] part = "config"    -> ConfigTypeOK
                [] part = "update"    -> UpdTypeOK
                [] part = "open"      -> OpensTypeOK
==============================================================================
