-------------------------------- MODULE MCWire --------------------------------
(***************************************************************************)
(* The instance of the components that carry something to a machine or a   *)
(* hub, for TLC.  Each behaviour is one of one component: `part` says      *)
(* whose, and the other components stay in one of their initial states.    *)
(***************************************************************************)
EXTENDS Subscriptions, BoxAccess, MCCopyFiles, AttachBridge, Reach, TLC

VARIABLE part

wirevars == <<part, uvars, bvars, yvars, bridgevars, rvars>>

(* No entry sets a connect_timeout. *)
PatienceDef == [b \in Boxes |-> 0]

(* Two hosts that shape the box are alike. *)
Alike == Permutations(Runners)

WireInit ==
    /\ part \in {"events", "box", "copy", "attach", "reach"}
    /\ SubsInit
    /\ BoxInit /\ (part # "box" => login = "root" /\ ~user /\ keysOf["root"] = {"own"})
    /\ CopyInit /\ (part # "copy" => job.tree = <<En("top", "dir")>> /\ job.force /\ job.dir = "out" /\ job.via = "stream"
                                     /\ \A p \in Paths : dest[p] = Vacant)
    /\ BridgeInit /\ (part # "attach" => kind.of = "remote" /\ ~target.unfit)
    /\ ReachInit /\ line["jump"] = "silent" /\ (part # "reach" => line["near"] = "silent")

WireNext ==
    \/ part = "events" /\ SubsNext /\ UNCHANGED <<part, bvars, yvars, bridgevars, rvars>>
    \/ part = "box" /\ BoxNext /\ UNCHANGED <<part, uvars, yvars, bridgevars, rvars>>
    \/ part = "copy" /\ CopyNext /\ UNCHANGED <<part, uvars, bvars, bridgevars, rvars>>
    \/ part = "attach" /\ BridgeNext /\ UNCHANGED <<part, uvars, bvars, yvars, rvars>>
    \/ part = "reach" /\ ReachNext /\ UNCHANGED <<part, uvars, bvars, yvars, bridgevars>>

WireSpec == WireInit /\ [][WireNext]_wirevars

(* Every variable of the component that runs keeps its type. *)
WireTypeOK == CASE part = "events" -> SubsTypeOK
                [] part = "box"    -> BoxTypeOK
                [] part = "copy"   -> CopyTypeOK
                [] part = "attach" -> BridgeTypeOK
                [] part = "reach"  -> ReachTypeOK
==============================================================================
