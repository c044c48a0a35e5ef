--------------------------------- MODULE MCHub ---------------------------------
(***************************************************************************)
(* The instance of the components with a loop that must go on, for TLC.    *)
(* Each behaviour is one of one component: `part` says whose.  The others  *)
(* rest in a state where nothing they must do is left to do, so that their *)
(* fairness asks for nothing.                                              *)
(***************************************************************************)
EXTENDS HubForwards, AgentExec, Watch, TLC

VARIABLE part

systems == <<part, hvars, avars, wvars>>

(* A relay that is up and carries nothing. *)
HubRests ==
    /\ wanted = {} /\ far = [relay |-> 1, dead |-> FALSE]
    /\ fw = [g \in Guests |-> [state |-> "pending", port |-> 0]]
    /\ links = [n \in Relays |-> IF n = 1 THEN [wire |-> "up", session |-> "open", lines |-> <<>>] ELSE NoLink]
    /\ hub = [up |-> TRUE, fwd |-> [g \in Guests |-> Unbound]] /\ faults = 0

(* A transport that was closed. *)
AgentRests ==
    /\ managed = FALSE /\ guest = "missing" /\ nudged = FALSE /\ auth = "idle"
    /\ sup = [at |-> "ended", found |-> "missing", shim |-> FALSE] /\ exec = [new |-> "none", held |-> "none"]
    /\ ends = [stop |-> TRUE, closed |-> TRUE, gone |-> TRUE, dead |-> TRUE, master |-> FALSE]
    /\ mishaps = [end |-> 0, swap |-> 0]

(* A watch that has printed all there is, its hub away. *)
WatchRests ==
    /\ disk = [ver |-> 0, dest |-> "here", net |-> 0, reach |-> 0, ask |-> FALSE]
    /\ remote = [ver |-> 0, up |-> FALSE]
    /\ watch = [dir |-> TRUE, on |-> TRUE, event |-> FALSE, gone |-> FALSE, lost |-> FALSE]
    /\ loop = [armed |-> FALSE, changed |-> FALSE, wanted |-> FALSE, round |-> "none", at |-> "wait", conf |-> 0]
    /\ pipe = [now |-> [NoPipe EXCEPT !.dest = "here"], old |-> NoPipe]
    /\ rows = [last |-> NoRows, cache |-> 0, wake |-> FALSE] /\ shown = Nothing /\ hitches = 0

SystemsInit ==
    /\ part \in {"hub", "agent", "watch"}
    /\ IF part = "hub" THEN HubInit ELSE HubRests
    /\ IF part = "agent" THEN AgentInit ELSE AgentRests
    /\ IF part = "watch" THEN WatchInit ELSE WatchRests

SystemsNext ==
    \/ part = "hub" /\ HubNext /\ UNCHANGED <<part, avars, wvars>>
    \/ part = "agent" /\ AgentNext /\ UNCHANGED <<part, hvars, wvars>>
    \/ part = "watch" /\ WatchNext /\ UNCHANGED <<part, hvars, avars>>

SystemsSpec == SystemsInit /\ [][SystemsNext]_systems /\ HubFair /\ AgentFair /\ WatchFair

(* Every variable of the component that runs keeps its type. *)
SystemsTypeOK == CASE part = "hub"   -> HubTypeOK
                   [] part = "agent" -> AgentTypeOK
                   [] part = "watch" -> WatchTypeOK
================================================================================
