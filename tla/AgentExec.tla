------------------------------- MODULE AgentExec -------------------------------
(***************************************************************************)
(* The guest agent of a remote box (session/transport_ssh_agent.go): the   *)
(* supervisor that installs or looks for it, keeps one `serve` exec on the *)
(* daemon's master and respawns it, against the transport's Close, the     *)
(* master's death, nudges, and an agent that comes and goes in the guest.  *)
(***************************************************************************)
EXTENDS Naturals

CONSTANTS MaxEnds,   \* times an exec ends, or an attempt fails, by itself
          MaxSwaps   \* times somebody else removes or replaces the guest's agent

ASSUME AgentAssumption == MaxEnds \in Nat /\ MaxSwaps \in Nat

VARIABLES managed,   \* BOOLEAN: a managed box is installed to, another only probed
          guest,     \* the agent in the guest: "missing" | "stale" | "current"
          sup,       \* the supervisor: where it is, and what prepare answered
          exec,      \* what it spawned and has not recorded; what it recorded
          nudged,    \* the one buffered nudge
          ends,      \* of the transport: stop, closed, dead, master
          auth,      \* `auth` on this host: "idle" | "installed" (not nudged yet)
          mishaps

avars == <<managed, guest, sup, exec, nudged, ends, auth, mishaps>>

Agents == {"missing", "stale", "current"}

AgentTypeOK ==
    /\ managed \in BOOLEAN /\ nudged \in BOOLEAN /\ guest \in Agents /\ auth \in {"idle", "installed"}
    /\ sup \in [at : {"prepare", "spawn", "record", "up", "look", "await", "backoff", "ended"},
                found : Agents, shim : BOOLEAN]
    /\ exec \in [new : {"none", "live", "dead"}, held : {"none", "live", "dead"}]
    /\ ends \in [stop : BOOLEAN, closed : BOOLEAN, gone : BOOLEAN, dead : BOOLEAN, master : BOOLEAN]
    /\ mishaps \in [end : 0..MaxEnds, swap : 0..MaxSwaps]

AgentInit ==
    /\ managed \in BOOLEAN /\ guest \in Agents
    /\ sup = [at |-> "prepare", found |-> "missing", shim |-> FALSE]
    /\ exec = [new |-> "none", held |-> "none"] /\ nudged = FALSE /\ auth = "idle"
    /\ ends = [stop |-> FALSE, closed |-> FALSE, gone |-> FALSE, dead |-> FALSE, master |-> TRUE]
    /\ mishaps = [end |-> 0, swap |-> 0]

Env == <<managed, auth, mishaps>>

Fault(kind, max) == mishaps[kind] < max /\ mishaps' = [mishaps EXCEPT ![kind] = @ + 1]

(***************************************************************************)
(* The supervisor.                                                         *)
(***************************************************************************)

(* Its wait for a retry; a stopped one ends instead. *)
Retry(at) == sup' = [sup EXCEPT !.at = IF ends.stop THEN "ended" ELSE at]

(* Install on a managed box, only a look at another; what it answers is    *)
(* acted on later.                                                         *)
Prepare ==
    /\ sup.at = "prepare"
    /\ guest' = IF managed /\ ends.master THEN "current" ELSE guest
    /\ IF ends.master THEN sup' = [sup EXCEPT !.at = "spawn", !.found = guest'] ELSE Retry("backoff")
    /\ UNCHANGED <<exec, nudged, ends, Env>>

(* A probe or an install that fails is no evidence that the agent is gone. *)
PrepareFails ==
    /\ sup.at = "prepare" /\ Fault("end", MaxEnds)
    /\ Retry("backoff") /\ UNCHANGED <<managed, guest, exec, nudged, ends, auth>>

(* Without a current agent only a nudge helps; with one the exec starts on *)
(* the master, unless either is gone meanwhile.                            *)
Spawn ==
    /\ sup.at = "spawn"
    /\ CASE ends.stop -> Retry("ended") /\ UNCHANGED exec
         [] ~ends.stop /\ sup.found # "current" ->
               sup' = [sup EXCEPT !.at = "await", !.shim = FALSE] /\ UNCHANGED exec
         [] ~ends.stop /\ sup.found = "current" /\ ends.master /\ guest = "current" ->
               sup' = [sup EXCEPT !.at = "record"] /\ exec' = [exec EXCEPT !.new = "live"]
         [] OTHER -> Retry("backoff") /\ UNCHANGED exec
    /\ UNCHANGED <<guest, nudged, ends, Env>>

(* Mutant of Refused: the exec is recorded whatever happened meanwhile. *)
Refused_Never == FALSE

(* A transport that closed during the spawn takes no exec any more. *)
Refused == ends.closed

Record ==
    /\ sup.at = "record"
    /\ IF Refused THEN exec' = [exec EXCEPT !.new = "none"] /\ Retry("backoff")
       ELSE /\ exec' = [new |-> "none", held |-> exec.new]
            /\ sup' = [sup EXCEPT !.at = "up", !.shim = TRUE]
    /\ UNCHANGED <<guest, nudged, ends, Env>>

(* While one is up a nudge has nothing to ask for. *)
Idle ==
    /\ sup.at = "up" /\ nudged /\ nudged' = FALSE
    /\ UNCHANGED <<guest, sup, exec, ends, Env>>

(* Its end, or the transport's, is seen. *)
Ended ==
    /\ sup.at = "up"
    /\ \/ ends.stop /\ sup' = [sup EXCEPT !.at = "ended"] /\ UNCHANGED exec
       \/ exec.held # "live" /\ exec' = [exec EXCEPT !.held = "none"] /\ Retry("look")
    /\ UNCHANGED <<guest, nudged, ends, Env>>

(* A master gone too is the transport's death; else only a respawn. *)
Look ==
    /\ sup.at = "look"
    /\ IF ends.master THEN Retry("backoff") /\ UNCHANGED ends
       ELSE sup' = [sup EXCEPT !.at = "ended"] /\ ends' = [ends EXCEPT !.dead = TRUE]
    /\ UNCHANGED <<guest, exec, nudged, Env>>

(* A backoff runs out, or is cut short; without an agent only a nudge does.*)
Wake ==
    /\ \/ sup.at = "backoff" /\ ~ends.stop /\ nudged' \in {nudged, FALSE}
       \/ sup.at = "await" /\ ~ends.stop /\ nudged /\ nudged' = FALSE
    /\ sup' = [sup EXCEPT !.at = "prepare"]
    /\ UNCHANGED <<guest, exec, ends, Env>>

Stopped ==
    /\ sup.at \in {"backoff", "await"} /\ ends.stop
    /\ sup' = [sup EXCEPT !.at = "ended"]
    /\ UNCHANGED <<guest, exec, nudged, ends, Env>>

(***************************************************************************)
(* Around it: Close in its three steps, the guest, the master, `auth`.     *)
(***************************************************************************)

CloseStop ==
    /\ ~ends.stop /\ ends' = [ends EXCEPT !.stop = TRUE]
    /\ UNCHANGED <<guest, sup, exec, nudged, Env>>

CloseAgent ==
    /\ ends.stop /\ ~ends.closed
    /\ ends' = [ends EXCEPT !.closed = TRUE] /\ exec' = [exec EXCEPT !.held = "none"]
    /\ UNCHANGED <<guest, sup, nudged, Env>>

(* `-O exit`, best effort: a wedged master outlives it. *)
CloseMaster ==
    /\ ends.closed /\ ~ends.gone
    /\ \E m \in {ends.master, FALSE} :
          /\ ends' = [ends EXCEPT !.gone = TRUE, !.dead = TRUE, !.master = m]
          /\ exec' = IF m THEN exec ELSE [k \in DOMAIN exec |-> IF exec[k] = "live" THEN "dead" ELSE exec[k]]
    /\ UNCHANGED <<guest, sup, nudged, Env>>

ExecDies ==
    /\ Fault("end", MaxEnds)
    /\ \E k \in DOMAIN exec : exec[k] = "live" /\ exec' = [exec EXCEPT ![k] = "dead"]
    /\ UNCHANGED <<managed, guest, sup, nudged, ends, auth>>

MuxDies ==
    /\ ends.master /\ Fault("end", MaxEnds)
    /\ ends' = [ends EXCEPT !.master = FALSE]
    /\ exec' = [k \in DOMAIN exec |-> IF exec[k] = "live" THEN "dead" ELSE exec[k]]
    /\ UNCHANGED <<managed, guest, sup, nudged, auth>>

(* The transport's own check, every half minute. *)
Monitor ==
    /\ ~ends.master /\ ~ends.stop /\ ~ends.dead
    /\ ends' = [ends EXCEPT !.dead = TRUE]
    /\ UNCHANGED <<guest, sup, exec, nudged, Env>>

(* Another devvm, or a user, removes or replaces the binary. *)
Swap ==
    /\ Fault("swap", MaxSwaps) /\ guest' \in {"missing", "stale"} \ {guest}
    /\ UNCHANGED <<managed, sup, exec, nudged, ends, auth>>

(* `auth` installs the agent with consent, then kicks this daemon. *)
AuthInstalls ==
    /\ auth = "idle" /\ guest # "current" /\ guest' = "current" /\ auth' = "installed"
    /\ UNCHANGED <<managed, sup, exec, nudged, ends, mishaps>>

(* Mutant of Kept: a nudge nobody waits for at that moment is lost. *)
Kept_Unbuffered == sup.at \in {"await", "backoff", "up"}

(* The channel holds one nudge, whatever the supervisor is doing. *)
Kept == TRUE

Nudge ==
    /\ auth = "installed" /\ auth' = "idle" /\ nudged' = (nudged \/ Kept)
    /\ UNCHANGED <<managed, guest, sup, exec, ends, mishaps>>

Supervisor == Prepare \/ PrepareFails \/ Spawn \/ Record \/ Idle \/ Ended \/ Look \/ Wake \/ Stopped

AgentNext ==
    \/ Supervisor
    \/ CloseStop \/ CloseAgent \/ CloseMaster \/ ExecDies \/ MuxDies \/ Monitor
    \/ Swap \/ AuthInstalls \/ Nudge

(* The supervisor's goroutine runs, and so does the monitor; a Close, once *)
(* begun, goes on; `auth` kicks after it installed.                        *)
AgentFair ==
    /\ WF_avars(Supervisor) /\ WF_avars(Monitor) /\ WF_avars(Nudge)
    /\ WF_avars(CloseAgent) /\ WF_avars(CloseMaster)

AgentSpec == AgentInit /\ [][AgentNext]_avars /\ AgentFair

(***************************************************************************)
(* A transport that closed leaves no exec of its own running in the guest, *)
(* whatever the supervisor was in the middle of, and even on a master that *)
(* did not exit: one guest socket belongs to one exec.                     *)
(***************************************************************************)
NoneLeft == sup.at = "ended" /\ ends.closed => exec = [new |-> "none", held |-> "none"]

(***************************************************************************)
(* An agent that is there to stay is served in the end, unless the         *)
(* transport is over: no install, nudge, lost exec or failed probe leaves  *)
(* the supervisor waiting for a nudge that already came.                   *)
(***************************************************************************)
Noticed == <>[](guest = "current") => []<>(exec.held = "live" \/ ends.dead \/ ends.stop)
================================================================================
