------------------------------ MODULE AttachBridge -----------------------------
(***************************************************************************)
(* The browser bridge of one `attach` or `shell` (cli/bridge.go): a session*)
(* on the machine's daemon, waited for only so long.  Past that the attach *)
(* goes on and the open is adopted behind it, for a machine on a hub after *)
(* retries; the attach may end at any moment of that, and the machine may  *)
(* be stopped, started here, or started by the hub's own attach.           *)
(***************************************************************************)
EXTENDS Naturals

CONSTANTS MaxTries,  \* bridgeRetryWaits
          MaxStops   \* times the machine is stopped

ASSUME BridgeAssumption == MaxTries \in Nat \ {0} /\ MaxStops \in Nat

VARIABLES kind,    \* the machine's: "hub" | "remote"; whether a boot is this attach's to do
          target,     \* it runs; its hub or its agent is one no retry cures
          att,     \* the attach
          open,    \* the open in flight, or what became of it
          late,    \* the holder of a bridge that comes late
          held,    \* sessions open: the attach's own, the late holder's, nobody's yet
          asked    \* saved forwards were asked up; an open was refused for a stopped box

bridgevars == <<kind, target, att, open, late, held, asked>>

Results == {"ok", "stopped", "forgood", "failed"}

BridgeTypeOK ==
    /\ kind \in [of : {"hub", "remote"}, boot : BOOLEAN, booted : BOOLEAN]
    /\ target \in [runs : BOOLEAN, unfit : BOOLEAN, stops : 0..MaxStops]
    /\ att \in {"start", "wait", "boot", "on", "over"}
    /\ open \in [at : {"none", "dialing"} \cup Results, tries : 0..MaxTries]
    /\ late \in [at : {"none", "first", "pause", "dial", "ended"}, released : BOOLEAN]
    /\ held \in [own : BOOLEAN, late : BOOLEAN, new : BOOLEAN]
    /\ asked \in [up : BOOLEAN, stopped : BOOLEAN]

BridgeInit ==
    /\ kind \in [of : {"hub", "remote"}, boot : BOOLEAN, booted : {FALSE}] /\ (kind.boot => kind.of = "hub")
    /\ target \in [runs : BOOLEAN, unfit : BOOLEAN, stops : {0}] /\ (kind.of = "remote" => target.runs)
    /\ att = "start" /\ open = [at |-> "none", tries |-> 0]
    /\ late = [at |-> "none", released |-> FALSE]
    /\ held = [own |-> FALSE, late |-> FALSE, new |-> FALSE] /\ asked = [up |-> FALSE, stopped |-> FALSE]

Ended(r) == open.at = r
Dialed == open.at \in Results

(***************************************************************************)
(* openSubscribed: on the attach's own goroutine or behind it.             *)
(***************************************************************************)

DialFirst ==
    /\ att = "start" /\ att' = "wait" /\ open' = [open EXCEPT !.at = "dialing"]
    /\ UNCHANGED <<kind, target, late, held, asked>>

(* A session that cannot subscribe is closed again. *)
Dialing ==
    /\ open.at = "dialing"
    /\ \/ /\ ~target.runs /\ open' = [open EXCEPT !.at = "stopped"]
          /\ asked' = [asked EXCEPT !.stopped = kind.of = "hub" \/ @] /\ UNCHANGED held
       \/ /\ target.runs /\ target.unfit /\ kind.of = "hub" /\ open' = [open EXCEPT !.at = "forgood"]
          /\ UNCHANGED <<held, asked>>
       \/ open' = [open EXCEPT !.at = "failed"] /\ UNCHANGED <<held, asked>>
       \/ /\ target.runs /\ (target.unfit => kind.of = "remote")
          /\ open' = [open EXCEPT !.at = "ok"] /\ held' = [held EXCEPT !.new = TRUE] /\ UNCHANGED asked
    /\ UNCHANGED <<kind, target, att, late>>

(***************************************************************************)
(* The attach's wait.                                                      *)
(***************************************************************************)

(* A remote box without an agent has nobody to hear: its session is let go.*)
Opened ==
    /\ att = "wait" /\ Ended("ok") /\ att' = "on"
    /\ held' = [held EXCEPT !.own = ~target.unfit, !.new = FALSE]
    /\ UNCHANGED <<kind, target, open, late, asked>>

Refused ==
    /\ att = "wait" /\ Dialed /\ ~Ended("ok")
    /\ CASE Ended("stopped") /\ kind.boot /\ ~kind.booted -> att' = "boot" /\ UNCHANGED <<open, late>>
         [] kind.of = "hub" /\ (Ended("failed") \/ (Ended("stopped") /\ kind.booted)) ->
               att' = "on" /\ late' = [late EXCEPT !.at = "pause"] /\ UNCHANGED open
         [] OTHER -> att' = "on" /\ UNCHANGED <<open, late>>
    /\ UNCHANGED <<kind, target, held, asked>>

(* hubBootForSession; its failure is the attach's. *)
Boot ==
    /\ att = "boot"
    /\ \/ /\ att' = "wait" /\ open' = [open EXCEPT !.at = "dialing"] /\ kind' = [kind EXCEPT !.booted = TRUE]
          /\ target' = [target EXCEPT !.runs = TRUE] /\ asked' = [asked EXCEPT !.up = TRUE]
       \/ att' = "over" /\ UNCHANGED <<open, kind, target, asked>>
    /\ UNCHANGED <<late, held>>

(* hubBridgeWait, remoteBridgeWait. *)
WaitedEnough ==
    /\ att = "wait" /\ open.at = "dialing"
    /\ att' = "on" /\ late' = [late EXCEPT !.at = "first"]
    /\ UNCHANGED <<kind, target, open, held, asked>>

(***************************************************************************)
(* Behind it.                                                              *)
(***************************************************************************)

(* Mutant of Adopt: whoever arrives is kept. *)
Adopt_Always(h) == [h EXCEPT !.new = FALSE, !.late = TRUE]

(* A session that arrives after the attach let go is closed at once. *)
Adopt(h) == [h EXCEPT !.new = FALSE, !.late = ~late.released]

(* The first open that lands is adopted; with it the saved forwards that a *)
(* boot here would have brought up.                                        *)
Adopted ==
    /\ held' = IF kind.of = "remote" /\ target.unfit THEN [held EXCEPT !.new = FALSE] ELSE Adopt(held)
    /\ asked' = [asked EXCEPT !.up = @ \/ (asked.stopped /\ ~kind.booted)]
    /\ late' = [late EXCEPT !.at = "ended"]

LateLands ==
    /\ late.at \in {"first", "dial"} /\ Ended("ok") /\ Adopted
    /\ UNCHANGED <<kind, target, att, open>>

(* Mutant of LateFails: one more retry than there are waits. *)
LateFails_OneMore ==
    /\ late.at \in {"first", "dial"} /\ Dialed /\ ~Ended("ok")
    /\ late' = [late EXCEPT !.at = IF kind.of = "hub" /\ ~Ended("forgood") /\ open.tries <= MaxTries
                                   THEN "pause" ELSE "ended"]
    /\ UNCHANGED <<kind, target, att, open, held, asked>>

LateFails ==
    /\ late.at \in {"first", "dial"} /\ Dialed /\ ~Ended("ok")
    /\ late' = [late EXCEPT !.at = IF kind.of = "hub" /\ ~Ended("forgood") /\ open.tries < MaxTries
                                   THEN "pause" ELSE "ended"]
    /\ UNCHANGED <<kind, target, att, open, held, asked>>

Retry ==
    /\ late.at = "pause"
    /\ \/ late.released /\ late' = [late EXCEPT !.at = "ended"] /\ UNCHANGED open
       \/ /\ ~late.released /\ late' = [late EXCEPT !.at = "dial"]
          /\ open' = [at |-> "dialing", tries |-> open.tries + 1]
    /\ UNCHANGED <<kind, target, att, held, asked>>

(***************************************************************************)
(* The attach ends; the machine stops and starts.                          *)
(***************************************************************************)

Release ==
    /\ att = "on" /\ att' = "over"
    /\ held' = [held EXCEPT !.own = FALSE, !.late = FALSE] /\ late' = [late EXCEPT !.released = TRUE]
    /\ UNCHANGED <<kind, target, open, asked>>

BoxStops ==
    /\ target.runs /\ kind.of = "hub" /\ target.stops < MaxStops
    /\ target' = [target EXCEPT !.runs = FALSE, !.stops = @ + 1]
    /\ UNCHANGED <<kind, att, open, late, held, asked>>

(* The hub's own half of the attach starts it. *)
HubStarts ==
    /\ ~target.runs /\ att = "on" /\ target' = [target EXCEPT !.runs = TRUE]
    /\ UNCHANGED <<kind, att, open, late, held, asked>>

BridgeNext ==
    \/ DialFirst \/ Dialing \/ Opened \/ Refused \/ Boot \/ WaitedEnough
    \/ LateLands \/ LateFails \/ Retry \/ Release \/ BoxStops \/ HubStarts

BridgeSpec == BridgeInit /\ [][BridgeNext]_bridgevars

(***************************************************************************)
(* No bridge outlives its attach: once it and the open behind it are over  *)
(* no session is left on the daemon, which would hold it up and be offered *)
(* the guest's URLs; and a bridge held after an open was refused for a     *)
(* stopped machine has had the saved forwards brought up too.              *)
(***************************************************************************)
NoneOutlives ==
    /\ att = "over" /\ late.at \in {"none", "ended"} => ~held.own /\ ~held.late /\ ~held.new
    /\ att = "on" /\ late.at = "ended" /\ held.late /\ asked.stopped => asked.up
================================================================================
