------------------------------ MODULE SmolStart ------------------------------
(***************************************************************************)
(* This host's starts of one smol VM: `start` (cli/machine_cmds.go,        *)
(* powerStartWait) and the boot that attach, shell and setup do first      *)
(* (cli/setup.go, startStopped), under run/.start-NAME.lock.  smolvm lists *)
(* a VM whose boot is in flight as stopped, and a second `machine start`   *)
(* then kills that boot.                                                   *)
(***************************************************************************)
EXTENDS Naturals

CONSTANTS Starters   \* devvm processes that may start the VM

VARIABLES vm,       \* [state, by]: by is the starter whose boot is in flight
          slock,    \* the holder of the start lock
          verb, place,
          lost      \* starters whose boot another start killed

bootvars == <<vm, slock, verb, place, lost>>

NoStarter == "none"

ASSUME StartersAssumption == NoStarter \notin Starters

Up == [state |-> "running", by |-> NoStarter]
Off == [state |-> "stopped", by |-> NoStarter]

SmolTypeOK ==
    /\ vm \in [state : {"stopped", "booting", "running"}, by : Starters \cup {NoStarter}]
    /\ slock \in Starters \cup {NoStarter}
    /\ verb \in [Starters -> {"start", "session"}]
    /\ place \in [Starters -> {"out", "status", "lock", "again", "start", "wait"}]
    /\ lost \subseteq Starters
    /\ \A s \in Starters : slock = s <=> place[s] \in {"again", "start", "wait"}

SmolInit ==
    /\ vm = Off /\ slock = NoStarter /\ lost = {}
    /\ verb = [s \in Starters |-> "start"] /\ place = [s \in Starters |-> "out"]

(* Status: the VM runs, or it is listed as stopped, booting or not. *)
Running == vm.state = "running"

Step(s, from, to) == place[s] = from /\ place' = [place EXCEPT ![s] = to]

(* Mutant of Done: the lock's file stays open. *)
Done_Held(s) == place' = [place EXCEPT ![s] = "out"] /\ UNCHANGED slock

(* Leaving closes the lock's file, which releases the flock. *)
Done(s) == /\ place' = [place EXCEPT ![s] = "out"]
           /\ slock' = IF slock = s THEN NoStarter ELSE slock

Ask(s, v) ==
    /\ Step(s, "out", IF v = "start" THEN "lock" ELSE "status")
    /\ verb' = [verb EXCEPT ![s] = v] /\ lost' = lost \ {s}
    /\ UNCHANGED <<vm, slock>>

FirstStatus(s) ==
    /\ Step(s, "status", IF Running THEN "out" ELSE "lock")
    /\ UNCHANGED <<vm, slock, verb, lost>>

(* Mutant of LockStart: the starts are not serialized. *)
LockStart_Free(s) ==
    /\ Step(s, "lock", IF verb[s] = "start" THEN "start" ELSE "again")
    /\ UNCHANGED <<vm, slock, verb, lost>>

LockStart(s) ==
    /\ Step(s, "lock", IF verb[s] = "start" THEN "start" ELSE "again")
    /\ slock = NoStarter /\ slock' = s
    /\ UNCHANGED <<vm, verb, lost>>

(* startStopped looks again, for the start it waited behind. *)
StatusAgain(s) ==
    /\ place[s] = "again"
    /\ IF Running THEN Done(s) ELSE Step(s, "again", "start") /\ UNCHANGED slock
    /\ UNCHANGED <<vm, verb, lost>>

(* `machine start`: it boots a VM, or kills the boot it takes for an       *)
(* orphan; on a running VM it may fail, and the wait forgives that.        *)
PowerStart(s) ==
    /\ Step(s, "start", "wait")
    /\ vm' = IF Running THEN vm ELSE [state |-> "booting", by |-> s]
    /\ lost' = IF vm.state = "booting" /\ vm.by \in Starters THEN lost \cup {vm.by} ELSE lost
    /\ UNCHANGED <<slock, verb>>

(* waitRunning sees the VM run. *)
WaitRunning(s) ==
    /\ place[s] = "wait" /\ Running /\ Done(s)
    /\ UNCHANGED <<vm, verb, lost>>

(* It gives up after runningPollTimeout, or the process is killed: the     *)
(* boot, if any, is nobody's from here on.                                 *)
GiveUp(s) ==
    /\ place[s] # "out" /\ Done(s)
    /\ vm' = IF vm.by = s THEN [vm EXCEPT !.by = NoStarter] ELSE vm
    /\ UNCHANGED <<verb, lost>>

Booted == vm.state = "booting" /\ vm' = Up /\ UNCHANGED <<slock, verb, place, lost>>

(* `stop` takes no start lock. *)
PowerStop == vm # Off /\ vm' = Off /\ UNCHANGED <<slock, verb, place, lost>>

SmolNext ==
    \/ Booted \/ PowerStop
    \/ \E s \in Starters :
          \/ \E v \in {"start", "session"} : Ask(s, v)
          \/ FirstStatus(s) \/ LockStart(s) \/ StatusAgain(s) \/ PowerStart(s)
          \/ WaitRunning(s) \/ GiveUp(s)

SmolSpec == SmolInit /\ [][SmolNext]_bootvars

(***************************************************************************)
(* A start that is still waiting for its VM never has its boot killed by   *)
(* another start of this host: the lock covers the whole time smolvm lists *)
(* the booting VM as stopped.                                              *)
(***************************************************************************)
BootNotKilled == \A s \in Starters : place[s] = "wait" => s \notin lost
==============================================================================
