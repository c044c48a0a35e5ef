------------------------------ MODULE SelfUpdate ------------------------------
(***************************************************************************)
(* `devvm update` (cli/update.go): find a release, decide, download and    *)
(* verify it, replace the running binary, then on the new binary stop and  *)
(* restart every forward daemon, beside daemons that start, reconnect or   *)
(* go idle and session clients that bring theirs back.                     *)
(***************************************************************************)
EXTENDS Integers, Sequences

CONSTANTS Machines,   \* with a forward daemon or not
          Ascending   \* releases from the oldest up, equal ones in one set

VARIABLES disk,      \* the installed binary: its version, and is it whole
          upd,       \* the update command
          result,    \* what it did with each machine's daemon
          daemons,    \* of each machine
          session    \* machines some session client holds

zvars == <<disk, upd, result, daemons, session>>

(* A version: its numbers and what git or the release put after them. *)
Dev == [nums |-> <<>>, kind |-> "dev", n |-> 0]
Versions == {Dev} \cup UNION {Ascending[i] : i \in DOMAIN Ascending}
Absent == [state |-> "none", code |-> Dev, layout |-> "state", conf |-> FALSE]
Serving == {"up", "reconnecting"}
NoMachine == "no machine"

ASSUME UpdateAssumption == NoMachine \notin Machines

(* Mutant of Layouts: daemons from before the split are not looked for. *)
Layouts_StateOnly == <<"state">>

(* Where a daemon's socket may be, in the order restartDaemons looks. *)
Layouts == <<"legacy", "state">>

UpdTypeOK ==
    /\ disk \in [version : Versions, whole : BOOLEAN]
    /\ upd \in [at : {"find", "decide", "fetch", "verify", "temp", "rename", "exec", "look", "stop", "wait",
                      "respawn", "exit", "failed"},
                old : Versions, tag : Versions, force : BOOLEAN, good : BOOLEAN, had : BOOLEAN,
                todo : SUBSET Machines, on : Machines \cup {NoMachine}, layout : 1..3, ran : SUBSET Machines]
    /\ result \in [Machines -> SUBSET {"cycled", "skipped", "failed"}]
    /\ daemons \in [Machines -> [state : {"none", "starting", "up", "reconnecting", "stopping"}, code : Versions,
                                layout : {"legacy", "state"}, conf : BOOLEAN]]
    /\ session \subseteq Machines

(***************************************************************************)
(* The order of versions (compareVersions, suffixRank).                    *)
(***************************************************************************)

Num(v, i) == IF i <= Len(v.nums) THEN v.nums[i] ELSE 0
Sign(x, y) == IF x < y THEN -1 ELSE IF x > y THEN 1 ELSE 0

(* Mutant of Rank: a prerelease counts as the release. *)
Rank_NoPre(v) == IF v.kind \in {"past", "dirty"} THEN 1 ELSE 0

(* A build past a tag is above it, a prerelease below. *)
Rank(v) == CASE v.kind \in {"past", "dirty"} -> 1 [] v.kind = "release" -> 0 [] v.kind = "pre" -> -1

(* The commits past the tag: an exact tag's dirty build has none. *)
Commits(v) == IF v.kind = "past" THEN v.n ELSE 0

CompareVersions(a, b) ==
    LET differ == {i \in 1..Len(a.nums) \cup 1..Len(b.nums) : Num(a, i) # Num(b, i)}
        first == CHOOSE i \in differ : \A j \in differ : i <= j
    IN CASE differ # {} -> Sign(Num(a, first), Num(b, first))
         [] differ = {} /\ Rank(a) # Rank(b) -> Sign(Rank(a), Rank(b))
         [] differ = {} /\ Rank(a) = Rank(b) -> IF Rank(a) = 1 THEN Sign(Commits(a), Commits(b)) ELSE Sign(a.n, b.n)

(***************************************************************************)
(* The download (runUpdate up to the exec).                                *)
(***************************************************************************)

(* The user's build; any release may be the latest or the one asked for. *)
UpdInit ==
    /\ \E v \in Versions, tag \in Versions \ {Dev}, f \in BOOLEAN :
          /\ disk = [version |-> v, whole |-> TRUE]
          /\ upd = [at |-> "find", old |-> v, tag |-> tag, force |-> f, good |-> FALSE, had |-> FALSE,
                    todo |-> {}, on |-> NoMachine, layout |-> 1, ran |-> {}]
          /\ daemons \in [Machines -> {Absent} \cup [state : {"starting"} \cup Serving, code : {v},
                                                    layout : {"legacy", "state"}, conf : BOOLEAN]]
    /\ result = [m \in Machines |-> {}]
    /\ session \in SUBSET {m \in Machines : daemons[m].state # "none"}

Goes(at) == upd' = [upd EXCEPT !.at = at]
Others == UNCHANGED <<result, daemons, session>>

(* No release, no checksum, no room, ^C: what is installed stays. *)
Fails ==
    /\ upd.at \in {"find", "fetch", "verify", "temp", "rename", "exec"} /\ Goes("failed")
    /\ UNCHANGED disk /\ Others

Find == upd.at = "find" /\ Goes("decide") /\ UNCHANGED disk /\ Others

(* A dev build compares with nothing; a release is taken if it is newer.   *)
Decide ==
    /\ upd.at = "decide"
    /\ CASE upd.force -> Goes("fetch")
         [] ~upd.force /\ upd.old = Dev -> Goes("failed")
         [] ~upd.force /\ upd.old # Dev -> IF CompareVersions(upd.tag, upd.old) = 1 THEN Goes("fetch") ELSE Goes("exit")
    /\ UNCHANGED disk /\ Others

(* The asset comes whole, or cut short, or corrupt. *)
Fetch ==
    /\ upd.at = "fetch"
    /\ \E g \in BOOLEAN : upd' = [upd EXCEPT !.at = "verify", !.good = g]
    /\ UNCHANGED disk /\ Others

Verify ==
    /\ upd.at = "verify" /\ IF upd.good THEN Goes("temp") ELSE Goes("failed")
    /\ UNCHANGED disk /\ Others

WriteTemp == upd.at = "temp" /\ Goes("rename") /\ UNCHANGED disk /\ Others

RenameBinary ==
    /\ upd.at = "rename" /\ disk' = [version |-> upd.tag, whole |-> upd.good] /\ Goes("exec")
    /\ Others

(***************************************************************************)
(* The new binary cycles the daemons (finishUpdate, restartDaemons).       *)
(***************************************************************************)

Reexec ==
    /\ upd.at = "exec"
    /\ upd' = [upd EXCEPT !.at = "look", !.todo = Machines,
                          !.ran = {m \in Machines : daemons[m].state \in Serving}]
    /\ UNCHANGED disk /\ Others

NextMachine ==
    /\ upd.at = "look" /\ upd.on = NoMachine
    /\ \E m \in upd.todo : upd' = [upd EXCEPT !.on = m, !.todo = @ \ {m}, !.layout = 1]
    /\ UNCHANGED disk /\ Others

(* One machine and layout are done with, whatever came of it. *)
Recorded(outcome) ==
    /\ result' = [result EXCEPT ![upd.on] = @ \cup outcome]
    /\ upd' = [upd EXCEPT !.at = "look", !.layout = @ + 1]

AllLooked ==
    /\ upd.at = "look" /\ upd.on # NoMachine /\ upd.layout > Len(Layouts)
    /\ upd' = [upd EXCEPT !.on = NoMachine, !.layout = 1]
    /\ UNCHANGED disk /\ Others

(* ExistingIn and Status: nobody there, current, redialing, or to cycle.   *)
Look ==
    /\ upd.at = "look" /\ upd.on # NoMachine /\ upd.layout <= Len(Layouts)
    /\ LET d == daemons[upd.on]
       IN CASE d.state \notin Serving \/ d.layout # Layouts[upd.layout] -> Recorded({})
            [] OTHER -> IF d.code = disk.version \/ d.state = "reconnecting" THEN Recorded({"skipped"})
                        ELSE upd' = [upd EXCEPT !.at = "stop", !.had = d.conf] /\ UNCHANGED result
    /\ UNCHANGED <<disk, daemons, session>>

There(states) == daemons[upd.on].state \in states /\ daemons[upd.on].layout = Layouts[upd.layout]

StopDaemon ==
    /\ upd.at = "stop"
    /\ IF There(Serving)
       THEN daemons' = [daemons EXCEPT ![upd.on].state = "stopping"] /\ Goes("wait") /\ UNCHANGED result
       ELSE Recorded({"failed"}) /\ UNCHANGED daemons
    /\ UNCHANGED <<disk, session>>

(* WaitGone: no socket at that layout and no answer, or the time is up. *)
WaitEnds ==
    /\ upd.at = "wait"
    /\ \/ ~There({"stopping"} \cup Serving) /\ upd.had /\ Goes("respawn") /\ UNCHANGED result
       \/ ~There({"stopping"} \cup Serving) /\ ~upd.had /\ Recorded({"cycled"})
       \/ There({"stopping"} \cup Serving) /\ Recorded({"failed"})
    /\ UNCHANGED <<disk, daemons, session>>

(* tunnelUp: Dial spawns a daemon where none answers. *)
Spawn ==
    /\ upd.at = "respawn" /\ daemons[upd.on].state = "none"
    /\ daemons' = [daemons EXCEPT ![upd.on] = [Absent EXCEPT !.state = "starting", !.code = disk.version]]
    /\ UNCHANGED <<disk, upd, result, session>>

(* The saved forwards are added to the daemon that answers, whose version  *)
(* is asked for; or none comes up in time.                                 *)
Restarted ==
    /\ upd.at = "respawn"
    /\ \/ /\ daemons[upd.on].state \in Serving
          /\ daemons' = [daemons EXCEPT ![upd.on].conf = TRUE]
          /\ Recorded(IF daemons[upd.on].code = disk.version THEN {"cycled"} ELSE {"failed"})
       \/ Recorded({"failed"}) /\ UNCHANGED daemons
    /\ UNCHANGED <<disk, session>>

(* Non-zero if any daemon failed to come back. *)
Finished ==
    /\ upd.at = "look" /\ upd.on = NoMachine /\ upd.todo = {}
    /\ Goes(IF \E m \in Machines : "failed" \in result[m] THEN "failed" ELSE "exit")
    /\ UNCHANGED disk /\ Others

(***************************************************************************)
(* Meanwhile: daemons come up, give up, lose and regain their link, go     *)
(* idle; a session client brings its machine's back from the binary there. *)
(***************************************************************************)

DaemonMoves(m) ==
    /\ LET d == daemons[m]
       IN \/ d.state \in {"starting", "reconnecting"} /\ daemons' = [daemons EXCEPT ![m].state = "up"]
          \/ d.state = "up" /\ daemons' = [daemons EXCEPT ![m].state = "reconnecting"]
          \/ d.state = "up" /\ d.conf /\ daemons' = [daemons EXCEPT ![m].conf = FALSE]
          \/ /\ d.state \in {"starting", "stopping"} \/ (d.state \in Serving /\ ~d.conf /\ m \notin session)
             /\ daemons' = [daemons EXCEPT ![m] = Absent]
    /\ UNCHANGED <<disk, upd, result, session>>

SessionRedials(m) ==
    /\ m \in session /\ daemons[m].state = "none"
    /\ daemons' = [daemons EXCEPT ![m] = [Absent EXCEPT !.state = "starting", !.code = disk.version]]
    /\ UNCHANGED <<disk, upd, result, session>>

UpdNext ==
    \/ Fails \/ Find \/ Decide \/ Fetch \/ Verify \/ WriteTemp \/ RenameBinary
    \/ Reexec \/ NextMachine \/ AllLooked \/ Look \/ StopDaemon \/ WaitEnds \/ Spawn \/ Restarted \/ Finished
    \/ \E m \in Machines : DaemonMoves(m) \/ SessionRedials(m)

UpdSpec == UpdInit /\ [][UpdNext]_zvars

(***************************************************************************)
(* What replaces the running binary is whole, and without --force it is    *)
(* newer than what ran: a prerelease is older than its release, a build    *)
(* past a tag newer than the tag, trailing zeros mean nothing.             *)
(***************************************************************************)
OnlyUpward ==
    [][LET age(v) == CHOOSE i \in DOMAIN Ascending : v \in Ascending[i]
       IN disk' # disk => /\ disk'.whole
                          /\ upd.force \/ (disk.version # Dev /\ age(disk'.version) > age(disk.version))]_zvars

(***************************************************************************)
(* An update that reports success leaves no daemon that was serving when   *)
(* the new binary took over on the old code, except those it said it       *)
(* skipped: whatever the layout it serves from, and however daemons        *)
(* reconnect, exit and come back meanwhile.                                *)
(***************************************************************************)
NoOldCode ==
    upd.at = "exit" =>
        \A m \in upd.ran : daemons[m].state \in Serving /\ daemons[m].code # disk.version => "skipped" \in result[m]
==============================================================================
