--------------------------------- MODULE Reach ---------------------------------
(***************************************************************************)
(* The host's last word on whether a remote box answers: one cache file    *)
(* per box, which rounds of probes and commands that talked to the box     *)
(* replace, without a lock, and `delete` drops (internal/reach,            *)
(* internal/cli/reach.go, internal/backend/ssh_reach.go).                  *)
(*                                                                         *)
(* A step is one look at the clock, the network or the file, or the rename *)
(* that replaces the file; time passes between any two.  It is coarse: a   *)
(* timer that is due fires before the clock moves on.                      *)
(***************************************************************************)
EXTENDS Integers, FiniteSets, FiniteSetsExt

CONSTANTS
    Boxes,          \* the `[machines.*]` entries that can be probed
    Proxied,        \* those behind a ProxyJump or a ProxyCommand
    Patience,       \* each box's connect_timeout, 0 when its entry has none
    Rounds,         \* commands and watchers that may be probing at once
    Slots,          \* reachTimes.parallel
    Deadline,       \* reachTimes.deadline, which is backend.ProbeBudget
    DialBound,      \* ProbeDialTimeout
    MaxNow,         \* how long a behaviour is followed
    MaxEvents       \* line changes, commands and deletes in a behaviour

ASSUME ReachAssumption ==
    /\ Boxes # {} /\ Patience \in [Boxes -> Nat]
    /\ DialBound \in Nat /\ Deadline \in Nat /\ MaxNow \in Nat /\ MaxEvents \in Nat

VARIABLES
    line,           \* what each box's address does: answers, refuses, is silent
    master,         \* the boxes one of whose ControlMasters is alive
    now,
    cache,          \* each box's file
    began,          \* when each round began, or Idle
    probe,          \* where each round's probe of each box is, and what it holds
    talk,           \* the command that talks to a box
    tests,          \* every test made so far: the box, what it showed, when
    events

rvars == <<line, master, now, cache, began, probe, talk, tests, events>>

Idle == -1
Never == -1         \* the zero time

Entry(state, how, verified) == [state |-> state, how |-> how, verified |-> verified, since |-> Never]
NoFile == Entry("?", "none", Never)
NoProbe == [at |-> "out", dialled |-> Never, entry |-> NoFile]
NoTalk(b) == [box |-> b, at |-> "out", entry |-> NoFile]

(* The dial's own bound: the entry's connect_timeout, which the budget caps. *)
Bound(b) == IF Patience[b] = 0 THEN DialBound ELSE Min({Patience[b], Deadline})

TimeUp(r) == now - began[r] >= Deadline
Waited(r, b) == now - probe[r][b].dialled

(* Since carries over when the state did not change. *)
Carried(old, e) ==
    [e EXCEPT !.since = IF old.state = e.state /\ old.since # Never THEN old.since ELSE e.verified]

(* Mutant of CutShort: a dial the round ended counts like any other. *)
CutShort_Never(r, b) == FALSE

(* A dial that ended without an answer says nothing when the round's       *)
(* deadline ended it, before the box had its whole bound.                  *)
CutShort(r, b) == TimeUp(r) /\ Waited(r, b) < Bound(b)

(* A `?` of a box that was not tested replaces no state somebody recorded. *)
Replaces(old, e) == e.how = "probe" \/ e.state # "?" \/ old.state = "?"

(* The command's result is a proof that ssh got there. *)
Reached(transport, result) == result = "ok" \/ (transport = "ssh" /\ result = "exit")

--------------------------------------------------------------------------------

Here(r, b, at) == probe[r][b].at = at
Goes(r, b, at) == probe' = [probe EXCEPT ![r][b].at = at]
Holds(r, b, e) == probe' = [probe EXCEPT ![r][b] = [at |-> "keep", dialled |-> Never, entry |-> e]]
Abandons(r, b) == probe' = [probe EXCEPT ![r][b] = NoProbe]

(* reachRound: every box of the round waits for a slot. *)
Look(r) ==
    /\ began[r] = Idle
    /\ \E bs \in SUBSET Boxes \ {{}} :
          probe' = [probe EXCEPT ![r] = [b \in Boxes |-> IF b \in bs THEN [NoProbe EXCEPT !.at = "queued"] ELSE NoProbe]]
    /\ began' = [began EXCEPT ![r] = now]
    /\ UNCHANGED <<line, master, now, cache, talk, tests, events>>

(* A free slot may still win against the deadline in the select. *)
TakeSlot(r, b) ==
    /\ Here(r, b, "queued")
    /\ Cardinality({d \in Boxes : probe[r][d].at \notin {"out", "queued"}}) < Slots
    /\ Goes(r, b, "check")
    /\ UNCHANGED <<line, master, now, cache, began, talk, tests, events>>

NoSlot(r, b) ==
    /\ Here(r, b, "queued") /\ TimeUp(r)
    /\ Abandons(r, b)
    /\ UNCHANGED <<line, master, now, cache, began, talk, tests, events>>

(* masterAlive: a killed check is no answer, and ends the probe. *)
CheckMaster(r, b) ==
    /\ Here(r, b, "check")
    /\ \/ TimeUp(r) /\ Abandons(r, b) /\ UNCHANGED tests
       \/ ~TimeUp(r) /\ b \in master /\ Holds(r, b, Entry("reachable", "master", now))
          /\ tests' = tests \cup {<<b, "reachable", now>>}
       \/ ~TimeUp(r) /\ b \notin master /\ Goes(r, b, "resolve") /\ UNCHANGED tests
    /\ UNCHANGED <<line, master, now, cache, began, talk, events>>

(* resolveDest: `ssh -G` may fail; a proxied alias is not dialled. *)
Resolve(r, b) ==
    /\ Here(r, b, "resolve")
    /\ \/ TimeUp(r) /\ Abandons(r, b)
       \/ ~TimeUp(r) /\ Holds(r, b, Entry("?", "none", Never))
       \/ ~TimeUp(r) /\ b \notin Proxied
          /\ probe' = [probe EXCEPT ![r][b] = [at |-> "dial", dialled |-> now, entry |-> NoFile]]
    /\ UNCHANGED <<line, master, now, cache, began, talk, tests, events>>

DialAnswered(r, b) ==
    /\ Here(r, b, "dial") /\ line[b] = "answers"
    /\ Holds(r, b, Entry("reachable", "probe", now))
    /\ tests' = tests \cup {<<b, "reachable", now>>}
    /\ UNCHANGED <<line, master, now, cache, began, talk, events>>

DialRefused(r, b) ==
    /\ Here(r, b, "dial") /\ line[b] = "refuses"
    /\ IF CutShort(r, b) THEN Abandons(r, b) /\ UNCHANGED tests
       ELSE /\ Holds(r, b, Entry("unreachable", "probe", now))
            /\ tests' = tests \cup {<<b, "unreachable", now>>}
    /\ UNCHANGED <<line, master, now, cache, began, talk, events>>

(* The dialer's bound or the round's deadline, whichever comes first. *)
DialEnds(r, b) ==
    /\ Here(r, b, "dial") /\ (Waited(r, b) >= Bound(b) \/ TimeUp(r))
    /\ IF CutShort(r, b) THEN Abandons(r, b) ELSE Holds(r, b, Entry("?", "probe", Never))
    /\ tests' = IF Waited(r, b) >= Bound(b) THEN tests \cup {<<b, "?", Never>>} ELSE tests
    /\ UNCHANGED <<line, master, now, cache, began, talk, events>>

(* Probe's look at what a `?` would replace. *)
Keep(r, b) ==
    /\ Here(r, b, "keep")
    /\ IF Replaces(cache[b], probe[r][b].entry) THEN Goes(r, b, "carry") ELSE Abandons(r, b)
    /\ UNCHANGED <<line, master, now, cache, began, talk, tests, events>>

(* Write's look at the entry whose since it keeps, then its rename. *)
Carry(r, b) ==
    /\ Here(r, b, "carry")
    /\ probe' = [probe EXCEPT ![r][b].entry = Carried(cache[b], @), ![r][b].at = "rename"]
    /\ UNCHANGED <<line, master, now, cache, began, talk, tests, events>>

Rename(r, b) ==
    /\ Here(r, b, "rename")
    /\ cache' = [cache EXCEPT ![b] = probe[r][b].entry]
    /\ Abandons(r, b)
    /\ UNCHANGED <<line, master, now, began, talk, tests, events>>

(* wg.Wait: the round is over when every probe is. *)
RoundEnds(r) ==
    /\ began[r] # Idle /\ \A b \in Boxes : Here(r, b, "out")
    /\ began' = [began EXCEPT ![r] = Idle]
    /\ UNCHANGED <<line, master, now, cache, probe, talk, tests, events>>

(* noteContact and Record: a command's result says whether ssh got there. *)
Contact(b) ==
    /\ events < MaxEvents /\ events' = events + 1
    /\ talk.at = "out"
    /\ \E transport \in {"ssh", "mosh"}, result \in {"ok", "exit", "ssh"} :
          /\ result # "ssh" => line[b] = "answers"
          /\ Reached(transport, result)
    /\ talk' = [box |-> b, at |-> "carry", entry |-> Entry("reachable", "command", now)]
    /\ tests' = IF line[b] = "answers" THEN tests \cup {<<b, "reachable", now>>} ELSE tests
    /\ UNCHANGED <<line, master, now, cache, began, probe>>

CommandCarries ==
    /\ talk.at = "carry"
    /\ talk' = [talk EXCEPT !.entry = Carried(cache[talk.box], @), !.at = "rename"]
    /\ UNCHANGED <<line, master, now, cache, began, probe, tests, events>>

CommandRenames ==
    /\ talk.at = "rename"
    /\ cache' = [cache EXCEPT ![talk.box] = talk.entry]
    /\ talk' = NoTalk(talk.box)
    /\ UNCHANGED <<line, master, now, began, probe, tests, events>>

(* delete, config rm and a provider's power off drop the entry. *)
Forget(b) ==
    /\ events < MaxEvents /\ events' = events + 1
    /\ cache[b] # NoFile
    /\ cache' = [cache EXCEPT ![b] = NoFile]
    /\ UNCHANGED <<line, master, now, began, probe, talk, tests>>

--------------------------------------------------------------------------------
(* The world. *)

LineChanges(b) ==
    /\ events < MaxEvents /\ events' = events + 1
    /\ \E l \in {"answers", "refuses", "silent"} \ {line[b]} : line' = [line EXCEPT ![b] = l]
    /\ master' = IF line'[b] = "answers" THEN master ELSE master \ {b}
    /\ UNCHANGED <<now, cache, began, probe, talk, tests>>

(* No timer that is due is passed over. *)
Tick ==
    /\ now < MaxNow
    /\ \A r \in Rounds, b \in Boxes :
          Here(r, b, "dial") => Waited(r, b) < Bound(b) /\ ~TimeUp(r)
    /\ now' = now + 1
    /\ UNCHANGED <<line, master, cache, began, probe, talk, tests, events>>

ReachInit ==
    /\ line \in [Boxes -> {"answers", "refuses", "silent"}]
    /\ master \in SUBSET {b \in Boxes : line[b] = "answers"}
    /\ now = 0 /\ cache = [b \in Boxes |-> NoFile] /\ tests = {} /\ events = 0
    /\ began = [r \in Rounds |-> Idle]
    /\ probe = [r \in Rounds |-> [b \in Boxes |-> NoProbe]]
    /\ talk = NoTalk(CHOOSE b \in Boxes : TRUE)

ReachNext ==
    \/ \E r \in Rounds : Look(r) \/ RoundEnds(r)
    \/ \E r \in Rounds, b \in Boxes :
          \/ TakeSlot(r, b) \/ NoSlot(r, b) \/ CheckMaster(r, b) \/ Resolve(r, b)
          \/ DialAnswered(r, b) \/ DialRefused(r, b) \/ DialEnds(r, b)
          \/ Keep(r, b) \/ Carry(r, b) \/ Rename(r, b)
    \/ \E b \in Boxes : Contact(b) \/ Forget(b) \/ LineChanges(b)
    \/ CommandCarries \/ CommandRenames
    \/ Tick

ReachSpec == ReachInit /\ [][ReachNext]_rvars

--------------------------------------------------------------------------------

Times == {Never} \cup (0..MaxNow)
Entries == [state : {"?", "reachable", "unreachable"}, how : {"none", "master", "probe", "command"},
            verified : Times, since : Times]

ReachTypeOK ==
    /\ line \in [Boxes -> {"answers", "refuses", "silent"}] /\ master \subseteq Boxes
    /\ now \in 0..MaxNow /\ events \in 0..MaxEvents /\ cache \in [Boxes -> Entries] /\ began \in [Rounds -> {Idle} \cup (0..MaxNow)]
    /\ probe \in [Rounds -> [Boxes -> [at : {"out", "queued", "check", "resolve", "dial", "keep", "carry", "rename"},
                                       dialled : Times, entry : Entries]]]
    /\ talk \in [box : Boxes, at : {"out", "carry", "rename"}, entry : Entries]

(* The cache says only what was established: a state and both its times    *)
(* are those of tests of that box that showed that state, and a box reads  *)
(* as timed out only if it once had its whole dial bound and was silent,   *)
(* never because its slot came late or the round ended ("what it writes is *)
(* only what it established", Probe).                                      *)
OnlyEstablished ==
    \A b \in Boxes : LET e == cache[b] IN
        /\ e.state # "?" => <<b, e.state, e.verified>> \in tests /\ <<b, e.state, e.since>> \in tests
        /\ e.state = "?" /\ e.how = "probe" => <<b, "?", Never>> \in tests

================================================================================
