--------------------------- MODULE ForwardDaemon ---------------------------
(***************************************************************************)
(* The per-machine forward daemon of internal/session: its forward table   *)
(* and the goroutines that work on it.  Request handlers add, remove and   *)
(* drop forwards; session connections own some of them; one supervisor     *)
(* (daemon.loop) notices a dead transport, redials, restores the forwards, *)
(* retries pending ones, expires ttl owners and shuts the daemon down.     *)
(*                                                                         *)
(* One action is one critical section of d.mu, or one effect outside it (a *)
(* bind attempt, a closer closed, a transport dialed or closed), so every  *)
(* interleaving the lock leaves open is a behaviour.  A *fwd is a heap     *)
(* cell: the code compares pointers, so slots have identities and a slot   *)
(* is reused only when nothing refers to it.                               *)
(***************************************************************************)
EXTENDS Integers, FiniteSets

CONSTANTS
  Guests,       \* guest ports: the keys of d.forwards
  Prefs,        \* host ports clients ask for
  Bump,         \* ports one bumpable bind may try (20 in bind)
  MaxPort,      \* host ports above it never bind (65535)
  ForeignPorts, \* host ports other programs may come to hold
  Conns,        \* session connection ids (d.nextConn: never reused)
  Procs,        \* request handlers running at once
  Slots,        \* heap cells for *fwd
  Transports,   \* transports: ids reused once closed and unreferenced
  Callers,      \* who sends requests: a subset of Vias (ports down is a one-shot)
  Kind,         \* "smol": a closer owns its listener; "ssh": -L specs on one ControlPath
  MaxEphemeral, \* bridge forwards per machine (20)
  Sup,          \* the supervisor goroutine
  Conf, TTL,    \* the two owners that are no connection
  NoSlot, NoTr, NoReq, NoJob

ASSUME ConstantsAssumption ==
  /\ Guests \subseteq Nat \ {0} /\ Prefs \subseteq Nat \ {0}
  /\ Bump \in Nat \ {0} /\ MaxPort \in Nat /\ ForeignPorts \subseteq Nat /\ MaxEphemeral \in Nat
  /\ Kind \in {"smol", "ssh"} /\ Callers \subseteq {"oneshot", "session", "bridge"}
  /\ Sup \notin Procs /\ NoSlot \notin Slots /\ NoTr \notin Transports
  /\ Conf # TTL /\ Conf \notin Conns /\ TTL \notin Conns

VARIABLES
  tr,        \* d.tr
  state,     \* d.state
  stop,      \* d.stop is closed
  forwards,  \* d.forwards: guest port -> slot
  slot,      \* the heap of *fwd
  lapsed,    \* slots whose ttl owner is past its expiry
  sessions,  \* d.sessions: the registered connections
  conn,      \* a connection's life: its reader and its closeSession
  relay,     \* sess.relay, fixed at open
  pc, req, job,                  \* the handlers: where, for what, binding what
  sup, batch, tried, old,        \* the supervisor: where, its rebind pass, the transport it works on
  trs, late,                     \* every transport's status; a dial interrupted by stop
  carried, foreign, closing      \* the host: forwards carried, ports other programs hold, closers not yet run

tableVars == <<forwards, slot, lapsed>>
sessVars  == <<sessions, conn, relay>>
procVars  == <<pc, req, job>>
passVars  == <<batch, tried>>
supVars   == <<sup, old>>
hostVars  == <<carried, foreign, closing>>
vars == <<tr, state, stop, tableVars, sessVars, procVars, passVars, supVars,
          trs, late, hostVars>>

Binders == Procs \union {Sup}
Owners  == Conns \union {Conf, TTL}

\* The fwd record: closer is the transport its closer came from, or NoTr.
Fwd == [guest : Guests \union {0}, host : Nat, exact : BOOLEAN,
        closer : Transports \union {NoTr}, binding : BOOLEAN, owners : SUBSET Owners]
Blank == [guest |-> 0, host |-> 0, exact |-> FALSE, closer |-> NoTr,
          binding |-> FALSE, owners |-> {}]

\* One add: from a one-shot connection, a session's worker or the bridge.
Vias == {"oneshot", "session", "bridge"}
Requests == [guest : Guests, pref : Nat, exact : BOOLEAN, own : Owners, via : Vias]

\* One run of bind: the slot it claimed and the ports it has still to try.
Jobs == [slot : Slots, guest : Guests, tr : Transports,
         at : Nat, last : Nat, exact : BOOLEAN, added : BOOLEAN]

Closers == [tr : Transports, host : Nat, guest : Guests]

Binding == {"try", "bound", "failed", "contended"}

ASSUME NoneAssumption == NoReq \notin Requests /\ NoJob \notin Jobs

-----------------------------------------------------------------------------
(* The forward table. *)

Mapped == {forwards[g] : g \in Guests} \ {NoSlot}

\* heldLocked: the forwards some owner holds.
Held == {g \in Guests : forwards[g] # NoSlot /\ slot[forwards[g]].owners # {}}

\* idleNow: nothing to forward and nobody holding the daemon.
IdleNow == Held = {} /\ sessions = {}

\* Cells no pointer reaches: where newFwd may allocate.
FreeSlots == Slots \ (Mapped \union batch \union tried
                      \union {job[b].slot : b \in {x \in Binders : job[x] # NoJob}})

Unlapsed(table) == {s \in lapsed : TTL \in table[s].owners}

(* dropOwnersLocked with releaseLocked: take del[s] from every mapped slot and
   delete the ones left with no owner, except a slot some bind still claims.  *)
Released(del) == {s \in Mapped : slot[s].owners \subseteq del[s] /\ ~slot[s].binding}
DropForwards(del) ==
  [g \in Guests |-> IF forwards[g] \in Released(del) THEN NoSlot ELSE forwards[g]]
DropSlots(del) ==
  [s \in Slots |-> IF s \in Released(del) THEN Blank
                   ELSE IF s \in Mapped THEN [slot[s] EXCEPT !.owners = @ \ del[s]]
                   ELSE slot[s]]
CloserOf(s) == [tr |-> slot[s].closer, host |-> slot[s].host, guest |-> slot[s].guest]

DropClosers(del) == {CloserOf(s) : s \in {x \in Released(del) : slot[x].closer # NoTr}}

DropOwners(del) ==
  /\ forwards' = DropForwards(del)
  /\ slot' = DropSlots(del)
  /\ lapsed' = Unlapsed(slot')
  /\ closing' = closing \union DropClosers(del)

\* What each caller drops.
FromAll(o) == [s \in Slots |-> {o}]
FromSlot(x, o) == [s \in Slots |-> IF s = x THEN {o} ELSE {}]
Relays == {c \in sessions : relay[c]}

\* Mutant: onDead unregisters the relays and leaves their owners to closeSession.
FromNoRelays == [s \in Slots |-> {}]

FromRelays == [s \in Slots |-> Relays]
ExpiredTTL == [s \in Slots |-> IF s \in lapsed THEN {TTL} ELSE {}]

\* Mutant: finishBinding is forgotten, so ready is never closed.
NeverReady(s, g, ow, rec) ==
  IF forwards[g] = s /\ ow # {} THEN [rec EXCEPT !.owners = ow] ELSE Blank

(* settleLocked: end a binder's claim on s, its owners now ow and its record
   rec, and delete it if ow is empty.  A slot shutdown already took out of the
   map is garbage once its binder lets go. *)
Settled(s, g, ow, rec) ==
  IF forwards[g] = s /\ ow # {} THEN [rec EXCEPT !.owners = ow, !.binding = FALSE]
                                ELSE Blank

Settle(s, g, ow, rec) ==
  /\ forwards' = [forwards EXCEPT ![g] = IF @ = s /\ ow = {} THEN NoSlot ELSE @]
  /\ slot' = [slot EXCEPT ![s] = Settled(s, g, ow, rec)]
  /\ lapsed' = Unlapsed(slot')

(* relayOnlyLocked: held only by relays, or by connections already gone. *)
RelayOnly(s) ==
  /\ slot[s].owners # {}
  /\ \A o \in slot[s].owners : o \in Conns /\ ~(o \in sessions /\ ~relay[o])

(* ephemeralRoomLocked and bridgeHeldLocked: the bridge's cap. *)
BridgeHeld(s) ==
  /\ Conf \notin slot[s].owners
  /\ TTL \in slot[s].owners \/ \E o \in slot[s].owners \intersect sessions : ~relay[o]
EphemeralRoom == Cardinality({s \in Mapped : BridgeHeld(s)}) < MaxEphemeral

\* Mutant: the forwards keep their closers.
NotDetached(table) == table

(* detachLocked's marking of every forward as pending. *)
Detached(table) ==
  [s \in Slots |-> IF s \in Mapped THEN [table[s] EXCEPT !.closer = NoTr] ELSE table[s]]

-----------------------------------------------------------------------------
(* Transports and the host's ports (external: smolvm's exec and listeners, *)
(* the ssh master and its -L forwards).                                    *)

Busy(p) == p > MaxPort \/ p \in foreign \/ \E c \in carried : c.host = p

\* Every `ssh -O` goes to whatever master answers on the one ControlPath.
Carrier(t) == IF Kind = "smol" THEN IF trs[t] \in {"live", "dead"} THEN {t} ELSE {}
                               ELSE {x \in Transports : trs[x] = "live"}

(* One tr.forward(at, guest).  Busy bumps, or ends an exact bind or an
   exhausted range as contention. *)
BindBusy(b) ==
  /\ pc[b] = "try"
  /\ Busy(job[b].at)
  /\ IF job[b].at < job[b].last
       THEN job' = [job EXCEPT ![b].at = @ + 1] /\ UNCHANGED pc
       ELSE pc' = [pc EXCEPT ![b] = "contended"] /\ UNCHANGED job
  /\ UNCHANGED <<tr, state, stop, tableVars, sessVars, req, passVars, supVars, trs, late, hostVars>>

BindOK(b) ==
  /\ pc[b] = "try"
  /\ ~Busy(job[b].at)
  /\ \E m \in Carrier(job[b].tr) :
       carried' = carried \union {[tr |-> m, host |-> job[b].at, guest |-> job[b].guest]}
  /\ pc' = [pc EXCEPT ![b] = "bound"]
  /\ UNCHANGED <<tr, state, stop, tableVars, sessVars, req, job, passVars, supVars, trs, late,
                 foreign, closing>>

\* smol fails only once its transport is closed (forwardSet.track); an
\* `ssh -O forward` may fail for reasons of its own.
BindErr(b) ==
  /\ pc[b] = "try"
  /\ ~Busy(job[b].at)
  /\ Carrier(job[b].tr) = {} \/ Kind = "ssh"
  /\ pc' = [pc EXCEPT ![b] = "failed"]
  /\ UNCHANGED <<tr, state, stop, tableVars, sessVars, req, job, passVars, supVars, trs, late, hostVars>>

(* A forward's closer runs, outside d.mu, some time after it was handed out.
   smol closes that listener; ssh cancels its spec on the ControlPath. *)
Uncarry(c) ==
  IF Kind = "smol" THEN carried \ {c}
  ELSE {x \in carried : ~(x.host = c.host /\ x.guest = c.guest)}
CloseForward(c) ==
  /\ c \in closing
  /\ closing' = closing \ {c}
  /\ carried' = Uncarry(c)
  /\ UNCHANGED <<tr, state, stop, tableVars, sessVars, procVars, passVars, supVars, trs, late, foreign>>

\* The exec or the master dies: dead() fires.  A smol transport's listeners
\* live in this process until its Close; a dead master takes its -L with it.
TransportDies(t) ==
  /\ trs[t] = "live"
  /\ trs' = [trs EXCEPT ![t] = "dead"]
  /\ carried' = IF Kind = "smol" THEN carried ELSE {c \in carried : c.tr # t}
  /\ UNCHANGED <<tr, state, stop, tableVars, sessVars, procVars, passVars, supVars, late, foreign, closing>>

ForeignTakes(p) ==
  /\ ~Busy(p)
  /\ foreign' = foreign \union {p}
  /\ UNCHANGED <<tr, state, stop, tableVars, sessVars, procVars, passVars, supVars, trs, late, carried, closing>>
ForeignFrees(p) ==
  /\ p \in foreign
  /\ foreign' = foreign \ {p}
  /\ UNCHANGED <<tr, state, stop, tableVars, sessVars, procVars, passVars, supVars, trs, late, carried, closing>>

\* The wall clock passes a ttl owner's expiry.
TTLLapses(s) ==
  /\ s \in Mapped /\ TTL \in slot[s].owners /\ s \notin lapsed
  /\ lapsed' = lapsed \union {s}
  /\ UNCHANGED <<tr, state, stop, forwards, slot, sessVars, procVars, passVars, supVars, trs, late, hostVars>>

-----------------------------------------------------------------------------
(* Request handlers: addWith, bindSlot, remove, down, stop. *)

Start(p, r) ==
  /\ pc[p] = "idle"
  /\ pc' = [pc EXCEPT ![p] = "req"]
  /\ req' = [req EXCEPT ![p] = r]
  /\ UNCHANGED <<tr, state, stop, tableVars, sessVars, job, passVars, supVars, trs, late, hostVars>>

\* A session's worker runs its requests one at a time.
WorkerBusy(c) == \E p \in Procs : req[p] # NoReq /\ req[p].via = "session" /\ req[p].own = c

OneShotAdd(p, g, pref, ex) ==
  /\ "oneshot" \in Callers
  /\ Start(p, [guest |-> g, pref |-> pref, exact |-> ex, own |-> Conf, via |-> "oneshot"])

SessionAdd(p, c, g, pref, ex) ==
  /\ "session" \in Callers
  /\ conn[c] = "open" /\ ~WorkerBusy(c)
  /\ Start(p, [guest |-> g, pref |-> pref, exact |-> ex, own |-> c, via |-> "session"])

(* bridgeOpen picks a local subscriber while up, then bridgeBind adds for it:
   a direct open owned by the connection, a redirect exact and owned by ttl. *)
BridgeAdd(p, c, g, redirect) ==
  /\ "bridge" \in Callers
  /\ c \in sessions /\ ~relay[c] /\ state = "up"
  /\ Start(p, [guest |-> g, pref |-> g, exact |-> redirect,
               own |-> IF redirect THEN TTL ELSE c, via |-> "bridge"])

\* Mutant: a handler answers without letting go of its bind.
FinishHolding(p) ==
  /\ pc' = [pc EXCEPT ![p] = "idle"]
  /\ req' = [req EXCEPT ![p] = NoReq]
  /\ UNCHANGED job

Finish(p) ==
  /\ pc' = [pc EXCEPT ![p] = "idle"]
  /\ req' = [req EXCEPT ![p] = NoReq]
  /\ job' = [job EXCEPT ![p] = NoJob]

\* The owner is a connection whose session is no longer registered.
Gone(r) == r.own \in Conns \ sessions

\* Mutant: an add does not wait for the bind in flight.
ReadyAtOnce(g) == TRUE

\* addWith past its wait on ready: no slot, or one nobody is binding.
Ready(g) == forwards[g] # NoSlot => ~slot[forwards[g]].binding

AddGone(p) ==
  /\ pc[p] = "req" /\ Gone(req[p])
  /\ Finish(p)
  /\ UNCHANGED <<tr, state, stop, tableVars, sessVars, passVars, supVars, trs, late, hostVars>>

\* An exact request for another host port than the forward's.
Conflict(r) == forwards[r.guest] # NoSlot /\ r.exact /\ slot[forwards[r.guest]].host # r.pref

\* Mutant: the bridge's adds are not asked for room.
AlwaysAdmitted(r) == FALSE

NotAdmitted(r) == forwards[r.guest] = NoSlot /\ r.via = "bridge" /\ ~EphemeralRoom

AddRefused(p) ==
  /\ pc[p] = "req" /\ ~Gone(req[p]) /\ Ready(req[p].guest)
  /\ Conflict(req[p]) \/ NotAdmitted(req[p])
  /\ Finish(p)
  /\ UNCHANGED <<tr, state, stop, tableVars, sessVars, passVars, supVars, trs, late, hostVars>>

\* Nothing to bind: the forward is live, or there is no transport to bind on.
RecordOnly(s) == (s # NoSlot /\ slot[s].closer # NoTr) \/ state = "reconnecting" \/ tr = NoTr

\* The slot the add works on: the guest's own, or a fresh cell.
Target(g, s) == IF forwards[g] = NoSlot THEN s \in FreeSlots ELSE s = forwards[g]

\* The cell once own is recorded on it (newFwd or addOwner).
Owned(r, s, exact) ==
  IF forwards[r.guest] = NoSlot
    THEN [guest |-> r.guest, host |-> r.pref, exact |-> exact, closer |-> NoTr,
          binding |-> FALSE, owners |-> {r.own}]
    ELSE [slot[s] EXCEPT !.owners = @ \union {r.own}]

Refreshed(r, s) == IF r.own = TTL THEN lapsed \ {s} ELSE lapsed

AddRecord(p, s) ==
  LET r == req[p] IN
  /\ pc[p] = "req" /\ ~Gone(r) /\ Ready(r.guest) /\ ~Conflict(r) /\ ~NotAdmitted(r)
  /\ RecordOnly(forwards[r.guest])
  /\ Target(r.guest, s)
  /\ forwards' = [forwards EXCEPT ![r.guest] = s]
  /\ slot' = [slot EXCEPT ![s] = [Owned(r, s, r.exact) EXCEPT !.exact = @ \/ r.exact]]
  /\ lapsed' = Refreshed(r, s)
  /\ Finish(p)
  /\ UNCHANGED <<tr, state, stop, sessVars, passVars, supVars, trs, late, hostVars>>

\* Where an add binds: an exact forward only ever at its own port.
BindAt(r, s) ==
  IF forwards[r.guest] = s /\ slot[s].exact THEN [at |-> slot[s].host, exact |-> TRUE]
                                           ELSE [at |-> r.pref, exact |-> r.exact]

\* bind's range: one port if exact, Bump ports otherwise.
LastPort(at, exact) == IF exact THEN at ELSE at + Bump - 1

AddBind(p, s) ==
  LET r == req[p]
      b == BindAt(r, s) IN
  /\ pc[p] = "req" /\ ~Gone(r) /\ Ready(r.guest) /\ ~Conflict(r) /\ ~NotAdmitted(r)
  /\ ~RecordOnly(forwards[r.guest])
  /\ Target(r.guest, s)
  /\ forwards' = [forwards EXCEPT ![r.guest] = s]
  /\ slot' = [slot EXCEPT ![s] = [Owned(r, s, FALSE) EXCEPT !.binding = TRUE]]
  /\ lapsed' = Refreshed(r, s)
  /\ job' = [job EXCEPT ![p] =
       [slot |-> s, guest |-> r.guest, tr |-> tr, at |-> b.at, last |-> LastPort(b.at, b.exact),
        exact |-> b.exact, added |-> forwards[r.guest] = NoSlot \/ r.own \notin slot[s].owners]]
  /\ pc' = [pc EXCEPT ![p] = "try"]
  /\ UNCHANGED <<tr, state, stop, sessVars, req, passVars, supVars, trs, late, hostVars>>

\* bindSlot's error path: the transport died under the bind, so it stays pending.
DiedUnder(j) == tr # j.tr \/ state # "up" \/ trs[j.tr] # "live"

BindSlotFailed(p) ==
  LET j == job[p]
      left == IF j.added /\ ~DiedUnder(j) THEN slot[j.slot].owners \ {req[p].own}
                                          ELSE slot[j.slot].owners IN
  /\ pc[p] \in {"failed", "contended"}
  /\ Settle(j.slot, j.guest, left, slot[j.slot])
  /\ Finish(p)
  /\ UNCHANGED <<tr, state, stop, sessVars, passVars, supVars, trs, late, hostVars>>

\* Mutant: a late bind is adopted whatever transport it was made on.
CanAdoptLate(j) ==
  /\ forwards[j.guest] = j.slot /\ slot[j.slot].owners # {}
  /\ slot[j.slot].closer = NoTr

(* adopt: the bind's result is recorded, or closed if the forward was removed,
   another bind won, or its transport is no longer the current one. *)
CanAdopt(j) ==
  /\ forwards[j.guest] = j.slot /\ slot[j.slot].owners # {}
  /\ slot[j.slot].closer = NoTr
  /\ tr = j.tr

\* Mutant: the losing bind is not closed.
AdoptLeaks(j) ==
  /\ Settle(j.slot, j.guest, slot[j.slot].owners,
       IF CanAdopt(j) THEN [slot[j.slot] EXCEPT !.host = j.at, !.closer = j.tr,
                                                !.exact = @ \/ j.exact]
                      ELSE slot[j.slot])
  /\ UNCHANGED closing

Adopt(j) ==
  /\ Settle(j.slot, j.guest, slot[j.slot].owners,
       IF CanAdopt(j) THEN [slot[j.slot] EXCEPT !.host = j.at, !.closer = j.tr,
                                                !.exact = @ \/ j.exact]
                      ELSE slot[j.slot])
  /\ closing' = IF CanAdopt(j) THEN closing
                ELSE closing \union {[tr |-> j.tr, host |-> j.at, guest |-> j.guest]}

AddAdopt(p) ==
  /\ pc[p] = "bound"
  /\ Adopt(job[p])
  /\ Finish(p)
  /\ UNCHANGED <<tr, state, stop, sessVars, passVars, supVars, trs, late, carried, foreign>>

\* remove: `ports rm` (conf or ttl), or a session's own ownership.
Remove(g, o) ==
  /\ forwards[g] # NoSlot /\ o \in slot[forwards[g]].owners
  /\ o \in Conns => conn[o] = "open" /\ ~WorkerBusy(o)
  /\ DropOwners(FromSlot(forwards[g], o))
  /\ UNCHANGED <<tr, state, stop, sessVars, procVars, passVars, supVars, trs, late, carried, foreign>>

\* down: drop every conf owner; look again; stop.
DownDrop(p) ==
  /\ "oneshot" \in Callers /\ pc[p] = "idle"
  /\ DropOwners(FromAll(Conf))
  /\ pc' = [pc EXCEPT ![p] = "downCheck"]
  /\ UNCHANGED <<tr, state, stop, sessVars, req, job, passVars, supVars, trs, late, carried, foreign>>
DownCheck(p) ==
  /\ pc[p] = "downCheck"
  /\ pc' = [pc EXCEPT ![p] = IF IdleNow THEN "downStop" ELSE "idle"]
  /\ UNCHANGED <<tr, state, stop, tableVars, sessVars, req, job, passVars, supVars, trs, late, hostVars>>
DownStop(p) ==
  /\ pc[p] = "downStop"
  /\ pc' = [pc EXCEPT ![p] = "idle"]
  /\ stop' = TRUE
  /\ UNCHANGED <<tr, state, tableVars, sessVars, req, job, passVars, supVars, trs, late, hostVars>>

\* OpStop or a termination signal: triggerStop.
Stop ==
  /\ ~stop
  /\ stop' = TRUE
  /\ UNCHANGED <<tr, state, tableVars, sessVars, procVars, passVars, supVars, trs, late, hostVars>>

-----------------------------------------------------------------------------
(* Session connections: openSession, serveSession's end, closeSession. *)

\* Mutant: a relay is admitted during an outage.
AlwaysOpen(r) == TRUE

\* A relay is admitted only while the transport is up.
MayOpen(r) == r => state = "up" /\ tr # NoTr

OpenSession(c, r) ==
  /\ conn[c] = "new" /\ MayOpen(r)
  /\ sessions' = sessions \union {c}
  /\ conn' = [conn EXCEPT ![c] = "open"]
  /\ relay' = [relay EXCEPT ![c] = r]
  /\ UNCHANGED <<tr, state, stop, tableVars, procVars, passVars, supVars, trs, late, hostVars>>

\* The reader ends: the client left, onDead closed a relay, or a relay fell silent.
ReaderEnds(c) ==
  /\ conn[c] = "open"
  /\ conn' = [conn EXCEPT ![c] = "ended"]
  /\ UNCHANGED <<tr, state, stop, tableVars, sessions, relay, procVars, passVars, supVars, trs, late, hostVars>>

\* After the worker is done: forget the session and drop its owners at once.
CloseSession(c) ==
  /\ conn[c] = "ended" /\ ~WorkerBusy(c)
  /\ conn' = [conn EXCEPT ![c] = "gone"]
  /\ sessions' = sessions \ {c}
  /\ DropOwners(FromAll(c))
  /\ UNCHANGED <<tr, state, stop, relay, procVars, passVars, supVars, trs, late, carried, foreign>>

-----------------------------------------------------------------------------
(* The supervisor: loop, onDead, reconnect, restore, rebindPending, shutdown. *)

\* Mutant: reconnect does not watch d.stop.
SeesStopOnlyUp ==
  /\ stop /\ sup = "loop"
  /\ sup' = "exit"
  /\ UNCHANGED <<tr, state, stop, tableVars, sessVars, procVars, passVars, old, trs, late, hostVars>>

\* A stop seen by loop's select, by reconnect's, or by an interrupted dial.
SeesStop ==
  /\ stop /\ sup \in {"loop", "wait", "dialing"}
  /\ sup' = "exit"
  /\ late' = (sup = "dialing")
  /\ UNCHANGED <<tr, state, stop, tableVars, sessVars, procVars, passVars, old, trs, hostVars>>

\* The idle timer fires, in loop or in reconnect, with nothing held.
IdleExit ==
  /\ sup \in {"loop", "wait"} /\ IdleNow
  /\ sup' = "exit"
  /\ UNCHANGED <<tr, state, stop, tableVars, sessVars, procVars, passVars, old, trs, late, hostVars>>

(* onDead, one critical section: reconnecting, the relays out of the sessions
   and their forwards dropped (unclosed: the transport's Close drops them),
   every other forward pending, the transport taken. *)
OnDead ==
  /\ sup = "loop" /\ trs[tr] # "live"
  /\ state' = "reconnecting"
  /\ sessions' = sessions \ Relays
  /\ forwards' = DropForwards(FromRelays)
  /\ slot' = Detached(DropSlots(FromRelays))
  /\ lapsed' = Unlapsed(slot')
  /\ old' = tr /\ tr' = NoTr
  /\ sup' = "closing"
  /\ UNCHANGED <<stop, conn, relay, procVars, passVars, trs, late, hostVars>>

CloseTransport ==
  /\ trs' = [t \in Transports |-> IF t = old THEN "closed" ELSE trs[t]]
  /\ carried' = {c \in carried : c.tr # old}
  /\ old' = NoTr

CloseOld ==
  /\ sup = "closing"
  /\ CloseTransport
  /\ sup' = "wait"
  /\ UNCHANGED <<tr, state, stop, tableVars, sessVars, procVars, passVars, late, foreign, closing>>

\* reconnect's backoff is over, or a kick cut it short.
Dial ==
  /\ sup = "wait"
  /\ sup' = "dialing"
  /\ UNCHANGED <<tr, state, stop, tableVars, sessVars, procVars, passVars, old, trs, late, hostVars>>
DialFails ==
  /\ sup = "dialing"
  /\ sup' = "wait"
  /\ UNCHANGED <<tr, state, stop, tableVars, sessVars, procVars, passVars, old, trs, late, hostVars>>
DialUnmanaged ==
  /\ sup = "dialing"
  /\ sup' = "exit"
  /\ UNCHANGED <<tr, state, stop, tableVars, sessVars, procVars, passVars, old, trs, late, hostVars>>

\* A transport nothing refers to any more, so its id may name a new one.
Fresh(t) ==
  /\ trs[t] = "closed"
  /\ \A b \in Binders : job[b] # NoJob => job[b].tr # t
  /\ \A c \in closing : c.tr # t

\* The dial succeeds; restore first expires ttl owners, then installs it.
DialOK(t) ==
  /\ sup = "dialing" /\ Fresh(t)
  /\ trs' = [trs EXCEPT ![t] = "live"]
  /\ old' = t
  /\ DropOwners(ExpiredTTL)
  /\ sup' = "install"
  /\ UNCHANGED <<tr, state, stop, sessVars, procVars, passVars, late, carried, foreign>>
Install ==
  /\ sup = "install"
  /\ tr' = old /\ old' = NoTr
  /\ sup' = "restore"
  /\ UNCHANGED <<state, stop, tableVars, sessVars, procVars, passVars, trs, late, hostVars>>

RetryTick ==
  /\ sup = "loop" /\ state = "up"
  /\ sup' = "retry"
  /\ UNCHANGED <<tr, state, stop, tableVars, sessVars, procVars, passVars, old, trs, late, hostVars>>

\* Mutant: only exact forwards are bound again.
ClaimableExact == {s \in Mapped : slot[s].closer = NoTr /\ ~slot[s].binding /\ slot[s].exact
                                  /\ s \notin tried /\ ~RelayOnly(s)}

\* rebindPending claims every pending forward it may bind, in batches.
Claimable == {s \in Mapped : slot[s].closer = NoTr /\ ~slot[s].binding
                             /\ s \notin tried /\ ~RelayOnly(s)}
PassReady == sup \in {"retry", "restore"} /\ batch = {}
RebindBatch ==
  /\ PassReady /\ Claimable # {}
  /\ batch' = Claimable
  /\ slot' = [s \in Slots |-> IF s \in Claimable THEN [slot[s] EXCEPT !.binding = TRUE]
                              ELSE slot[s]]
  /\ UNCHANGED <<tr, state, stop, forwards, lapsed, sessVars, procVars, tried, supVars, trs, late, hostVars>>
RebindDone ==
  /\ PassReady /\ Claimable = {}
  /\ tried' = {}
  /\ sup' = IF sup = "retry" THEN "expire" ELSE "announce"
  /\ UNCHANGED <<tr, state, stop, tableVars, sessVars, procVars, batch, old, trs, late, hostVars>>

\* The batch goes in guest order.  A claimed slot's port and exactness are its binder's alone.
RebindNext(s) ==
  /\ sup \in {"retry", "restore"} /\ pc[Sup] = "idle"
  /\ s \in batch /\ \A x \in batch : slot[s].guest <= slot[x].guest
  /\ tried' = tried \union {s}
  /\ job' = [job EXCEPT ![Sup] =
       [slot |-> s, guest |-> slot[s].guest, tr |-> tr, at |-> slot[s].host,
        last |-> LastPort(slot[s].host, slot[s].exact), exact |-> slot[s].exact, added |-> FALSE]]
  /\ pc' = [pc EXCEPT ![Sup] = "try"]
  /\ UNCHANGED <<tr, state, stop, tableVars, sessVars, req, batch, supVars, trs, late, hostVars>>

NextJob ==
  /\ batch' = batch \ {job[Sup].slot}
  /\ job' = [job EXCEPT ![Sup] = NoJob]
  /\ pc' = [pc EXCEPT ![Sup] = "idle"]
RebindAdopt ==
  /\ pc[Sup] = "bound"
  /\ Adopt(job[Sup])
  /\ NextJob
  /\ UNCHANGED <<tr, state, stop, sessVars, req, tried, supVars, trs, late, carried, foreign>>

\* A failure leaves the forward pending; restore fails fast unless it is contention.
FailsFast == sup = "restore" /\ pc[Sup] = "failed"
RebindFailed ==
  /\ pc[Sup] \in {"failed", "contended"}
  /\ Settle(job[Sup].slot, job[Sup].guest, slot[job[Sup].slot].owners, slot[job[Sup].slot])
  /\ NextJob
  /\ sup' = IF FailsFast THEN "abort" ELSE sup
  /\ UNCHANGED <<tr, state, stop, sessVars, req, tried, old, trs, late, hostVars>>

\* restore gives up: settle the rest of the batch, then teardown.
RebindAbort ==
  /\ sup = "abort"
  /\ forwards' = [g \in Guests |-> IF forwards[g] \in batch /\ slot[forwards[g]].owners = {}
                                   THEN NoSlot ELSE forwards[g]]
  /\ slot' = [s \in Slots |-> IF s \in batch THEN Settled(s, slot[s].guest, slot[s].owners, slot[s])
                              ELSE slot[s]]
  /\ batch' = {} /\ tried' = {}
  /\ sup' = "teardown"
  /\ UNCHANGED <<tr, state, stop, lapsed, sessVars, procVars, old, trs, late, hostVars>>
Teardown(from, to) ==
  /\ sup = from
  /\ slot' = Detached(slot)
  /\ old' = tr /\ tr' = NoTr
  /\ sup' = to
  /\ UNCHANGED <<state, stop, forwards, lapsed, sessVars, procVars, passVars, trs, late, hostVars>>

\* restore's end (its upstream re-subscribe comes first): the daemon reports up.
Announce ==
  /\ sup = "announce"
  /\ state' = "up"
  /\ sup' = "loop"
  /\ UNCHANGED <<tr, stop, tableVars, sessVars, procVars, passVars, old, trs, late, hostVars>>

\* Mutant: the ticker's pass does not expire callbacks.
ExpireNothing ==
  /\ sup = "expire"
  /\ sup' = "loop"
  /\ UNCHANGED <<tr, state, stop, tableVars, sessVars, procVars, passVars, old, trs, late, hostVars>>

\* expireTTL after the ticker's pass.
Expire ==
  /\ sup = "expire"
  /\ DropOwners(ExpiredTTL)
  /\ sup' = "loop"
  /\ UNCHANGED <<tr, state, stop, sessVars, procVars, passVars, old, trs, late, carried, foreign>>

\* shutdown: teardown, close, clear the map, wait (boundedly) for a late dial, close the sessions.
Release ==
  /\ sup = "release"
  /\ CloseTransport
  /\ sup' = "clear"
  /\ UNCHANGED <<tr, state, stop, tableVars, sessVars, procVars, passVars, late, foreign, closing>>
Clear ==
  /\ sup = "clear"
  /\ forwards' = [g \in Guests |-> NoSlot]
  /\ slot' = [s \in Slots |-> IF s \in Mapped /\ ~slot[s].binding THEN Blank ELSE slot[s]]
  /\ lapsed' = Unlapsed(slot')
  /\ sup' = "late"
  /\ UNCHANGED <<tr, state, stop, sessVars, procVars, passVars, old, trs, late, hostVars>>

\* A dial the stop interrupted ends, and what it dialed is closed at once.
LateArrives ==
  /\ late
  /\ late' = FALSE
  /\ UNCHANGED <<tr, state, stop, tableVars, sessVars, procVars, passVars, supVars, trs, hostVars>>
\* lateWait bounds the wait, so late may still be set.
Exit ==
  /\ sup = "late"
  /\ conn' = [c \in Conns |-> IF c \in sessions /\ conn[c] = "open" THEN "ended" ELSE conn[c]]
  /\ sup' = "exited"
  /\ UNCHANGED <<tr, state, stop, tableVars, sessions, relay, procVars, passVars, old, trs, late, hostVars>>

-----------------------------------------------------------------------------
Init ==
  /\ \E t \in Transports :
       /\ tr = t
       /\ trs = [x \in Transports |-> IF x = t THEN "live" ELSE "closed"]
  /\ state = "up" /\ stop = FALSE
  /\ forwards = [g \in Guests |-> NoSlot]
  /\ slot = [s \in Slots |-> Blank]
  /\ lapsed = {}
  /\ sessions = {}
  /\ conn = [c \in Conns |-> "new"]
  /\ relay = [c \in Conns |-> FALSE]
  /\ pc = [b \in Binders |-> "idle"]
  /\ req = [p \in Procs |-> NoReq]
  /\ job = [b \in Binders |-> NoJob]
  /\ sup = "loop" /\ old = NoTr
  /\ batch = {} /\ tried = {}
  /\ late = FALSE
  /\ carried = {} /\ foreign = {} /\ closing = {}

Bind(b) == BindBusy(b) \/ BindOK(b) \/ BindErr(b)

\* What a handler does once its request is in: nothing here waits on a client.
Handle(p) ==
  \/ AddGone(p) \/ AddRefused(p)
  \/ \E s \in Slots : AddRecord(p, s) \/ AddBind(p, s)
  \/ BindSlotFailed(p) \/ AddAdopt(p)
  \/ DownCheck(p) \/ DownStop(p)
  \/ Bind(p)

Client ==
  \/ \E p \in Procs, g \in Guests :
       \/ \E pref \in Prefs, ex \in BOOLEAN :
            OneShotAdd(p, g, pref, ex) \/ \E c \in Conns : SessionAdd(p, c, g, pref, ex)
       \/ \E c \in Conns, redirect \in BOOLEAN : BridgeAdd(p, c, g, redirect)
  \/ \E g \in Guests, o \in Owners : Remove(g, o)
  \/ \E p \in Procs : DownDrop(p)
  \/ Stop
  \/ \E c \in Conns : ReaderEnds(c) \/ \E r \in BOOLEAN : OpenSession(c, r)

\* rebindPending's own steps.
Pass ==
  \/ RebindBatch \/ RebindDone \/ RebindAdopt \/ RebindFailed \/ RebindAbort
  \/ \E s \in Slots : RebindNext(s)
  \/ Bind(Sup)

Supervise ==
  \/ SeesStop \/ IdleExit \/ OnDead \/ CloseOld
  \/ Dial \/ DialFails \/ DialUnmanaged \/ (\E t \in Transports : DialOK(t)) \/ Install
  \/ RetryTick \/ Pass \/ Announce \/ Expire
  \/ Teardown("teardown", "closing") \/ Teardown("exit", "release")
  \/ Release \/ Clear \/ Exit

World ==
  \/ \E t \in Transports : TransportDies(t)
  \/ \E p \in ForeignPorts : ForeignTakes(p) \/ ForeignFrees(p)
  \/ \E s \in Slots : TTLLapses(s)
  \/ LateArrives

\* The process exits without waiting for the handlers still running.
Done == sup = "exited" /\ UNCHANGED vars

Next ==
  \/ /\ sup # "exited"
     /\ \/ Client
        \/ \E p \in Procs : Handle(p)
        \/ \E c \in Conns : CloseSession(c)
        \/ \E c \in closing : CloseForward(c)
        \/ Supervise
        \/ World
  \/ Done

Spec == Init /\ [][Next]_vars

(* Fairness.  Handlers and the supervisor keep running and every `ssh -O` or
   listen ends (controlTimeout), so weak fairness for their steps.  Go's select
   picks among ready cases at random, so a case that is ready again and again
   is taken: strong fairness for a stop, a dead transport and the retry tick.
   An add waiting on ready is woken by every release: strong fairness too.   *)
Evaluate(p) ==
  \/ AddGone(p) \/ AddRefused(p)
  \/ \E s \in Slots : AddRecord(p, s) \/ AddBind(p, s)
DialEnds == DialFails \/ DialUnmanaged \/ SeesStop \/ \E t \in Transports : DialOK(t)
Fairness ==
  /\ \A p \in Procs : WF_vars(Handle(p)) /\ SF_vars(Evaluate(p))
  /\ \A c \in Conns : WF_vars(CloseSession(c))
  /\ WF_vars(\E c \in closing : CloseForward(c))
  /\ WF_vars(Pass) /\ WF_vars(CloseOld) /\ WF_vars(Dial) /\ WF_vars(DialEnds) /\ WF_vars(Install)
  /\ WF_vars(Announce) /\ WF_vars(Expire)
  /\ WF_vars(Teardown("teardown", "closing")) /\ WF_vars(Teardown("exit", "release"))
  /\ WF_vars(Release) /\ WF_vars(Clear) /\ WF_vars(Exit)
  /\ SF_vars(SeesStop) /\ SF_vars(OnDead) /\ SF_vars(RetryTick)
FairSpec == Spec /\ Fairness

-----------------------------------------------------------------------------
(* Properties. *)

SupStates == {"loop", "closing", "wait", "dialing", "install", "restore", "retry", "abort",
              "teardown", "announce", "expire", "exit", "release", "clear", "late", "exited"}

\* Types, and a handler holds a job exactly while it is inside bindSlot and a
\* request from its arrival to its answer.
TypeOK ==
  /\ tr \in Transports \union {NoTr} /\ old \in Transports \union {NoTr}
  /\ state \in {"up", "reconnecting"} /\ stop \in BOOLEAN
  /\ forwards \in [Guests -> Slots \union {NoSlot}]
  /\ slot \in [Slots -> Fwd] /\ lapsed \subseteq Slots
  /\ sessions \subseteq Conns /\ relay \in [Conns -> BOOLEAN]
  /\ conn \in [Conns -> {"new", "open", "ended", "gone"}]
  /\ pc \in [Binders -> {"idle", "req", "downCheck", "downStop"} \union Binding]
  /\ req \in [Procs -> Requests \union {NoReq}]
  /\ job \in [Binders -> Jobs \union {NoJob}]
  /\ sup \in SupStates
  /\ batch \subseteq Slots /\ tried \subseteq Slots
  /\ trs \in [Transports -> {"live", "dead", "closed"}] /\ late \in BOOLEAN
  /\ carried \subseteq Closers /\ closing \subseteq Closers /\ foreign \subseteq Nat
  /\ \A b \in Binders : job[b] # NoJob <=> pc[b] \in Binding
  /\ \A p \in Procs : req[p] # NoReq <=> pc[p] \in Binding \union {"req"}

\* Who holds the claim on a slot: handlers inside bindSlot, or a rebind pass.
Claimants(s) == {p \in Procs : job[p] # NoJob /\ job[p].slot = s}
                \union IF s \in batch THEN {Sup} ELSE {}

\* fwd.binding: "exactly one binder holds it at a time", and none once it is
\* clear, over adds, restore and the retry ticker, removals and outages.
OneBinder ==
  \A s \in Slots : IF slot[s].binding THEN \E b \in Binders : Claimants(s) = {b}
                                      ELSE Claimants(s) = {}

\* A connection owner is always a registered session (addWith, closeSession,
\* onDead): one left behind would pin the daemon for good.
OwnersRegistered == \A s \in Mapped : slot[s].owners \intersect Conns \subseteq sessions

\* A forward nobody owns stays in the map only until its binder settles it.
NoOwnerlessForward == \A s \in Mapped : slot[s].owners = {} => slot[s].binding

\* detachLocked: every bound forward's closer came from d.tr, so that closing
\* the transport drops them all.
CloserCurrent == \A s \in Slots : slot[s].closer # NoTr => slot[s].closer = tr

\* loop: only a stop leaves no transport, and the daemon it supervises is up.
SupervisedTransport == sup \in {"loop", "retry", "expire"} => tr # NoTr /\ state = "up"

\* A forward listed as bound (Forward.Pending false) is carried: on smol its
\* listener is there, on ssh the live master it was bound on has its -L.
BoundIsCarried ==
  \A s \in Mapped :
    slot[s].closer # NoTr /\ (Kind = "ssh" => trs[slot[s].closer] = "live")
      => CloserOf(s) \in carried

\* No listener is forgotten: a forward holds it, its binder is about to
\* adopt it, its closer is about to run, or its transport is being closed; and
\* the process exits with none of its own left on the host.
Accounted(c) ==
  \/ c \in closing \/ c.tr = old
  \/ \E s \in Mapped : slot[s].closer # NoTr /\ c = CloserOf(s)
  \/ \E b \in Binders : /\ pc[b] = "bound"
                        /\ c = [tr |-> job[b].tr, host |-> job[b].at, guest |-> job[b].guest]
NoLeakedListener == (\A c \in carried : Accounted(c)) /\ (sup = "exited" => carried = {})

\* A relay session is never open across an outage, and its forwards are never
\* left pending on a working transport: its far daemon would not learn of it.
RelayNeverPending ==
  \A c \in Relays :
    /\ state = "up"
    /\ \A s \in Mapped : c \in slot[s].owners /\ slot[s].closer = NoTr /\ ~slot[s].binding
                           => tr = NoTr \/ trs[tr] # "live"

\* Exact is sticky: the host port of an exact forward never changes, not on
\* add and not on restore, and it stays exact, for the forward's life.
ExactSticks ==
  [][\A g \in Guests :
       LET s == forwards[g] IN
       s # NoSlot /\ slot[s].exact /\ forwards'[g] = s
         => slot'[s].exact /\ slot'[s].host = slot[s].host]_vars

\* The bridge's cap: with opens as the only adds, concurrent ones never leave
\* more than MaxEphemeral forwards held by the bridge.
EphemeralCap ==
  Callers = {"bridge"} => Cardinality({s \in Mapped : BridgeHeld(s)}) <= MaxEphemeral

\* What the daemon is to those who ask it, and to the host: its table.  A slot
\* nobody owns is no forward any more; listeners count by their ports.
HostPorts == Prefs \union Guests \union 0..MaxPort
Shown(g) ==
  IF forwards[g] # NoSlot /\ slot[forwards[g]].owners # {}
    THEN [owners |-> slot[forwards[g]].owners, host |-> slot[forwards[g]].host,
          exact |-> slot[forwards[g]].exact, bound |-> slot[forwards[g]].closer # NoTr]
    ELSE [owners |-> {}, host |-> 0, exact |-> FALSE, bound |-> FALSE]
Phase == CASE sup = "exited" -> "ended"
           [] sup \in {"release", "clear", "late"} -> "closing"
           [] OTHER -> "serving"
Table == INSTANCE ForwardTable WITH
  forward <- [g \in Guests |-> Shown(g)], clients <- sessions, relays <- Relays,
  ports <- {[host |-> c.host, guest |-> c.guest] : c \in carried},
  taken <- foreign, phase <- Phase, Hosts <- HostPorts

\* On smol the daemon is that table, whatever its handlers, its supervisor and
\* the late closers do between them: a bind in flight, a slot a binder still
\* claims, a second transport are never seen from outside.
IsForwardTable == Table!TableSpec

\* A stop ends the process, whatever the supervisor was doing.
StopExits == stop ~> sup = "exited"

\* Every add is answered: nobody waits forever on a slot being bound.
AddAnswered == \A p \in Procs : pc[p] = "req" ~> pc[p] = "idle" \/ sup = "exited"

\* The machine answers a dial now and then: the supervisor gets back to its loop.
LinkHolds == []<>(sup = "loop")

\* A callback past its expiry goes, or a repeat open renews it, even if it lapsed
\* during an outage.
LapsedGoes == LinkHolds => \A s \in Slots : s \in lapsed ~> s \notin lapsed

\* Once the daemon is left alone on a working link with free ports, every
\* forward a local owner holds ends up bound.
Quiet == /\ sup \notin {"exit", "release", "clear", "late", "exited"} /\ ~stop /\ foreign = {}
         /\ \A t \in Transports : trs[t] # "dead"
AllBound == \A s \in Mapped : slot[s].closer # NoTr \/ RelayOnly(s)
PendingComesUp == LinkHolds /\ <>[]Quiet => []<>AllBound

=============================================================================
