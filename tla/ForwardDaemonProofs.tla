------------------------ MODULE ForwardDaemonProofs ------------------------
(***************************************************************************)
(* Safety of the forward daemon for any number of guests, connections,     *)
(* handlers and transports, on smol and on ssh.                            *)
(*                                                                         *)
(* The claims on slots (OneBinder), the ownership rules (OwnersRegistered, *)
(* NoOwnerlessForward) and the closers (CloserCurrent) are not inductive   *)
(* one by one: a losing adopt is harmless because the slot is the guest's  *)
(* own or nobody's (Keyed), a detach forgets every closer because only     *)
(* mapped slots have one (ClosersMapped), a fresh transport is installed   *)
(* when there are no closers (SupOK), and an exact bind cannot bump since  *)
(* its range is one port (ExactJobs).  IInv is their conjunction.          *)
(***************************************************************************)
EXTENDS ForwardDaemon, TLAPS

\* d.forwards is keyed by the guest port of what it holds.
Keyed == \A g \in Guests : forwards[g] # NoSlot => slot[forwards[g]].guest = g

\* A binder's job names a slot it claimed, one binder per slot.
JobsClaim ==
  /\ \A b \in Binders : job[b] # NoJob =>
       slot[job[b].slot].binding /\ slot[job[b].slot].guest = job[b].guest
  /\ \A p, q \in Procs : job[p] # NoJob /\ job[q] # NoJob /\ job[p].slot = job[q].slot => p = q
  /\ \A p \in Procs : job[p] # NoJob => job[p].slot \notin batch
  /\ job[Sup] # NoJob => job[Sup].slot \in batch

\* Every claim is somebody's, and a claimed slot is not bound.
ClaimsHeld ==
  /\ \A s \in batch : slot[s].binding
  /\ \A s \in Slots : slot[s].binding =>
       /\ s \in batch \/ \E p \in Procs : job[p] # NoJob /\ job[p].slot = s
       /\ slot[s].guest \in Guests /\ slot[s].closer = NoTr

\* Only forwards in the map have closers, all of the current transport.
ClosersMapped ==
  \A s \in Slots : slot[s].closer # NoTr =>
    slot[s].closer = tr /\ slot[s].guest \in Guests /\ forwards[slot[s].guest] = s

\* Where the supervisor is, there is a transport or there is none.
SupOK ==
  /\ sup \in {"loop", "retry", "expire", "restore", "announce", "abort", "teardown"} => tr # NoTr
  /\ sup \in {"loop", "retry", "expire"} => state = "up"
  /\ sup \in {"closing", "wait", "dialing", "install", "release", "clear", "late", "exited"}
       => tr = NoTr
  /\ sup = "install" => old # NoTr
  /\ sup = "abort" => job[Sup] = NoJob

\* Binding an exact forward tries its own port and no other.
ExactJobs ==
  \A b \in Binders : job[b] # NoJob /\ slot[job[b].slot].exact =>
    job[b].at = slot[job[b].slot].host /\ job[b].last = job[b].at

\* NoOwnerlessForward and OwnersRegistered, by guest port.
Owned1 == \A g \in Guests : forwards[g] # NoSlot =>
            /\ slot[forwards[g]].owners = {} => slot[forwards[g]].binding
            /\ slot[forwards[g]].owners \intersect Conns \subseteq sessions

IInv == /\ TypeOK /\ Keyed /\ JobsClaim /\ ClaimsHeld /\ ClosersMapped
        /\ SupOK /\ ExactJobs /\ Owned1

-----------------------------------------------------------------------------
(* Steps that leave the table, the claims and the transport alone. *)

Rest == /\ Keyed /\ JobsClaim /\ ClaimsHeld /\ ClosersMapped /\ SupOK /\ ExactJobs /\ Owned1

\* Rest speaks of these variables only.
LEMMA RestFrame ==
  ASSUME Rest, UNCHANGED <<tr, state, forwards, slot, sessions, job, batch, sup, old>>
  PROVE  Rest'
BY DEF Rest, Keyed, JobsClaim, ClaimsHeld, ClosersMapped, SupOK, ExactJobs, Owned1

\* The steps of a bind, and of the world outside.
LEMMA QuietSteps ==
  ASSUME IInv,
         \/ \E b \in Binders : BindOK(b) \/ BindErr(b)
         \/ \E c \in closing : CloseForward(c)
         \/ World
  PROVE  IInv'
<1> USE ConstantsAssumption, NoneAssumption
<1>1. ASSUME NEW b \in Binders, BindOK(b) PROVE IInv'
  <2>1. TypeOK'
    BY <1>1 DEF IInv, TypeOK, BindOK, Binding, Carrier, Jobs, Closers, tableVars, sessVars, passVars, supVars
  <2> QED BY <1>1, <2>1, RestFrame DEF IInv, Rest, BindOK, tableVars, sessVars, passVars, supVars
<1>2. ASSUME NEW b \in Binders, BindErr(b) PROVE IInv'
  <2>1. TypeOK'
    BY <1>2 DEF IInv, TypeOK, BindErr, Binding, tableVars, sessVars, passVars, supVars, hostVars
  <2> QED BY <1>2, <2>1, RestFrame DEF IInv, Rest, BindErr, tableVars, sessVars, passVars, supVars
<1>3. ASSUME NEW c \in closing, CloseForward(c) PROVE IInv'
  <2>1. TypeOK'
    BY <1>3 DEF IInv, TypeOK, CloseForward, Uncarry, tableVars, sessVars, passVars, supVars, procVars
  <2> QED BY <1>3, <2>1, RestFrame DEF IInv, Rest, CloseForward, tableVars, sessVars, passVars, supVars, procVars
<1>4. ASSUME World PROVE IInv'
  <2>1. TypeOK'
    BY <1>4 DEF IInv, TypeOK, World, TransportDies, ForeignTakes, ForeignFrees, TTLLapses, LateArrives,
                tableVars, sessVars, passVars, supVars, procVars, hostVars
  <2> QED BY <1>4, <2>1, RestFrame
          DEF IInv, Rest, World, TransportDies, ForeignTakes, ForeignFrees, TTLLapses, LateArrives,
              tableVars, sessVars, passVars, supVars, procVars
<1> QED BY <1>1, <1>2, <1>3, <1>4

\* bind moves on to the next port, which an exact bind never has.
LEMMA BindBusyStep ==
  ASSUME IInv, NEW b \in Binders, BindBusy(b)
  PROVE  IInv'
<1> USE ConstantsAssumption, NoneAssumption
<1> USE DEF BindBusy, tableVars, sessVars, passVars, supVars, hostVars
<1>1. job[b] # NoJob /\ job[b] \in Jobs
  BY DEF IInv, TypeOK, Binding
<1>2. CASE job[b].at < job[b].last
  <2>1. job' = [job EXCEPT ![b] = [job[b] EXCEPT !.at = @ + 1]] /\ job'[b] \in Jobs /\ pc' = pc
    BY <1>1, <1>2 DEF IInv, TypeOK, Jobs
  <2>2. TypeOK'
    BY <2>1 DEF IInv, TypeOK
  <2>3. \A x \in Binders : /\ job'[x] # NoJob <=> job[x] # NoJob
                           /\ job'[x].slot = job[x].slot /\ job'[x].guest = job[x].guest
                           /\ x # b => job'[x] = job[x]
    BY <1>1, <2>1 DEF IInv, TypeOK, Jobs
  <2>4. Sup \in Binders /\ Procs \subseteq Binders
    BY DEF Binders
  <2>5. ExactJobs'
    BY <1>1, <1>2, <2>3 DEF IInv, ExactJobs, Jobs
  <2> QED BY <2>2, <2>3, <2>4, <2>5
          DEF IInv, Keyed, JobsClaim, ClaimsHeld, ClosersMapped, SupOK, Owned1
<1>3. CASE ~(job[b].at < job[b].last)
  <2>0. pc' = [pc EXCEPT ![b] = "contended"] /\ job' = job
    BY <1>3
  <2>1. TypeOK'
    BY <2>0 DEF IInv, TypeOK, Binding
  <2> QED BY <1>3, <2>1, RestFrame DEF IInv, Rest
<1> QED BY <1>2, <1>3

-----------------------------------------------------------------------------
(* dropOwnersLocked. *)

TableTypes == /\ forwards \in [Guests -> Slots \union {NoSlot}]
              /\ slot \in [Slots -> Fwd] /\ lapsed \subseteq Slots

\* newFwd's record is a forward.
LEMMA BlankFwd == Blank \in Fwd
BY DEF Blank, Fwd

\* Where every slot goes: released and blank, or the same but for its owners.
LEMMA DropFacts ==
  ASSUME IInv, NEW del
  PROVE  /\ DropForwards(del) \in [Guests -> Slots \union {NoSlot}]
         /\ DropSlots(del) \in [Slots -> Fwd]
         /\ \A g \in Guests : DropForwards(del)[g] # NoSlot =>
              /\ DropForwards(del)[g] = forwards[g] /\ forwards[g] \notin Released(del)
              /\ forwards[g] \in Slots
              /\ DropSlots(del)[forwards[g]].owners = slot[forwards[g]].owners \ del[forwards[g]]
         /\ \A g \in Guests : forwards[g] \notin Released(del) => DropForwards(del)[g] = forwards[g]
         /\ \A x \in Slots : x \in Released(del) => DropSlots(del)[x] = Blank /\ ~slot[x].binding
         /\ \A x \in Slots : x \notin Released(del) =>
              /\ DropSlots(del)[x].guest = slot[x].guest /\ DropSlots(del)[x].host = slot[x].host
              /\ DropSlots(del)[x].exact = slot[x].exact /\ DropSlots(del)[x].closer = slot[x].closer
              /\ DropSlots(del)[x].binding = slot[x].binding
         /\ \A g \in Guests : DropForwards(del)[g] # NoSlot /\ DropSlots(del)[forwards[g]].owners = {}
              => slot[forwards[g]].binding
<1> USE ConstantsAssumption, BlankFwd
<1>1. forwards \in [Guests -> Slots \union {NoSlot}] /\ slot \in [Slots -> Fwd]
  BY DEF IInv, TypeOK
<1>2. DropForwards(del) \in [Guests -> Slots \union {NoSlot}]
  BY <1>1 DEF DropForwards
<1>3. \A x \in Slots : [slot[x] EXCEPT !.owners = @ \ del[x]] \in Fwd
  BY <1>1 DEF Fwd
<1>4. DropSlots(del) \in [Slots -> Fwd]
  BY <1>1, <1>3 DEF DropSlots
<1>5. \A x \in Slots : x \in Released(del) => DropSlots(del)[x] = Blank /\ ~slot[x].binding
  BY DEF DropSlots, Released
<1>6. \A x \in Slots : x \notin Released(del) =>
        /\ DropSlots(del)[x].guest = slot[x].guest /\ DropSlots(del)[x].host = slot[x].host
        /\ DropSlots(del)[x].exact = slot[x].exact /\ DropSlots(del)[x].closer = slot[x].closer
        /\ DropSlots(del)[x].binding = slot[x].binding
        /\ x \in Mapped => DropSlots(del)[x].owners = slot[x].owners \ del[x]
  BY <1>1 DEF DropSlots, Fwd
<1>7. \A g \in Guests : forwards[g] # NoSlot => forwards[g] \in Mapped /\ forwards[g] \in Slots
  BY <1>1 DEF Mapped
<1>8. \A g \in Guests : DropForwards(del)[g] # NoSlot =>
        DropForwards(del)[g] = forwards[g] /\ forwards[g] \notin Released(del)
  BY DEF DropForwards
<1>9. \A g \in Guests : forwards[g] \notin Released(del) => DropForwards(del)[g] = forwards[g]
  BY DEF DropForwards
<1>10. ASSUME NEW g \in Guests, DropForwards(del)[g] # NoSlot, DropSlots(del)[forwards[g]].owners = {}
       PROVE  slot[forwards[g]].binding
  <2>1. forwards[g] \in Mapped /\ forwards[g] \in Slots /\ forwards[g] \notin Released(del)
    BY <1>7, <1>8, <1>10
  <2>2. slot[forwards[g]].owners \ del[forwards[g]] = {}
    BY <1>6, <1>10, <2>1
  <2> QED BY <1>1, <2>1, <2>2 DEF Released, Fwd
<1> QED BY <1>2, <1>4, <1>5, <1>6, <1>7, <1>8, <1>9, <1>10

\* The closers handed out belong to forwards that were bound.
LEMMA DropClosersType ==
  ASSUME IInv, NEW del
  PROVE  DropClosers(del) \subseteq Closers
<1>1. SUFFICES ASSUME NEW x \in Released(del), slot[x].closer # NoTr PROVE CloserOf(x) \in Closers
  BY DEF DropClosers
<1>2. x \in Slots
  BY ConstantsAssumption DEF Released, Mapped, IInv, TypeOK
<1> QED BY <1>1, <1>2 DEF IInv, TypeOK, ClosersMapped, CloserOf, Closers, Fwd

\* Dropping owners keeps the table's invariants, given that a session leaves
\* the sessions only if its ownerships are dropped too.
LEMMA DropOwnersTable ==
  ASSUME IInv, NEW del, DropOwners(del), UNCHANGED <<tr, job, batch>>,
         \A g \in Guests : forwards[g] # NoSlot =>
           (slot[forwards[g]].owners \ del[forwards[g]]) \intersect Conns \subseteq sessions'
  PROVE  /\ TableTypes' /\ closing' \subseteq Closers
         /\ Keyed' /\ JobsClaim' /\ ClaimsHeld' /\ ClosersMapped' /\ ExactJobs' /\ Owned1'
<1> USE ConstantsAssumption
<1>a. forwards' = DropForwards(del) /\ slot' = DropSlots(del)
  BY DEF DropOwners
<1>b. /\ forwards' \in [Guests -> Slots \union {NoSlot}] /\ slot' \in [Slots -> Fwd]
      /\ \A g \in Guests : forwards'[g] # NoSlot =>
           /\ forwards'[g] = forwards[g] /\ forwards[g] \notin Released(del) /\ forwards[g] \in Slots
           /\ slot'[forwards[g]].owners = slot[forwards[g]].owners \ del[forwards[g]]
      /\ \A g \in Guests : forwards[g] \notin Released(del) => forwards'[g] = forwards[g]
      /\ \A x \in Slots : x \in Released(del) => slot'[x] = Blank /\ ~slot[x].binding
      /\ \A x \in Slots : x \notin Released(del) =>
           /\ slot'[x].guest = slot[x].guest /\ slot'[x].host = slot[x].host
           /\ slot'[x].exact = slot[x].exact /\ slot'[x].closer = slot[x].closer
           /\ slot'[x].binding = slot[x].binding
      /\ \A g \in Guests : forwards'[g] # NoSlot /\ slot'[forwards[g]].owners = {}
           => slot[forwards[g]].binding
  BY <1>a, DropFacts
<1>1. TableTypes' /\ closing' \subseteq Closers
  BY <1>b, DropClosersType DEF TableTypes, DropOwners, Unlapsed, IInv, TypeOK
<1>2. Keyed'
  <2>1. SUFFICES ASSUME NEW g \in Guests, forwards'[g] # NoSlot PROVE slot'[forwards'[g]].guest = g
    BY DEF Keyed
  <2>2. forwards'[g] = forwards[g] /\ slot'[forwards[g]].guest = slot[forwards[g]].guest
    BY <1>b, <2>1
  <2> QED BY <2>1, <2>2 DEF Keyed, IInv
<1>3. JobsClaim' /\ ExactJobs'
  <2>1. \A b \in Binders : job[b] # NoJob => job[b].slot \in Slots /\ job[b].slot \notin Released(del)
    BY <1>b DEF IInv, TypeOK, JobsClaim, Jobs
  <2> QED BY <1>b, <2>1 DEF JobsClaim, ExactJobs, IInv, Binders
<1>4. ClaimsHeld'
  BY <1>b DEF ClaimsHeld, IInv, TypeOK, Blank
<1>5. ClosersMapped'
  BY <1>b DEF ClosersMapped, IInv, TypeOK, Blank
<1>6. Owned1'
  BY <1>b DEF Owned1
<1> QED BY <1>1, <1>2, <1>3, <1>4, <1>5, <1>6

-----------------------------------------------------------------------------
(* settleLocked. *)

\* A binder lets go of its slot: it is the guest's own, or nobody's.
LEMMA SettleTable ==
  ASSUME IInv, NEW b \in Binders, job[b] # NoJob, NEW ow \in SUBSET slot[job[b].slot].owners,
         NEW rec \in Fwd, rec.guest = slot[job[b].slot].guest,
         rec.closer # NoTr => rec.closer = tr /\ forwards[job[b].guest] = job[b].slot /\ ow # {},
         Settle(job[b].slot, job[b].guest, ow, rec),
         job' = [job EXCEPT ![b] = NoJob], batch' = batch \ {job[b].slot},
         UNCHANGED <<tr, sessions>>
  PROVE  /\ TableTypes'
         /\ Keyed' /\ JobsClaim' /\ ClaimsHeld' /\ ClosersMapped' /\ ExactJobs' /\ Owned1'
<1> USE ConstantsAssumption
<1> DEFINE s == job[b].slot
           g == job[b].guest
<1>1. /\ s \in Slots /\ g \in Guests /\ slot[s].guest = g /\ slot[s].binding /\ slot[s].closer = NoTr
      /\ slot[s] \in Fwd /\ slot \in [Slots -> Fwd] /\ forwards \in [Guests -> Slots \union {NoSlot}]
      /\ ow \in SUBSET Owners
  BY DEF IInv, TypeOK, Jobs, JobsClaim, ClaimsHeld, Fwd
<1>2. \A h \in Guests : forwards[h] = s => h = g
  BY <1>1 DEF IInv, Keyed
<1>3. /\ [rec EXCEPT !.owners = ow, !.binding = FALSE] \in Fwd
      /\ [rec EXCEPT !.owners = ow, !.binding = FALSE].guest = g
      /\ [rec EXCEPT !.owners = ow, !.binding = FALSE].closer = rec.closer
      /\ [rec EXCEPT !.owners = ow, !.binding = FALSE].owners = ow
      /\ [rec EXCEPT !.owners = ow, !.binding = FALSE].binding = FALSE
  BY <1>1 DEF Fwd
<1>4. /\ slot' = [slot EXCEPT ![s] = Settled(s, g, ow, rec)]
      /\ forwards' = [forwards EXCEPT ![g] = IF @ = s /\ ow = {} THEN NoSlot ELSE @]
      /\ lapsed' = Unlapsed(slot')
  BY DEF Settle
<1>5. /\ slot'[s] \in Fwd /\ slot'[s].binding = FALSE
      /\ forwards[g] = s /\ ow # {} => slot'[s].guest = g /\ slot'[s].closer = rec.closer /\ slot'[s].owners = ow
      /\ ~(forwards[g] = s /\ ow # {}) => slot'[s].closer = NoTr
      /\ \A x \in Slots : x # s => slot'[x] = slot[x]
  BY <1>1, <1>3, <1>4, BlankFwd DEF Settled, Blank
<1>6. TableTypes'
  BY <1>1, <1>4, <1>5 DEF TableTypes, Unlapsed, IInv, TypeOK
<1>7. /\ \A h \in Guests : forwards'[h] # NoSlot => forwards'[h] = forwards[h] /\ forwards[h] \in Slots
      /\ \A h \in Guests : h # g => forwards'[h] = forwards[h]
      /\ forwards'[g] # NoSlot => forwards[g] # s \/ ow # {}
      /\ forwards[g] = s /\ ow # {} => forwards'[g] = s
      /\ forwards[g] # s => forwards'[g] = forwards[g]
  BY <1>1, <1>4
<1>8. Keyed' /\ Owned1'
  <2>1. SUFFICES ASSUME NEW h \in Guests, forwards'[h] # NoSlot
                 PROVE  /\ slot'[forwards'[h]].guest = h
                        /\ slot'[forwards'[h]].owners = {} => slot'[forwards'[h]].binding
                        /\ slot'[forwards'[h]].owners \intersect Conns \subseteq sessions'
    BY DEF Keyed, Owned1
  <2>2. CASE forwards[h] = s
    BY <1>1, <1>2, <1>5, <1>7, <2>1, <2>2 DEF IInv, Owned1
  <2>3. CASE forwards[h] # s
    BY <1>5, <1>7, <2>1, <2>3 DEF IInv, Owned1, Keyed
  <2> QED BY <2>2, <2>3
<1>9. /\ \A x \in Binders : x # b => job'[x] = job[x]
      /\ job'[b] = NoJob
  BY DEF IInv, TypeOK
<1>10. \A x \in Binders : x # b /\ job[x] # NoJob => job[x].slot \in Slots /\ job[x].slot # s
  BY DEF IInv, TypeOK, JobsClaim, Jobs, Binders
<1>11. JobsClaim' /\ ExactJobs'
  BY <1>5, <1>9, <1>10 DEF IInv, JobsClaim, ExactJobs, Binders
<1>12. ClaimsHeld'
  <2>1. \A x \in batch' : slot'[x].binding
    BY <1>5 DEF IInv, TypeOK, ClaimsHeld
  <2>2. ASSUME NEW x \in Slots, slot'[x].binding
        PROVE  /\ x \in batch' \/ \E p \in Procs : job'[p] # NoJob /\ job'[p].slot = x
               /\ slot'[x].guest \in Guests /\ slot'[x].closer = NoTr
    BY <1>5, <1>9, <2>2 DEF IInv, ClaimsHeld, Binders
  <2> QED BY <2>1, <2>2 DEF ClaimsHeld
<1>13. ClosersMapped'
  <2>1. SUFFICES ASSUME NEW x \in Slots, slot'[x].closer # NoTr
                 PROVE  slot'[x].closer = tr /\ slot'[x].guest \in Guests /\ forwards'[slot'[x].guest] = x
    BY DEF ClosersMapped
  <2>2. CASE x = s
    BY <1>1, <1>5, <1>7, <2>1, <2>2
  <2>3. CASE x # s
    <3>1. slot'[x] = slot[x]
      BY <1>5, <2>3
    <3>2. slot[x].closer = tr /\ slot[x].guest \in Guests /\ forwards[slot[x].guest] = x
      BY <2>1, <3>1 DEF IInv, ClosersMapped
    <3>3. forwards'[slot[x].guest] = forwards[slot[x].guest]
      BY <1>7, <2>3, <3>2
    <3> QED BY <3>1, <3>2, <3>3
  <2> QED BY <2>2, <2>3
<1> QED BY <1>6, <1>8, <1>11, <1>12, <1>13

-----------------------------------------------------------------------------
(* What clients ask for. *)

\* handleConn starts a handler, which holds nothing yet.
LEMMA StartStep ==
  ASSUME IInv, NEW p \in Procs, NEW r \in Requests, Start(p, r)
  PROVE  IInv'
<1> USE ConstantsAssumption, NoneAssumption
<1>1. TypeOK'
  BY DEF IInv, TypeOK, Start, Binders, Binding, tableVars, sessVars, passVars, supVars, hostVars
<1> QED BY <1>1, RestFrame DEF IInv, Rest, Start, tableVars, sessVars, passVars, supVars

\* An add that begins touches no forward: add, a session's add, the bridge's open.
LEMMA AddsStep ==
  ASSUME IInv, NEW p \in Procs, NEW g \in Guests,
         \/ \E pref \in Prefs, ex \in BOOLEAN :
              OneShotAdd(p, g, pref, ex) \/ \E c \in Conns : SessionAdd(p, c, g, pref, ex)
         \/ \E c \in Conns, redirect \in BOOLEAN : BridgeAdd(p, c, g, redirect)
  PROVE  IInv'
<1>1. PICK r \in Requests : Start(p, r)
  BY ConstantsAssumption DEF OneShotAdd, SessionAdd, BridgeAdd, Requests, Owners, Vias
<1> QED BY <1>1, StartStep

\* remove drops the caller's ownership and hands out the closer of what went with it.
LEMMA RemoveStep ==
  ASSUME IInv, NEW g \in Guests, NEW o \in Owners, Remove(g, o)
  PROVE  IInv'
<1> USE DEF Remove, sessVars, procVars, passVars, supVars
<1>1. /\ TableTypes' /\ closing' \subseteq Closers
      /\ Keyed' /\ JobsClaim' /\ ClaimsHeld' /\ ClosersMapped' /\ ExactJobs' /\ Owned1'
  <2>1. \A h \in Guests : forwards[h] # NoSlot => slot[forwards[h]].owners \intersect Conns \subseteq sessions
    BY DEF IInv, Owned1
  <2> QED BY <2>1, DropOwnersTable
<1>2. TypeOK'
  BY <1>1 DEF IInv, TypeOK, TableTypes
<1> QED BY <1>1, <1>2 DEF IInv, SupOK

\* down drops every conf ownership.
LEMMA DownDropStep ==
  ASSUME IInv, NEW p \in Procs, DownDrop(p)
  PROVE  IInv'
<1> USE DEF DownDrop, sessVars, passVars, supVars
<1>1. /\ TableTypes' /\ closing' \subseteq Closers
      /\ Keyed' /\ JobsClaim' /\ ClaimsHeld' /\ ClosersMapped' /\ ExactJobs' /\ Owned1'
  <2>1. \A h \in Guests : forwards[h] # NoSlot => slot[forwards[h]].owners \intersect Conns \subseteq sessions
    BY DEF IInv, Owned1
  <2> QED BY <2>1, DropOwnersTable
<1>2. TypeOK'
  BY <1>1 DEF IInv, TypeOK, TableTypes, Binding, Binders
<1> QED BY <1>1, <1>2 DEF IInv, SupOK

\* closeSession unregisters the connection and drops its ownerships in one critical section.
LEMMA CloseSessionStep ==
  ASSUME IInv, NEW c \in Conns, CloseSession(c)
  PROVE  IInv'
<1> USE DEF CloseSession, sessVars, procVars, passVars, supVars
<1>1. /\ TableTypes' /\ closing' \subseteq Closers
      /\ Keyed' /\ JobsClaim' /\ ClaimsHeld' /\ ClosersMapped' /\ ExactJobs' /\ Owned1'
  <2>1. \A h \in Guests : forwards[h] # NoSlot =>
          forwards[h] \in Slots /\ slot[forwards[h]].owners \intersect Conns \subseteq sessions
    BY DEF IInv, TypeOK, Owned1
  <2>2. \A h \in Guests : forwards[h] # NoSlot =>
          (slot[forwards[h]].owners \ FromAll(c)[forwards[h]]) \intersect Conns \subseteq sessions'
    BY <2>1 DEF FromAll
  <2> QED BY <2>2, DropOwnersTable
<1>2. TypeOK'
  BY <1>1 DEF IInv, TypeOK, TableTypes
<1> QED BY <1>1, <1>2 DEF IInv, SupOK

\* openSession registers a connection, which owns nothing yet.
LEMMA OpenSessionStep ==
  ASSUME IInv, NEW c \in Conns, NEW r \in BOOLEAN, OpenSession(c, r)
  PROVE  IInv'
<1> USE DEF OpenSession, tableVars, procVars, passVars, supVars, hostVars
<1>1. TypeOK'
  BY DEF IInv, TypeOK
<1>2. Owned1'
  BY DEF IInv, Owned1
<1> QED BY <1>1, <1>2 DEF IInv, Keyed, JobsClaim, ClaimsHeld, ClosersMapped, SupOK, ExactJobs

\* Every step of a request that is not an add's preserves the invariant.
LEMMA ClientStep ==
  ASSUME IInv, Client
  PROVE  IInv'
<1>1. ASSUME Stop PROVE IInv'
  <2>1. TypeOK'
    BY <1>1 DEF IInv, TypeOK, Stop, tableVars, sessVars, procVars, passVars, supVars, hostVars
  <2> QED BY <1>1, <2>1, RestFrame DEF IInv, Rest, Stop, tableVars, sessVars, procVars, passVars, supVars
<1>2. ASSUME NEW c \in Conns, ReaderEnds(c) PROVE IInv'
  <2>1. TypeOK'
    BY <1>2 DEF IInv, TypeOK, ReaderEnds, tableVars, procVars, passVars, supVars, hostVars
  <2> QED BY <1>2, <2>1, RestFrame DEF IInv, Rest, ReaderEnds, tableVars, procVars, passVars, supVars
<1> QED BY <1>1, <1>2, AddsStep, RemoveStep, DownDropStep, OpenSessionStep DEF Client

-----------------------------------------------------------------------------
(* The handlers. *)

\* What TypeOK says of the handlers' own state.
ProcTypes ==
  /\ pc \in [Binders -> {"idle", "req", "downCheck", "downStop"} \union Binding]
  /\ req \in [Procs -> Requests \union {NoReq}]
  /\ job \in [Binders -> Jobs \union {NoJob}]
  /\ \A b \in Binders : job[b] # NoJob <=> pc[b] \in Binding
  /\ \A p \in Procs : req[p] # NoReq <=> pc[p] \in Binding \union {"req"}

\* A finished handler is free again and holds no job.
LEMMA FinishTypes ==
  ASSUME IInv, NEW p \in Procs, Finish(p)
  PROVE  ProcTypes'
<1> USE DEF Finish, Binding
<1>1. p \in Binders /\ Procs \subseteq Binders
  BY DEF Binders
<1>2. ProcTypes
  BY DEF IInv, TypeOK, ProcTypes
<1>3. /\ pc' \in [Binders -> {"idle", "req", "downCheck", "downStop"} \union Binding]
      /\ req' \in [Procs -> Requests \union {NoReq}]
      /\ job' \in [Binders -> Jobs \union {NoJob}]
  BY <1>1, <1>2 DEF ProcTypes
<1>4. ASSUME NEW b \in Binders PROVE job'[b] # NoJob <=> pc'[b] \in Binding
  BY <1>1, <1>2 DEF ProcTypes
<1>5. ASSUME NEW q \in Procs PROVE req'[q] # NoReq <=> pc'[q] \in Binding \union {"req"}
  BY <1>1, <1>2 DEF ProcTypes
<1> QED BY <1>3, <1>4, <1>5 DEF ProcTypes

\* An add refused before it recorded anything leaves the table alone.
LEMMA RefusedStep ==
  ASSUME IInv, NEW p \in Procs, AddGone(p) \/ AddRefused(p) \/ DownCheck(p) \/ DownStop(p)
  PROVE  IInv'
<1> USE DEF tableVars, sessVars, passVars, supVars, hostVars
<1>1. ASSUME AddGone(p) \/ AddRefused(p) PROVE IInv'
  <2>1. /\ pc[p] = "req" /\ Finish(p)
        /\ UNCHANGED <<tr, state, stop, tableVars, sessVars, passVars, supVars, trs, late, hostVars>>
    BY <1>1 DEF AddGone, AddRefused
  <2>2. job[p] = NoJob /\ p \in Binders
    BY <2>1 DEF IInv, TypeOK, Binders, Binding
  <2>3. job' = job
    BY <2>1, <2>2 DEF Finish, IInv, TypeOK
  <2>4. TypeOK'
    BY <2>1, FinishTypes DEF IInv, TypeOK, ProcTypes
  <2> QED BY <2>1, <2>3, <2>4, RestFrame DEF IInv, Rest
<1>2. ASSUME DownCheck(p) \/ DownStop(p) PROVE IInv'
  <2>1. /\ pc[p] \in {"downCheck", "downStop"} /\ stop' \in BOOLEAN
        /\ pc' = [pc EXCEPT ![p] = "downStop"] \/ pc' = [pc EXCEPT ![p] = "idle"]
        /\ UNCHANGED <<tr, state, tableVars, sessVars, req, job, passVars, supVars, trs, late, hostVars>>
    BY <1>2 DEF DownCheck, DownStop, IInv, TypeOK
  <2>2. ProcTypes'
    <3>1. p \in Binders /\ Procs \subseteq Binders /\ ProcTypes
      BY DEF Binders, IInv, TypeOK, ProcTypes
    <3> QED BY <2>1, <3>1 DEF ProcTypes, Binding
  <2>3. TypeOK'
    BY <2>1, <2>2 DEF IInv, TypeOK, ProcTypes
  <2> QED BY <2>1, <2>3, RestFrame DEF IInv, Rest
<1> QED BY <1>1, <1>2

\* The slot an add works on is the guest's, or unreferenced; nobody is binding it.
LEMMA TargetFacts ==
  ASSUME IInv, NEW g \in Guests, NEW s \in Slots, Target(g, s), Ready(g)
  PROVE  /\ \A h \in Guests : forwards[h] = s => h = g
         /\ \A b \in Binders : job[b] # NoJob => job[b].slot # s
         /\ s \notin batch /\ ~slot[s].binding
         /\ forwards[g] # NoSlot => forwards[g] = s /\ slot[s].guest = g
<1> USE ConstantsAssumption
<1>1. CASE forwards[g] = NoSlot
  <2>1. s \in FreeSlots
    BY <1>1 DEF Target
  <2>2. \A h \in Guests : forwards[h] # s
    BY <2>1 DEF FreeSlots, Mapped
  <2>3. s \notin batch
    BY <2>1 DEF FreeSlots
  <2>4. \A b \in Binders : job[b] # NoJob => job[b].slot # s
    BY <2>1 DEF FreeSlots
  <2>5. ~slot[s].binding
    BY <2>3, <2>4 DEF IInv, ClaimsHeld, Binders
  <2> QED BY <1>1, <2>2, <2>3, <2>4, <2>5
<1>2. CASE forwards[g] # NoSlot
  <2>1. forwards[g] = s /\ slot[s].guest = g /\ ~slot[s].binding
    BY <1>2 DEF Target, Ready, IInv, Keyed
  <2>2. \A b \in Binders : job[b] # NoJob => job[b].slot # s
    BY <2>1 DEF IInv, JobsClaim
  <2>3. s \notin batch
    BY <2>1 DEF IInv, ClaimsHeld
  <2>4. \A h \in Guests : forwards[h] = s => h = g
    BY <2>1 DEF IInv, Keyed
  <2> QED BY <2>1, <2>2, <2>3, <2>4
<1> QED BY <1>1, <1>2

\* The record f is the guest's forward, new or old, with one more owner.
OwnedBy(r, s, f) ==
  /\ f \in Fwd /\ f.guest = r.guest /\ r.own \in f.owners
  /\ forwards[r.guest] = NoSlot => f.owners = {r.own} /\ f.closer = NoTr
  /\ forwards[r.guest] # NoSlot =>
       /\ f.owners = slot[s].owners \union {r.own}
       /\ f.closer = slot[s].closer /\ f.exact = slot[s].exact /\ f.host = slot[s].host

\* newFwd, or addOwner.
LEMMA OwnedFacts ==
  ASSUME IInv, NEW r \in Requests, NEW s \in Slots, Target(r.guest, s), NEW exact \in BOOLEAN
  PROVE  OwnedBy(r, s, Owned(r, s, exact))
<1> USE ConstantsAssumption
<1>1. slot[s] \in Fwd /\ r.guest \in Guests /\ r.pref \in Nat /\ r.own \in Owners
  BY DEF IInv, TypeOK, Requests
<1>2. CASE forwards[r.guest] = NoSlot
  BY <1>1, <1>2 DEF Owned, OwnedBy, Fwd
<1>3. CASE forwards[r.guest] # NoSlot
  <2>1. slot[s].guest = r.guest
    BY <1>1, <1>3 DEF Target, IInv, Keyed
  <2>2. slot[s].owners \union {r.own} \in SUBSET Owners
    BY <1>1 DEF Fwd
  <2> QED BY <1>1, <1>3, <2>1, <2>2 DEF Owned, OwnedBy, Fwd
<1> QED BY <1>2, <1>3

\* addWith records an ownership without binding: the port is bound, or the daemon is reconnecting.
LEMMA AddRecordStep ==
  ASSUME IInv, NEW p \in Procs, NEW s \in Slots, AddRecord(p, s)
  PROVE  IInv'
<1> USE ConstantsAssumption, NoneAssumption DEF sessVars, passVars, supVars, hostVars
<1> DEFINE r == req[p]
           new == [Owned(r, s, r.exact) EXCEPT !.exact = @ \/ r.exact]
<1>1. r \in Requests /\ p \in Binders /\ job[p] = NoJob
  BY DEF AddRecord, IInv, TypeOK, Binders, Binding
<1>2. /\ ~Gone(r) /\ Ready(r.guest) /\ Target(r.guest, s)
      /\ forwards' = [forwards EXCEPT ![r.guest] = s] /\ slot' = [slot EXCEPT ![s] = new]
      /\ lapsed' = Refreshed(r, s)
      /\ pc' = [pc EXCEPT ![p] = "idle"] /\ req' = [req EXCEPT ![p] = NoReq]
      /\ job' = [job EXCEPT ![p] = NoJob]
      /\ UNCHANGED <<tr, state, stop, sessVars, passVars, supVars, trs, late, hostVars>>
  BY DEF AddRecord, Finish
<1>3. job' = job
  BY <1>1, <1>2 DEF IInv, TypeOK
<1>4. r.guest \in Guests /\ r.own \in Owners /\ r.exact \in BOOLEAN
  BY <1>1 DEF Requests
<1>5. /\ \A h \in Guests : forwards[h] = s => h = r.guest
      /\ \A b \in Binders : job[b] # NoJob => job[b].slot # s
      /\ s \notin batch /\ ~slot[s].binding
      /\ forwards[r.guest] # NoSlot => forwards[r.guest] = s /\ slot[s].guest = r.guest
  BY <1>2, <1>4, TargetFacts
<1>6. OwnedBy(r, s, Owned(r, s, r.exact))
  BY <1>1, <1>2, <1>4, OwnedFacts
<1>7. Owned(r, s, r.exact).binding = FALSE
  BY <1>5 DEF Owned, IInv, TypeOK, Fwd
<1>8. /\ new \in Fwd /\ new.guest = r.guest /\ r.own \in new.owners /\ new.binding = FALSE
      /\ forwards[r.guest] = NoSlot => new.owners = {r.own} /\ new.closer = NoTr
      /\ forwards[r.guest] # NoSlot => new.owners = slot[s].owners \union {r.own} /\ new.closer = slot[s].closer
  BY <1>4, <1>6, <1>7 DEF OwnedBy, Fwd
<1> HIDE DEF new
<1>9. TypeOK'
  <2>1. ProcTypes'
    BY <1>2, FinishTypes DEF Finish
  <2>2. TableTypes'
    BY <1>2, <1>4, <1>8 DEF IInv, TypeOK, TableTypes, Refreshed
  <2> QED BY <1>2, <2>1, <2>2 DEF IInv, TypeOK, ProcTypes, TableTypes
<1>10. /\ forwards'[r.guest] = s /\ \A h \in Guests : h # r.guest => forwards'[h] = forwards[h]
       /\ slot'[s] = new /\ \A x \in Slots : x # s => slot'[x] = slot[x]
       /\ forwards \in [Guests -> Slots \union {NoSlot}]
  BY <1>2, <1>4 DEF IInv, TypeOK
<1>11. Keyed' /\ Owned1'
  <2>1. \A h \in Guests : h # r.guest /\ forwards[h] # NoSlot => forwards[h] # s /\ forwards[h] \in Slots
    BY <1>5, <1>10
  <2>2. r.own \in Conns => r.own \in sessions
    BY <1>2 DEF Gone
  <2>3. new.owners \intersect Conns \subseteq sessions
    BY <1>5, <1>8, <1>4, <2>2 DEF IInv, Owned1
  <2> QED BY <1>2, <1>8, <1>10, <2>1, <2>3 DEF IInv, Keyed, Owned1
<1>12. JobsClaim' /\ ExactJobs'
  <2>1. \A b \in Binders : job[b] # NoJob => job[b].slot \in Slots /\ slot'[job[b].slot] = slot[job[b].slot]
    BY <1>5, <1>10 DEF IInv, TypeOK, Jobs
  <2> QED BY <1>2, <1>3, <2>1 DEF IInv, JobsClaim, ExactJobs, Binders
<1>13. ClaimsHeld'
  BY <1>2, <1>3, <1>5, <1>8, <1>10 DEF IInv, TypeOK, ClaimsHeld
<1>14. ClosersMapped'
  <2>1. SUFFICES ASSUME NEW x \in Slots, slot'[x].closer # NoTr
                 PROVE  slot'[x].closer = tr /\ slot'[x].guest \in Guests /\ forwards'[slot'[x].guest] = x
    BY <1>2 DEF ClosersMapped
  <2>2. CASE x = s
    BY <1>4, <1>5, <1>8, <1>10, <2>1, <2>2 DEF IInv, ClosersMapped
  <2>3. CASE x # s
    <3>1. slot[x].closer = tr /\ slot[x].guest \in Guests /\ forwards[slot[x].guest] = x /\ slot'[x] = slot[x]
      BY <1>10, <2>1, <2>3 DEF IInv, ClosersMapped
    <3>2. slot[x].guest # r.guest
      BY <1>5, <2>3, <3>1, ConstantsAssumption
    <3> QED BY <1>10, <3>1, <3>2
  <2> QED BY <2>2, <2>3
<1>15. SupOK'
  BY <1>2, <1>3 DEF IInv, SupOK
<1> QED BY <1>9, <1>11, <1>12, <1>13, <1>14, <1>15 DEF IInv


\* addWith records the ownership and claims the slot before it unlocks to bind.
LEMMA AddBindStep ==
  ASSUME IInv, NEW p \in Procs, NEW s \in Slots, AddBind(p, s)
  PROVE  IInv'
<1> USE ConstantsAssumption DEF sessVars, passVars, supVars, hostVars
<1> DEFINE r == req[p]
           b == BindAt(r, s)
           new == [Owned(r, s, FALSE) EXCEPT !.binding = TRUE]
           j == [slot |-> s, guest |-> r.guest, tr |-> tr, at |-> b.at, last |-> LastPort(b.at, b.exact),
                 exact |-> b.exact, added |-> forwards[r.guest] = NoSlot \/ r.own \notin slot[s].owners]
<1>1. r \in Requests /\ p \in Binders /\ Procs \subseteq Binders /\ Sup \in Binders /\ p # Sup
  BY NoneAssumption DEF AddBind, IInv, TypeOK, Binders, Binding
<1>2. /\ pc[p] = "req" /\ ~Gone(r) /\ Ready(r.guest) /\ Target(r.guest, s)
      /\ ~RecordOnly(forwards[r.guest])
      /\ forwards' = [forwards EXCEPT ![r.guest] = s] /\ slot' = [slot EXCEPT ![s] = new]
      /\ lapsed' = Refreshed(r, s)
      /\ job' = [job EXCEPT ![p] = j] /\ pc' = [pc EXCEPT ![p] = "try"]
      /\ UNCHANGED <<tr, state, stop, sessVars, req, passVars, supVars, trs, late, hostVars>>
  BY DEF AddBind
<1>3. /\ r.guest \in Guests /\ r.own \in Owners /\ r.exact \in BOOLEAN /\ r.pref \in Nat
      /\ slot[s] \in Fwd /\ slot[s].host \in Nat /\ slot[s].exact \in BOOLEAN
  BY <1>1 DEF Requests, IInv, TypeOK, Fwd
<1>4. tr \in Transports /\ (forwards[r.guest] # NoSlot => slot[s].closer = NoTr)
  BY <1>2 DEF RecordOnly, Target, IInv, TypeOK
<1>5. /\ \A h \in Guests : forwards[h] = s => h = r.guest
      /\ \A x \in Binders : job[x] # NoJob => job[x].slot # s
      /\ s \notin batch /\ ~slot[s].binding
      /\ forwards[r.guest] # NoSlot => forwards[r.guest] = s /\ slot[s].guest = r.guest
  BY <1>2, <1>3, TargetFacts
<1>6. OwnedBy(r, s, Owned(r, s, FALSE))
  BY <1>1, <1>2, OwnedFacts
<1>7. forwards[r.guest] = NoSlot => Owned(r, s, FALSE).exact = FALSE
  BY DEF Owned
<1>8. /\ new \in Fwd /\ new.guest = r.guest /\ r.own \in new.owners /\ new.binding /\ new.closer = NoTr
      /\ new.owners = {r.own} \/ (forwards[r.guest] # NoSlot /\ new.owners = slot[s].owners \union {r.own})
      /\ new.exact => forwards[r.guest] # NoSlot /\ slot[s].exact /\ new.host = slot[s].host
  BY <1>4, <1>6, <1>7 DEF OwnedBy, Fwd
<1>9. /\ b.at \in Nat /\ b.exact \in BOOLEAN
      /\ new.exact => b.at = new.host /\ b.exact
  BY <1>3, <1>5, <1>8 DEF BindAt
<1>10. /\ j \in Jobs /\ j.slot = s /\ j.guest = r.guest /\ j # NoJob
       /\ new.exact => j.at = new.host /\ j.last = j.at
  <2>1. LastPort(b.at, b.exact) \in Nat /\ (b.exact => LastPort(b.at, b.exact) = b.at)
    BY <1>9 DEF LastPort
  <2>2. j \in Jobs
    BY <1>3, <1>4, <1>9, <2>1 DEF Jobs
  <2> QED BY <1>9, <2>1, <2>2, NoneAssumption
<1> HIDE DEF new, j, b
<1>11. TypeOK'
  <2>1. ProcTypes'
    <3>1. ProcTypes
      BY DEF IInv, TypeOK, ProcTypes
    <3>2. /\ pc' \in [Binders -> {"idle", "req", "downCheck", "downStop"} \union Binding]
          /\ job' \in [Binders -> Jobs \union {NoJob}]
      BY <1>1, <1>2, <1>10, <3>1 DEF ProcTypes, Binding
    <3>3. ASSUME NEW x \in Binders PROVE job'[x] # NoJob <=> pc'[x] \in Binding
      BY <1>1, <1>2, <1>10, <3>1 DEF ProcTypes, Binding
    <3>4. ASSUME NEW q \in Procs PROVE req'[q] # NoReq <=> pc'[q] \in Binding \union {"req"}
      BY <1>1, <1>2, <3>1 DEF ProcTypes, Binding
    <3> QED BY <1>2, <3>1, <3>2, <3>3, <3>4 DEF ProcTypes
  <2>2. TableTypes'
    BY <1>2, <1>3, <1>8 DEF IInv, TypeOK, TableTypes, Refreshed
  <2> QED BY <1>2, <2>1, <2>2 DEF IInv, TypeOK, ProcTypes, TableTypes
<1>12. /\ forwards'[r.guest] = s /\ \A h \in Guests : h # r.guest => forwards'[h] = forwards[h]
       /\ slot'[s] = new /\ \A x \in Slots : x # s => slot'[x] = slot[x]
       /\ job'[p] = j /\ \A x \in Binders : x # p => job'[x] = job[x]
       /\ job[p] = NoJob
       /\ forwards \in [Guests -> Slots \union {NoSlot}]
  BY <1>1, <1>2, <1>3 DEF IInv, TypeOK, Binding
<1>13. Keyed' /\ Owned1'
  <2>1. \A h \in Guests : h # r.guest /\ forwards[h] # NoSlot => forwards[h] # s /\ forwards[h] \in Slots
    BY <1>5, <1>12
  <2>2. r.own \in Conns => r.own \in sessions
    BY <1>2 DEF Gone
  <2>3. new.owners \intersect Conns \subseteq sessions
    BY <1>3, <1>5, <1>8, <2>2 DEF IInv, Owned1
  <2> QED BY <1>2, <1>8, <1>12, <2>1, <2>3 DEF IInv, Keyed, Owned1
<1>14. \A x \in Binders : job[x] # NoJob => job[x].slot \in Slots /\ slot'[job[x].slot] = slot[job[x].slot]
  BY <1>5, <1>12 DEF IInv, TypeOK, Jobs
<1>15. JobsClaim'
  <2>1. ASSUME NEW x \in Binders, job'[x] # NoJob
        PROVE  slot'[job'[x].slot].binding /\ slot'[job'[x].slot].guest = job'[x].guest
    BY <1>8, <1>10, <1>12, <1>14, <2>1 DEF IInv, JobsClaim
  <2>2. ASSUME NEW x \in Procs, NEW y \in Procs, job'[x] # NoJob, job'[y] # NoJob,
               job'[x].slot = job'[y].slot
        PROVE  x = y
    BY <1>1, <1>5, <1>10, <1>12, <2>2 DEF IInv, JobsClaim
  <2>3. ASSUME NEW x \in Procs, job'[x] # NoJob PROVE job'[x].slot \notin batch
    BY <1>1, <1>5, <1>10, <1>12, <2>3 DEF IInv, JobsClaim
  <2>4. job'[Sup] # NoJob => job'[Sup].slot \in batch
    BY <1>1, <1>12 DEF IInv, JobsClaim
  <2> QED BY <1>2, <2>1, <2>2, <2>3, <2>4 DEF JobsClaim
<1>16. ExactJobs'
  BY <1>10, <1>12, <1>14 DEF IInv, ExactJobs
<1>17. ClaimsHeld'
  <2>1. \A x \in batch : slot'[x].binding
    BY <1>5, <1>12 DEF IInv, TypeOK, ClaimsHeld
  <2>2. ASSUME NEW x \in Slots, slot'[x].binding
        PROVE  /\ x \in batch \/ \E q \in Procs : job'[q] # NoJob /\ job'[q].slot = x
               /\ slot'[x].guest \in Guests /\ slot'[x].closer = NoTr
    <3>1. CASE x = s
      BY <1>3, <1>8, <1>10, <1>12, <3>1
    <3>2. CASE x # s
      BY <1>1, <1>12, <2>2, <3>2 DEF IInv, ClaimsHeld
    <3> QED BY <3>1, <3>2
  <2> QED BY <1>2, <2>1, <2>2 DEF ClaimsHeld
<1>18. ClosersMapped'
  <2>1. SUFFICES ASSUME NEW x \in Slots, slot'[x].closer # NoTr
                 PROVE  slot'[x].closer = tr /\ slot'[x].guest \in Guests /\ forwards'[slot'[x].guest] = x
    BY <1>2 DEF ClosersMapped
  <2>2. slot'[x] = slot[x] /\ x # s
    BY <1>8, <1>12, <2>1
  <2>3. slot[x].closer = tr /\ slot[x].guest \in Guests /\ forwards[slot[x].guest] = x
    BY <2>1, <2>2 DEF IInv, ClosersMapped
  <2>4. slot[x].guest # r.guest
    BY <1>5, <2>2, <2>3
  <2> QED BY <1>12, <2>2, <2>3, <2>4
<1>19. SupOK'
  BY <1>1, <1>2, <1>12 DEF IInv, SupOK
<1> QED BY <1>11, <1>13, <1>15, <1>16, <1>17, <1>18, <1>19 DEF IInv

\* bindSlot's failure path: the claim is settled, the forward left pending or dropped.
LEMMA BindSlotFailedStep ==
  ASSUME IInv, NEW p \in Procs, BindSlotFailed(p)
  PROVE  IInv'
<1> USE ConstantsAssumption DEF sessVars, passVars, supVars, hostVars
<1>1. p \in Binders /\ job[p] # NoJob /\ job[p].slot \in Slots /\ job[p].slot \notin batch
  BY DEF BindSlotFailed, IInv, TypeOK, Binders, Binding, Jobs, JobsClaim
<1>2. PICK ow \in SUBSET slot[job[p].slot].owners :
        Settle(job[p].slot, job[p].guest, ow, slot[job[p].slot])
  BY DEF BindSlotFailed
<1>3. /\ Finish(p) /\ job' = [job EXCEPT ![p] = NoJob]
      /\ UNCHANGED <<tr, state, stop, sessVars, passVars, supVars, trs, late, hostVars>>
  BY DEF BindSlotFailed, Finish
<1>4. slot[job[p].slot] \in Fwd /\ slot[job[p].slot].closer = NoTr /\ batch' = batch \ {job[p].slot}
  BY <1>1, <1>3 DEF IInv, TypeOK, JobsClaim, ClaimsHeld
<1>5. TableTypes' /\ Keyed' /\ JobsClaim' /\ ClaimsHeld' /\ ClosersMapped' /\ ExactJobs' /\ Owned1'
  BY <1>1, <1>2, <1>3, <1>4, SettleTable
<1>6. TypeOK'
  BY <1>3, <1>5, FinishTypes DEF IInv, TypeOK, ProcTypes, TableTypes
<1>7. SupOK'
  <2>1. job'[Sup] = job[Sup]
    BY <1>3 DEF IInv, TypeOK, Binders
  <2> QED BY <1>3, <2>1 DEF IInv, SupOK
<1> QED BY <1>5, <1>6, <1>7 DEF IInv

\* What adopt settles the slot with, and what it hands out to be closed.
LEMMA AdoptFacts ==
  ASSUME IInv, NEW b \in Binders, job[b] # NoJob, Adopt(job[b]),
         job' = [job EXCEPT ![b] = NoJob], batch' = batch \ {job[b].slot},
         UNCHANGED <<tr, sessions>>
  PROVE  /\ TableTypes' /\ closing' \subseteq Closers
         /\ Keyed' /\ JobsClaim' /\ ClaimsHeld' /\ ClosersMapped' /\ ExactJobs' /\ Owned1'
<1> DEFINE j == job[b]
           s == job[b].slot
           rec == IF CanAdopt(j) THEN [slot[s] EXCEPT !.host = j.at, !.closer = j.tr, !.exact = @ \/ j.exact]
                                 ELSE slot[s]
<1>1. /\ j \in Jobs /\ s \in Slots /\ slot[s] \in Fwd /\ slot[s].closer = NoTr
      /\ j.at \in Nat /\ j.tr \in Transports /\ j.guest \in Guests
  BY DEF IInv, TypeOK, Jobs, JobsClaim, ClaimsHeld
<1>2. rec \in Fwd /\ rec.guest = slot[s].guest
  BY <1>1 DEF Fwd, Jobs
<1>3. rec.closer # NoTr => rec.closer = tr /\ forwards[j.guest] = s /\ slot[s].owners # {}
  BY <1>1 DEF CanAdopt, Fwd
<1>4. Settle(s, j.guest, slot[s].owners, rec)
  BY DEF Adopt
<1>5. closing' \subseteq Closers
  BY <1>1 DEF Adopt, IInv, TypeOK, Closers
<1> HIDE DEF rec
<1>6. slot[s].owners \in SUBSET slot[s].owners
  OBVIOUS
<1> QED BY <1>2, <1>3, <1>4, <1>5, <1>6, SettleTable

\* bindSlot's success path: adopt stores the closer or hands it back.
LEMMA AddAdoptStep ==
  ASSUME IInv, NEW p \in Procs, AddAdopt(p)
  PROVE  IInv'
<1> USE ConstantsAssumption DEF sessVars, passVars, supVars
<1>1. p \in Binders /\ job[p] # NoJob /\ job[p].slot \notin batch
  BY DEF AddAdopt, IInv, TypeOK, Binders, Binding, JobsClaim
<1>2. /\ Finish(p) /\ job' = [job EXCEPT ![p] = NoJob] /\ Adopt(job[p])
      /\ UNCHANGED <<tr, state, stop, sessVars, passVars, supVars, trs, late, carried, foreign>>
  BY DEF AddAdopt, Finish
<1>3. batch' = batch \ {job[p].slot}
  BY <1>1, <1>2
<1>4. /\ TableTypes' /\ closing' \subseteq Closers
      /\ Keyed' /\ JobsClaim' /\ ClaimsHeld' /\ ClosersMapped' /\ ExactJobs' /\ Owned1'
  BY <1>1, <1>2, <1>3, AdoptFacts
<1>5. TypeOK'
  BY <1>2, <1>4, FinishTypes DEF IInv, TypeOK, ProcTypes, TableTypes
<1>6. SupOK'
  <2>1. job'[Sup] = job[Sup]
    BY <1>2 DEF IInv, TypeOK, Binders
  <2> QED BY <1>2, <2>1 DEF IInv, SupOK
<1> QED BY <1>4, <1>5, <1>6 DEF IInv

\* Every step of an add preserves the invariant.
LEMMA HandleStep ==
  ASSUME IInv, NEW p \in Procs, Handle(p)
  PROVE  IInv'
<1>1. p \in Binders
  BY DEF Binders
<1> QED BY <1>1, RefusedStep, AddRecordStep, AddBindStep, BindSlotFailedStep, AddAdoptStep,
           BindBusyStep, QuietSteps DEF Handle, Bind


-----------------------------------------------------------------------------
(* The supervisor. *)

\* Steps that only move it, and leave the forwards, the claims and d.tr alone.
LEMMA SupMoves ==
  ASSUME IInv,
         \/ SeesStop \/ IdleExit \/ CloseOld \/ Dial \/ DialFails \/ DialUnmanaged
         \/ RetryTick \/ Announce \/ Release \/ Exit
  PROVE  IInv'
<1> USE DEF tableVars, sessVars, procVars, passVars, hostVars
<1> USE DEF SeesStop, IdleExit, CloseOld, CloseTransport, Dial, DialFails, DialUnmanaged,
            RetryTick, Announce, Release, Exit
<1>1. /\ UNCHANGED <<tr, stop, forwards, slot, lapsed, sessions, relay, pc, req, job, batch, tried,
                     foreign, closing>>
  OBVIOUS
<1>2. SupOK'
  BY DEF IInv, SupOK
<1>3. /\ sup' \in SupStates /\ state' \in {"up", "reconnecting"} /\ old' \in Transports \union {NoTr}
      /\ late' \in BOOLEAN
  BY DEF SupStates, IInv, TypeOK
<1>4. conn' \in [Conns -> {"new", "open", "ended", "gone"}]
  BY DEF IInv, TypeOK
<1>5. trs' \in [Transports -> {"live", "dead", "closed"}] /\ carried' \subseteq Closers
  BY DEF IInv, TypeOK
<1>6. TypeOK'
  BY <1>1, <1>3, <1>4, <1>5 DEF IInv, TypeOK
<1> QED BY <1>1, <1>2, <1>6 DEF IInv, Keyed, JobsClaim, ClaimsHeld, ClosersMapped, ExactJobs, Owned1

\* detachLocked leaves no closer, and nothing else changes.
LEMMA DetachedFacts ==
  ASSUME IInv, NEW table \in [Slots -> Fwd],
         \A s \in Slots : s \notin Mapped => table[s].closer = NoTr
  PROVE  /\ Detached(table) \in [Slots -> Fwd]
         /\ \A s \in Slots : /\ Detached(table)[s].closer = NoTr
                             /\ Detached(table)[s].guest = table[s].guest
                             /\ Detached(table)[s].host = table[s].host
                             /\ Detached(table)[s].exact = table[s].exact
                             /\ Detached(table)[s].binding = table[s].binding
                             /\ Detached(table)[s].owners = table[s].owners
<1>1. \A s \in Slots : [table[s] EXCEPT !.closer = NoTr] \in Fwd
  BY DEF Fwd
<1> QED BY <1>1 DEF Detached, Fwd

\* A slot outside the map has no closer.
LEMMA UnmappedBare ==
  ASSUME IInv, NEW s \in Slots, s \notin Mapped
  PROVE  slot[s].closer = NoTr
BY ConstantsAssumption DEF IInv, TypeOK, ClosersMapped, Mapped

\* shutdown's teardown detaches every forward from the transport it takes away.
LEMMA TeardownStep ==
  ASSUME IInv, Teardown("teardown", "closing") \/ Teardown("exit", "release")
  PROVE  IInv'
<1> USE DEF Teardown, sessVars, procVars, passVars, hostVars
<1>1. slot \in [Slots -> Fwd]
  BY DEF IInv, TypeOK
<1>2. /\ slot' \in [Slots -> Fwd]
      /\ \A s \in Slots : /\ slot'[s].closer = NoTr /\ slot'[s].guest = slot[s].guest
                          /\ slot'[s].host = slot[s].host /\ slot'[s].exact = slot[s].exact
                          /\ slot'[s].binding = slot[s].binding /\ slot'[s].owners = slot[s].owners
  BY <1>1, DetachedFacts, UnmappedBare
<1>3. TypeOK'
  BY <1>2 DEF IInv, TypeOK, SupStates
<1>4. \A b \in Binders : job[b] # NoJob => job[b].slot \in Slots
  BY DEF IInv, TypeOK, Jobs
<1>5. \A g \in Guests : forwards[g] # NoSlot => forwards[g] \in Slots
  BY DEF IInv, TypeOK
<1>6. Keyed' /\ Owned1'
  BY <1>2, <1>5 DEF IInv, Keyed, Owned1
<1>7. JobsClaim' /\ ExactJobs'
  BY <1>2, <1>4 DEF IInv, JobsClaim, ExactJobs, Binders
<1>8. ClaimsHeld' /\ ClosersMapped'
  BY <1>2 DEF IInv, TypeOK, ClaimsHeld, ClosersMapped
<1>9. SupOK'
  BY DEF IInv, SupOK
<1> QED BY <1>3, <1>6, <1>7, <1>8, <1>9 DEF IInv

\* onDead takes the transport, detaches the forwards and drops the relay sessions' ownerships at once.
LEMMA OnDeadStep ==
  ASSUME IInv, OnDead
  PROVE  IInv'
<1> USE DEF OnDead, procVars, passVars, hostVars
<1> DEFINE del == FromRelays
<1>1. /\ DropForwards(del) \in [Guests -> Slots \union {NoSlot}] /\ DropSlots(del) \in [Slots -> Fwd]
      /\ \A g \in Guests : DropForwards(del)[g] # NoSlot =>
           /\ DropForwards(del)[g] = forwards[g] /\ forwards[g] \notin Released(del)
           /\ forwards[g] \in Slots
           /\ DropSlots(del)[forwards[g]].owners = slot[forwards[g]].owners \ del[forwards[g]]
      /\ \A x \in Slots : x \in Released(del) => DropSlots(del)[x] = Blank /\ ~slot[x].binding
      /\ \A x \in Slots : x \notin Released(del) =>
           /\ DropSlots(del)[x].guest = slot[x].guest /\ DropSlots(del)[x].host = slot[x].host
           /\ DropSlots(del)[x].exact = slot[x].exact /\ DropSlots(del)[x].closer = slot[x].closer
           /\ DropSlots(del)[x].binding = slot[x].binding
      /\ \A g \in Guests : DropForwards(del)[g] # NoSlot /\ DropSlots(del)[forwards[g]].owners = {}
           => slot[forwards[g]].binding
  BY DropFacts
<1>2. \A s \in Slots : s \notin Mapped => DropSlots(del)[s].closer = NoTr
  BY <1>1, UnmappedBare DEF Released
<1>3. /\ slot' \in [Slots -> Fwd] /\ forwards' = DropForwards(del)
      /\ \A s \in Slots : /\ slot'[s].closer = NoTr /\ slot'[s].guest = DropSlots(del)[s].guest
                          /\ slot'[s].host = DropSlots(del)[s].host
                          /\ slot'[s].exact = DropSlots(del)[s].exact
                          /\ slot'[s].binding = DropSlots(del)[s].binding
                          /\ slot'[s].owners = DropSlots(del)[s].owners
  BY <1>1, <1>2, DetachedFacts
<1>4. /\ \A s \in Slots : s \in Released(del) => slot'[s].binding = FALSE /\ ~slot[s].binding
      /\ \A s \in Slots : s \notin Released(del) =>
           /\ slot'[s].guest = slot[s].guest /\ slot'[s].host = slot[s].host
           /\ slot'[s].exact = slot[s].exact /\ slot'[s].binding = slot[s].binding
  BY <1>1, <1>3 DEF Blank
<1>5. TypeOK'
  BY <1>1, <1>3 DEF IInv, TypeOK, SupStates, Unlapsed
<1>6. Keyed' /\ Owned1'
  <2>1. SUFFICES ASSUME NEW g \in Guests, forwards'[g] # NoSlot
                 PROVE  /\ slot'[forwards'[g]].guest = g
                        /\ slot'[forwards'[g]].owners = {} => slot'[forwards'[g]].binding
                        /\ slot'[forwards'[g]].owners \intersect Conns \subseteq sessions'
    BY DEF Keyed, Owned1
  <2>2. /\ forwards'[g] = forwards[g] /\ forwards[g] \in Slots /\ forwards[g] \notin Released(del)
        /\ slot'[forwards[g]].owners = slot[forwards[g]].owners \ Relays
        /\ slot'[forwards[g]].owners = {} => slot[forwards[g]].binding
    BY <1>1, <1>3, <2>1 DEF FromRelays
  <2>3. slot[forwards[g]].guest = g /\ slot[forwards[g]].owners \intersect Conns \subseteq sessions
    BY <2>1, <2>2 DEF IInv, Keyed, Owned1
  <2> QED BY <1>4, <2>2, <2>3
<1>7. \A b \in Binders : job[b] # NoJob => job[b].slot \in Slots /\ job[b].slot \notin Released(del)
  BY <1>4 DEF IInv, TypeOK, Jobs, JobsClaim
<1>8. JobsClaim' /\ ExactJobs'
  BY <1>4, <1>7 DEF IInv, JobsClaim, ExactJobs, Binders
<1>9. ClaimsHeld' /\ ClosersMapped'
  BY <1>3, <1>4 DEF IInv, TypeOK, ClaimsHeld, ClosersMapped
<1>10. SupOK'
  BY DEF IInv, SupOK
<1> QED BY <1>5, <1>6, <1>8, <1>9, <1>10 DEF IInv

\* restore's and the ticker's expireTTL.
LEMMA ExpireStep ==
  ASSUME IInv, Expire \/ \E t \in Transports : DialOK(t)
  PROVE  IInv'
<1> USE DEF sessVars, procVars, passVars
<1>1. /\ DropOwners(ExpiredTTL)
      /\ UNCHANGED <<tr, state, stop, sessVars, procVars, passVars, late, carried, foreign>>
      /\ trs' \in [Transports -> {"live", "dead", "closed"}] /\ old' \in Transports \union {NoTr}
      /\ (sup = "expire" /\ sup' = "loop" /\ old' = old)
         \/ (sup = "dialing" /\ sup' = "install" /\ old' \in Transports)
  BY DEF Expire, DialOK, IInv, TypeOK
<1>2. \A h \in Guests : forwards[h] # NoSlot => slot[forwards[h]].owners \intersect Conns \subseteq sessions
  BY DEF IInv, Owned1
<1>3. /\ TableTypes' /\ closing' \subseteq Closers
      /\ Keyed' /\ JobsClaim' /\ ClaimsHeld' /\ ClosersMapped' /\ ExactJobs' /\ Owned1'
  BY <1>1, <1>2, DropOwnersTable
<1>4. TypeOK'
  BY <1>1, <1>3 DEF IInv, TypeOK, TableTypes, SupStates
<1>5. SupOK'
  BY <1>1, ConstantsAssumption DEF IInv, SupOK
<1> QED BY <1>3, <1>4, <1>5 DEF IInv

\* No forward has a closer while there is no transport, so none is of another one.
LEMMA InstallStep ==
  ASSUME IInv, Install
  PROVE  IInv'
<1> USE DEF Install, tableVars, sessVars, procVars, passVars, hostVars
<1>1. \A s \in Slots : slot[s].closer = NoTr
  BY DEF IInv, SupOK, ClosersMapped
<1>2. TypeOK'
  BY DEF IInv, TypeOK, SupStates
<1>3. ClosersMapped' /\ SupOK'
  BY <1>1 DEF IInv, ClosersMapped, SupOK
<1> QED BY <1>2, <1>3 DEF IInv, Keyed, JobsClaim, ClaimsHeld, ExactJobs, Owned1


\* rebindPending claims what nobody is binding.
LEMMA RebindBatchStep ==
  ASSUME IInv, RebindBatch
  PROVE  IInv'
<1> USE ConstantsAssumption DEF RebindBatch, sessVars, procVars, supVars, hostVars
<1>1. /\ Claimable \subseteq Slots
      /\ \A s \in Claimable : slot[s].closer = NoTr /\ ~slot[s].binding /\ slot[s].guest \in Guests
  BY DEF Claimable, Mapped, IInv, TypeOK, Keyed
<1>2. /\ slot' \in [Slots -> Fwd]
      /\ \A s \in Slots : /\ slot'[s].closer = slot[s].closer /\ slot'[s].guest = slot[s].guest
                          /\ slot'[s].host = slot[s].host /\ slot'[s].exact = slot[s].exact
                          /\ slot'[s].owners = slot[s].owners
                          /\ s \in Claimable => slot'[s].binding
                          /\ s \notin Claimable => slot'[s].binding = slot[s].binding
  <2>1. slot \in [Slots -> Fwd]
    BY DEF IInv, TypeOK
  <2>2. \A s \in Slots : [slot[s] EXCEPT !.binding = TRUE] \in Fwd
    BY <2>1 DEF Fwd
  <2> QED BY <2>1, <2>2 DEF Fwd
<1>3. batch = {} /\ batch' = Claimable /\ job[Sup] = NoJob
  BY DEF PassReady, IInv, JobsClaim
<1>4. TypeOK'
  BY <1>1, <1>2 DEF IInv, TypeOK
<1>5. \A b \in Binders : job[b] # NoJob => job[b].slot \in Slots /\ job[b].slot \notin Claimable
  BY <1>1 DEF IInv, TypeOK, Jobs, JobsClaim
<1>6. \A g \in Guests : forwards[g] # NoSlot => forwards[g] \in Slots
  BY DEF IInv, TypeOK
<1>7. Keyed' /\ Owned1'
  BY <1>2, <1>6 DEF IInv, Keyed, Owned1
<1>8. JobsClaim' /\ ExactJobs'
  BY <1>2, <1>3, <1>5 DEF IInv, JobsClaim, ExactJobs, Binders
<1>9. ClaimsHeld' /\ ClosersMapped'
  BY <1>1, <1>2, <1>3 DEF IInv, ClaimsHeld, ClosersMapped
<1>10. SupOK'
  BY DEF IInv, SupOK
<1> QED BY <1>4, <1>7, <1>8, <1>9, <1>10 DEF IInv

\* A pass with nothing left to claim returns to its caller.
LEMMA RebindDoneStep ==
  ASSUME IInv, RebindDone
  PROVE  IInv'
<1> USE DEF RebindDone, PassReady, tableVars, sessVars, procVars, hostVars
<1>1. TypeOK'
  BY DEF IInv, TypeOK, SupStates
<1>2. SupOK'
  BY DEF IInv, SupOK
<1> QED BY <1>1, <1>2 DEF IInv, Keyed, JobsClaim, ClaimsHeld, ClosersMapped, ExactJobs, Owned1

\* The pass binds a claimed slot where it was, at its own port if exact.
LEMMA RebindNextStep ==
  ASSUME IInv, NEW s \in Slots, RebindNext(s)
  PROVE  IInv'
<1> USE ConstantsAssumption DEF tableVars, sessVars, supVars, hostVars
<1> DEFINE j == [slot |-> s, guest |-> slot[s].guest, tr |-> tr, at |-> slot[s].host,
                 last |-> LastPort(slot[s].host, slot[s].exact), exact |-> slot[s].exact, added |-> FALSE]
<1>1. /\ sup \in {"retry", "restore"} /\ pc[Sup] = "idle" /\ s \in batch /\ tried' = tried \union {s}
      /\ job' = [job EXCEPT ![Sup] = j] /\ pc' = [pc EXCEPT ![Sup] = "try"]
      /\ UNCHANGED <<tr, state, stop, tableVars, sessVars, req, batch, supVars, trs, late, hostVars>>
  BY DEF RebindNext
<1>2. Sup \in Binders /\ Procs \subseteq Binders /\ Sup \notin Procs
  BY DEF Binders
<1>3. /\ slot[s] \in Fwd /\ slot[s].host \in Nat /\ slot[s].exact \in BOOLEAN
      /\ slot[s].binding /\ slot[s].guest \in Guests /\ tr \in Transports
  BY <1>1 DEF IInv, TypeOK, Fwd, ClaimsHeld, SupOK
<1>4. LastPort(slot[s].host, slot[s].exact) \in Nat
      /\ (slot[s].exact => LastPort(slot[s].host, slot[s].exact) = slot[s].host)
  BY <1>3 DEF LastPort
<1>5. /\ j \in Jobs /\ j # NoJob /\ j.slot = s /\ j.guest = slot[s].guest
      /\ slot[s].exact => j.at = slot[s].host /\ j.last = j.at
  <2>1. j \in Jobs
    BY <1>3, <1>4 DEF Jobs
  <2> QED BY <1>4, <2>1, NoneAssumption
<1> HIDE DEF j
<1>6. job'[Sup] = j /\ \A x \in Binders : x # Sup => job'[x] = job[x]
  BY <1>1, <1>2 DEF IInv, TypeOK
<1>7. ProcTypes'
  <2>1. ProcTypes
    BY DEF IInv, TypeOK, ProcTypes
  <2>2. /\ pc' \in [Binders -> {"idle", "req", "downCheck", "downStop"} \union Binding]
        /\ job' \in [Binders -> Jobs \union {NoJob}]
    BY <1>1, <1>2, <1>5, <2>1 DEF ProcTypes, Binding
  <2>3. ASSUME NEW x \in Binders PROVE job'[x] # NoJob <=> pc'[x] \in Binding
    BY <1>1, <1>2, <1>5, <2>1 DEF ProcTypes, Binding
  <2>4. ASSUME NEW q \in Procs PROVE req'[q] # NoReq <=> pc'[q] \in Binding \union {"req"}
    BY <1>1, <1>2, <2>1 DEF ProcTypes, Binding
  <2> QED BY <1>1, <2>1, <2>2, <2>3, <2>4 DEF ProcTypes
<1>8. TypeOK'
  BY <1>1, <1>7 DEF IInv, TypeOK, ProcTypes
<1>9. JobsClaim' /\ ExactJobs'
  BY <1>1, <1>2, <1>3, <1>5, <1>6 DEF IInv, JobsClaim, ExactJobs
<1>10. ClaimsHeld'
  BY <1>1, <1>2, <1>6 DEF IInv, ClaimsHeld
<1>11. Keyed' /\ ClosersMapped' /\ Owned1' /\ SupOK'
  BY <1>1 DEF IInv, Keyed, ClosersMapped, Owned1, SupOK
<1> QED BY <1>8, <1>9, <1>10, <1>11 DEF IInv

\* The pass's next job is a claim it already holds, or none.
LEMMA NextJobTypes ==
  ASSUME IInv, NextJob, req' = req
  PROVE  ProcTypes'
<1> USE ConstantsAssumption DEF NextJob, Binding
<1>1. Sup \in Binders /\ Procs \subseteq Binders /\ Sup \notin Procs
  BY DEF Binders
<1>2. ProcTypes
  BY DEF IInv, TypeOK, ProcTypes
<1>3. /\ pc' \in [Binders -> {"idle", "req", "downCheck", "downStop"} \union Binding]
      /\ job' \in [Binders -> Jobs \union {NoJob}]
  BY <1>1, <1>2 DEF ProcTypes
<1>4. ASSUME NEW b \in Binders PROVE job'[b] # NoJob <=> pc'[b] \in Binding
  BY <1>1, <1>2 DEF ProcTypes
<1>5. ASSUME NEW q \in Procs PROVE req'[q] # NoReq <=> pc'[q] \in Binding \union {"req"}
  BY <1>1, <1>2 DEF ProcTypes
<1> QED BY <1>2, <1>3, <1>4, <1>5 DEF ProcTypes

\* A bind of the pass ends: adopted, or left pending.
LEMMA RebindEnds ==
  ASSUME IInv, RebindAdopt \/ RebindFailed
  PROVE  IInv'
<1> USE ConstantsAssumption DEF sessVars, supVars, hostVars
<1>1. /\ Sup \in Binders /\ job[Sup] # NoJob /\ job[Sup].slot \in Slots /\ slot[job[Sup].slot] \in Fwd
      /\ slot[job[Sup].slot].closer = NoTr
  BY DEF RebindAdopt, RebindFailed, IInv, TypeOK, Binders, Binding, Jobs, JobsClaim, ClaimsHeld
<1>2. /\ NextJob /\ req' = req /\ job' = [job EXCEPT ![Sup] = NoJob] /\ batch' = batch \ {job[Sup].slot}
      /\ UNCHANGED <<tr, state, stop, sessVars, tried, old, trs, late, carried, foreign>>
      /\ sup' = sup \/ (sup = "restore" /\ sup' = "abort")
      /\ RebindAdopt \/ closing' = closing
  BY DEF RebindAdopt, RebindFailed, NextJob, FailsFast
<1>3. /\ TableTypes' /\ closing' \subseteq Closers
      /\ Keyed' /\ JobsClaim' /\ ClaimsHeld' /\ ClosersMapped' /\ ExactJobs' /\ Owned1'
  <2>1. CASE RebindAdopt
    BY <1>1, <1>2, <2>1, AdoptFacts DEF RebindAdopt
  <2>2. CASE RebindFailed
    <3>1. slot[job[Sup].slot].owners \in SUBSET slot[job[Sup].slot].owners
      OBVIOUS
    <3>2. closing' \subseteq Closers
      BY <2>2 DEF RebindFailed, IInv, TypeOK
    <3>3. Settle(job[Sup].slot, job[Sup].guest, slot[job[Sup].slot].owners, slot[job[Sup].slot])
      BY <2>2 DEF RebindFailed
    <3> QED BY <1>1, <1>2, <3>1, <3>2, <3>3, SettleTable
  <2> QED BY <2>1, <2>2
<1>4. sup' \in SupStates
  BY <1>2 DEF IInv, TypeOK, SupStates
<1>5. batch' \subseteq Slots
  BY <1>2 DEF IInv, TypeOK
<1>6. TypeOK'
  BY <1>2, <1>3, <1>4, <1>5, NextJobTypes DEF IInv, TypeOK, ProcTypes, TableTypes
<1>7. job'[Sup] = NoJob
  BY <1>1, <1>2 DEF IInv, TypeOK
<1>8. SupOK'
  BY <1>2, <1>7 DEF IInv, SupOK
<1> QED BY <1>3, <1>6, <1>8 DEF IInv

\* restore gives up: the claims it still holds are settled.
LEMMA RebindAbortStep ==
  ASSUME IInv, RebindAbort
  PROVE  IInv'
<1> USE ConstantsAssumption, BlankFwd DEF sessVars, procVars, hostVars
<1>1. /\ batch \subseteq Slots /\ slot \in [Slots -> Fwd] /\ job[Sup] = NoJob
      /\ forwards \in [Guests -> Slots \union {NoSlot}]
      /\ \A s \in batch : slot[s].guest \in Guests /\ slot[s].closer = NoTr
      /\ sup = "abort" /\ sup' = "teardown" /\ batch' = {} /\ tried' = {}
      /\ UNCHANGED <<tr, state, stop, lapsed, sessions, job, old>>
  BY DEF RebindAbort, IInv, TypeOK, SupOK, ClaimsHeld
<1>2. \A s \in batch : LET q == Settled(s, slot[s].guest, slot[s].owners, slot[s]) IN
        /\ q \in Fwd /\ q.binding = FALSE /\ q.closer = NoTr
        /\ forwards[slot[s].guest] = s /\ slot[s].owners # {} => q.guest = slot[s].guest /\ q.owners = slot[s].owners
  <2>1. SUFFICES ASSUME NEW s \in batch,
                        NEW q, q = Settled(s, slot[s].guest, slot[s].owners, slot[s])
                 PROVE  /\ q \in Fwd /\ q.binding = FALSE /\ q.closer = NoTr
                        /\ forwards[slot[s].guest] = s /\ slot[s].owners # {}
                             => q.guest = slot[s].guest /\ q.owners = slot[s].owners
    OBVIOUS
  <2>2. slot[s] \in Fwd /\ slot[s].closer = NoTr
    BY <1>1
  <2>3. [slot[s] EXCEPT !.owners = slot[s].owners, !.binding = FALSE] \in Fwd
    BY <2>2 DEF Fwd
  <2> QED BY <2>1, <2>2, <2>3 DEF Settled, Blank, Fwd
<1>3. /\ slot' \in [Slots -> Fwd]
      /\ \A s \in Slots : s \notin batch => slot'[s] = slot[s]
      /\ \A s \in batch : slot'[s].binding = FALSE /\ slot'[s].closer = NoTr
      /\ \A s \in batch : forwards[slot[s].guest] = s /\ slot[s].owners # {}
           => slot'[s].guest = slot[s].guest /\ slot'[s].owners = slot[s].owners
  BY <1>1, <1>2 DEF RebindAbort
<1>4. /\ forwards' \in [Guests -> Slots \union {NoSlot}]
      /\ \A g \in Guests : forwards'[g] # NoSlot =>
           /\ forwards'[g] = forwards[g] /\ forwards[g] \in Slots
           /\ forwards[g] \in batch => slot[forwards[g]].owners # {}
      /\ \A g \in Guests : forwards[g] \notin batch => forwards'[g] = forwards[g]
  BY <1>1 DEF RebindAbort
<1>5. TypeOK'
  BY <1>1, <1>3, <1>4 DEF RebindAbort, IInv, TypeOK, SupStates
<1>6. Keyed' /\ Owned1'
  <2>1. SUFFICES ASSUME NEW g \in Guests, forwards'[g] # NoSlot
                 PROVE  /\ slot'[forwards'[g]].guest = g
                        /\ slot'[forwards'[g]].owners = {} => slot'[forwards'[g]].binding
                        /\ slot'[forwards'[g]].owners \intersect Conns \subseteq sessions
    BY <1>1 DEF Keyed, Owned1
  <2>2. /\ forwards'[g] = forwards[g] /\ forwards[g] \in Slots /\ slot[forwards[g]].guest = g
        /\ forwards[g] \in batch => slot[forwards[g]].owners # {}
        /\ slot[forwards[g]].owners = {} => slot[forwards[g]].binding
        /\ slot[forwards[g]].owners \intersect Conns \subseteq sessions
    BY <1>4, <2>1 DEF IInv, Keyed, Owned1
  <2> QED BY <1>3, <2>2
<1>7. \A p \in Procs : job[p] # NoJob => job[p].slot \in Slots /\ job[p].slot \notin batch
  BY DEF IInv, TypeOK, Jobs, JobsClaim, Binders
<1>8. JobsClaim' /\ ExactJobs'
  BY <1>1, <1>3, <1>7 DEF IInv, JobsClaim, ExactJobs, Binders
<1>9. ClaimsHeld'
  BY <1>1, <1>3 DEF IInv, ClaimsHeld
<1>10. ClosersMapped'
  <2>1. SUFFICES ASSUME NEW x \in Slots, slot'[x].closer # NoTr
                 PROVE  slot'[x].closer = tr /\ slot'[x].guest \in Guests /\ forwards'[slot'[x].guest] = x
    BY <1>1 DEF ClosersMapped
  <2>2. x \notin batch /\ slot'[x] = slot[x]
    BY <1>3, <2>1
  <2> QED BY <1>4, <2>1, <2>2 DEF IInv, ClosersMapped
<1>11. SupOK'
  BY <1>1 DEF IInv, SupOK
<1> QED BY <1>5, <1>6, <1>8, <1>9, <1>10, <1>11 DEF IInv

\* shutdown empties the map; the slots still being bound are their binders'.
LEMMA ClearStep ==
  ASSUME IInv, Clear
  PROVE  IInv'
<1> USE ConstantsAssumption, BlankFwd DEF Clear, sessVars, procVars, passVars, hostVars
<1>1. \A s \in Slots : slot[s].closer = NoTr
  BY DEF IInv, SupOK, ClosersMapped
<1>2. /\ slot' \in [Slots -> Fwd]
      /\ \A s \in Slots : slot[s].binding => slot'[s] = slot[s]
      /\ \A s \in Slots : slot'[s].binding => slot[s].binding
      /\ \A s \in Slots : slot'[s].closer = NoTr
  BY <1>1 DEF IInv, TypeOK, Blank
<1>3. TypeOK'
  BY <1>2 DEF IInv, TypeOK, SupStates, Unlapsed
<1>4. \A b \in Binders : job[b] # NoJob => job[b].slot \in Slots /\ slot[job[b].slot].binding
  BY DEF IInv, TypeOK, Jobs, JobsClaim
<1>5. JobsClaim' /\ ExactJobs'
  BY <1>2, <1>4 DEF IInv, JobsClaim, ExactJobs, Binders
<1>6. ClaimsHeld' /\ ClosersMapped'
  BY <1>2 DEF IInv, TypeOK, ClaimsHeld, ClosersMapped
<1>7. Keyed' /\ Owned1' /\ SupOK'
  BY DEF IInv, Keyed, Owned1, SupOK
<1> QED BY <1>3, <1>5, <1>6, <1>7 DEF IInv

\* Every step of loop and shutdown preserves the invariant.
LEMMA SuperviseStep ==
  ASSUME IInv, Supervise
  PROVE  IInv'
<1>1. Sup \in Binders
  BY DEF Binders
<1>2. ASSUME Pass PROVE IInv'
  BY <1>1, <1>2, RebindBatchStep, RebindDoneStep, RebindNextStep, RebindEnds, RebindAbortStep,
     BindBusyStep, QuietSteps DEF Pass, Bind
<1> QED BY <1>2, SupMoves, OnDeadStep, ExpireStep, InstallStep, TeardownStep, ClearStep DEF Supervise


-----------------------------------------------------------------------------
(* The theorems. *)

\* newDaemon's state satisfies the invariant.
LEMMA InitIInv == Init => IInv
<1> USE ConstantsAssumption, BlankFwd
<1> SUFFICES ASSUME Init PROVE IInv
  OBVIOUS
<1>1. TypeOK
  <2>1. TableTypes
    BY DEF Init, TableTypes
  <2>2. ProcTypes
    <3>1. /\ \A b \in Binders : pc[b] = "idle" /\ job[b] = NoJob
          /\ \A p \in Procs : p \in Binders /\ req[p] = NoReq
      BY DEF Init, Binders
    <3>2. /\ pc \in [Binders -> {"idle", "req", "downCheck", "downStop"} \union Binding]
          /\ req \in [Procs -> Requests \union {NoReq}] /\ job \in [Binders -> Jobs \union {NoJob}]
      BY DEF Init
    <3> QED BY <3>1, <3>2 DEF ProcTypes, Binding
  <2>3. /\ tr \in Transports /\ trs \in [Transports -> {"live", "dead", "closed"}]
        /\ relay \in [Conns -> BOOLEAN] /\ conn \in [Conns -> {"new", "open", "ended", "gone"}]
    BY DEF Init
  <2> QED BY <2>1, <2>2, <2>3 DEF Init, TypeOK, TableTypes, ProcTypes, SupStates
<1>2. SupOK /\ Keyed /\ Owned1
  BY DEF Init, SupOK, Keyed, Owned1
<1>3. JobsClaim /\ ClaimsHeld /\ ClosersMapped /\ ExactJobs
  BY DEF Init, JobsClaim, ClaimsHeld, ClosersMapped, ExactJobs, Binders, Blank
<1> QED BY <1>1, <1>2, <1>3 DEF IInv

\* Every step, and every stutter, preserves the invariant.
LEMMA NextIInv == IInv /\ [Next]_vars => IInv'
<1> SUFFICES ASSUME IInv, [Next]_vars PROVE IInv'
  OBVIOUS
<1>1. CASE UNCHANGED vars
  <2>1. TypeOK'
    BY <1>1 DEF IInv, TypeOK, vars, tableVars, sessVars, procVars, passVars, supVars, hostVars
  <2> QED BY <1>1, <2>1, RestFrame
          DEF IInv, Rest, vars, tableVars, sessVars, procVars, passVars, supVars, hostVars
<1> QED BY <1>1, ClientStep, HandleStep, CloseSessionStep, QuietSteps, SuperviseStep DEF Next, Done

\* Every reachable state satisfies the inductive invariant.
THEOREM Inductive == Spec => []IInv
BY InitIInv, NextIInv, PTL DEF Spec

\* Types hold, and a handler holds a job exactly while it is inside bindSlot.
THEOREM Types == Spec => []TypeOK
<1>1. IInv => TypeOK
  BY DEF IInv
<1> QED BY <1>1, Inductive, PTL

\* fwd.binding has exactly one holder while it is set and none otherwise:
\* however adds, restore, the ticker, removals and outages interleave.
THEOREM ClaimsAreExclusive == Spec => []OneBinder
<1>1. IInv => OneBinder
  <2>1. SUFFICES ASSUME IInv, NEW s \in Slots
                 PROVE  IF slot[s].binding THEN \E b \in Binders : Claimants(s) = {b}
                                           ELSE Claimants(s) = {}
    BY DEF OneBinder
  <2>2. CASE slot[s].binding /\ s \in batch
    <3>1. \A p \in Procs : job[p] # NoJob => job[p].slot # s
      BY <2>1, <2>2 DEF IInv, JobsClaim
    <3>2. Claimants(s) = {Sup}
      BY <2>2, <3>1 DEF Claimants
    <3> QED BY <2>2, <3>2 DEF Binders
  <2>3. CASE slot[s].binding /\ s \notin batch
    <3>1. PICK p \in Procs : job[p] # NoJob /\ job[p].slot = s
      BY <2>1, <2>3 DEF IInv, ClaimsHeld
    <3>2. \A q \in Procs : job[q] # NoJob /\ job[q].slot = s => q = p
      BY <2>1, <3>1 DEF IInv, JobsClaim
    <3>3. Claimants(s) = {p}
      BY <2>3, <3>1, <3>2 DEF Claimants
    <3> QED BY <2>3, <3>3 DEF Binders
  <2>4. CASE ~slot[s].binding
    <3>1. s \notin batch
      BY <2>1, <2>4 DEF IInv, ClaimsHeld
    <3>2. \A p \in Procs : job[p] # NoJob => job[p].slot # s
      BY <2>1, <2>4 DEF IInv, JobsClaim, Binders
    <3>3. Claimants(s) = {}
      BY <3>1, <3>2 DEF Claimants
    <3> QED BY <2>4, <3>3
  <2> QED BY <2>2, <2>3, <2>4
<1> QED BY <1>1, Inductive, PTL

\* No connection owner outlives its session, whichever of addWith, closeSession
\* and onDead come in between.
THEOREM NoOrphanOwner == Spec => []OwnersRegistered
<1>1. IInv => OwnersRegistered
  BY DEF IInv, Owned1, OwnersRegistered, Mapped
<1> QED BY <1>1, Inductive, PTL

\* A forward that lost its last owner is in the map only while it is bound by somebody.
THEOREM OwnerlessOnlyWhileBinding == Spec => []NoOwnerlessForward
<1>1. IInv => NoOwnerlessForward
  BY DEF IInv, Owned1, NoOwnerlessForward, Mapped
<1> QED BY <1>1, Inductive, PTL

\* Every closer a forward holds came from the current transport.
THEOREM ClosersAreCurrent == Spec => []CloserCurrent
<1>1. IInv => CloserCurrent
  BY DEF IInv, ClosersMapped, CloserCurrent
<1> QED BY <1>1, Inductive, PTL

\* Whenever loop is back in its select there is a transport and the state is up.
THEOREM LoopHasTransport == Spec => []SupervisedTransport
<1>1. IInv => SupervisedTransport
  BY DEF IInv, SupOK, SupervisedTransport
<1> QED BY <1>1, Inductive, PTL


-----------------------------------------------------------------------------
(* Exact is sticky. *)

\* What ExactSticks says of one step.
Sticks == \A g \in Guests :
            forwards[g] # NoSlot /\ slot[forwards[g]].exact /\ forwards'[g] = forwards[g]
              => slot'[forwards[g]].exact /\ slot'[forwards[g]].host = slot[forwards[g]].host

\* A step that keeps the port and the exactness of the slots it does not unmap.
LEMMA SticksIf ==
  ASSUME IInv,
         \A s \in Slots : \/ \A g \in Guests : forwards[g] = s => forwards'[g] # s
                          \/ slot[s].exact => slot'[s].exact /\ slot'[s].host = slot[s].host
  PROVE  Sticks
BY DEF IInv, TypeOK, Sticks

\* Dropping owners keeps the port and the exactness of every forward that stays.
LEMMA DropSticks ==
  ASSUME IInv, NEW del, DropOwners(del)
  PROVE  Sticks
<1>1. \A s \in Slots : s \in Released(del) => \A g \in Guests : forwards[g] = s => forwards'[g] # s
  BY ConstantsAssumption DEF DropOwners, DropForwards
<1>2. \A s \in Slots : s \notin Released(del) => slot'[s].exact = slot[s].exact /\ slot'[s].host = slot[s].host
  BY DropFacts DEF DropOwners
<1> QED BY <1>1, <1>2, SticksIf

\* A binder settles its slot as it was, or at the one port an exact bind tries.
LEMMA SettleSticks ==
  ASSUME IInv, NEW b \in Binders, job[b] # NoJob, NEW ow, NEW rec \in Fwd,
         slot[job[b].slot].exact => rec.exact /\ rec.host = slot[job[b].slot].host,
         Settle(job[b].slot, job[b].guest, ow, rec)
  PROVE  Sticks
<1> DEFINE s == job[b].slot
           g == job[b].guest
<1>1. s \in Slots /\ g \in Guests /\ slot \in [Slots -> Fwd] /\ slot[s].guest = g
      /\ forwards \in [Guests -> Slots \union {NoSlot}]
  BY DEF IInv, TypeOK, Jobs, JobsClaim
<1>2. \A h \in Guests : forwards[h] = s => h = g
  BY <1>1, ConstantsAssumption DEF IInv, Keyed
<1>3. \A x \in Slots : x # s => slot'[x] = slot[x]
  BY <1>1 DEF Settle
<1>4. CASE forwards[g] = s /\ ow # {}
  <2>1. slot'[s] = [rec EXCEPT !.owners = ow, !.binding = FALSE]
    BY <1>1, <1>4 DEF Settle, Settled
  <2>2. slot'[s].exact = rec.exact /\ slot'[s].host = rec.host
    BY <2>1 DEF Fwd
  <2> QED BY <1>3, <2>2, SticksIf
<1>5. CASE ~(forwards[g] = s /\ ow # {})
  <2>1. \A h \in Guests : forwards[h] = s => forwards'[h] # s
    BY <1>1, <1>2, <1>5, ConstantsAssumption DEF Settle
  <2> QED BY <1>3, <2>1, SticksIf
<1> QED BY <1>4, <1>5

\* adopt keeps an exact forward's port: its bind tried no other.
LEMMA AdoptSticks ==
  ASSUME IInv, NEW b \in Binders, job[b] # NoJob, Adopt(job[b])
  PROVE  Sticks
<1> DEFINE j == job[b]
           s == job[b].slot
           rec == IF CanAdopt(j) THEN [slot[s] EXCEPT !.host = j.at, !.closer = j.tr, !.exact = @ \/ j.exact]
                                 ELSE slot[s]
<1>1. slot[s] \in Fwd /\ j.at \in Nat /\ j.tr \in Transports /\ j.exact \in BOOLEAN
  BY DEF IInv, TypeOK, Jobs
<1>2. rec \in Fwd
  BY <1>1 DEF Fwd
<1>3. slot[s].exact => rec.exact /\ rec.host = slot[s].host
  BY <1>1 DEF IInv, ExactJobs, Fwd
<1>4. Settle(s, j.guest, slot[s].owners, rec)
  BY DEF Adopt
<1> HIDE DEF rec
<1> QED BY <1>2, <1>3, <1>4, SettleSticks

\* An add of one more owner.
LEMMA AddSticks ==
  ASSUME IInv, NEW p \in Procs, NEW s \in Slots, AddRecord(p, s) \/ AddBind(p, s)
  PROVE  Sticks
<1> DEFINE r == req[p]
<1>1. r \in Requests /\ r.guest \in Guests /\ r.exact \in BOOLEAN /\ slot \in [Slots -> Fwd] /\ slot[s] \in Fwd
  BY DEF AddRecord, AddBind, IInv, TypeOK, Requests, Binding
<1>2. /\ Target(r.guest, s) /\ Ready(r.guest)
      /\ \/ slot' = [slot EXCEPT ![s] = [Owned(r, s, r.exact) EXCEPT !.exact = @ \/ r.exact]]
         \/ slot' = [slot EXCEPT ![s] = [Owned(r, s, FALSE) EXCEPT !.binding = TRUE]]
  BY DEF AddRecord, AddBind
<1>3. \A x \in Slots : x # s => slot'[x] = slot[x]
  BY <1>1, <1>2
<1>4. CASE forwards[r.guest] = NoSlot
  <2>1. \A h \in Guests : forwards[h] # s
    BY <1>1, <1>2, <1>4, ConstantsAssumption DEF Target, FreeSlots, Mapped
  <2> QED BY <1>3, <2>1, SticksIf
<1>5. CASE forwards[r.guest] # NoSlot
  <2>1. Owned(r, s, r.exact) = [slot[s] EXCEPT !.owners = @ \union {r.own}]
        /\ Owned(r, s, FALSE) = [slot[s] EXCEPT !.owners = @ \union {r.own}]
    BY <1>5 DEF Owned
  <2>2. slot[s].exact => slot'[s].exact /\ slot'[s].host = slot[s].host
    BY <1>1, <1>2, <2>1, ZenonT(40) DEF Fwd
  <2> QED BY <1>3, <2>2, SticksIf
<1> QED BY <1>4, <1>5

\* The supervisor's steps keep exact forwards at their ports.
LEMMA SupSticks ==
  ASSUME IInv, OnDead \/ (\E from, to \in SupStates : Teardown(from, to)) \/ RebindBatch \/ RebindAbort \/ Clear
  PROVE  Sticks
<1>0. slot \in [Slots -> Fwd] /\ forwards \in [Guests -> Slots \union {NoSlot}]
  BY DEF IInv, TypeOK
<1>1. CASE OnDead
  <2>1. \A x \in Slots : x \in Released(FromRelays) => DropSlots(FromRelays)[x] = Blank
    BY DropFacts
  <2>2. DropSlots(FromRelays) \in [Slots -> Fwd]
        /\ \A x \in Slots : x \notin Released(FromRelays) =>
             /\ DropSlots(FromRelays)[x].host = slot[x].host
             /\ DropSlots(FromRelays)[x].exact = slot[x].exact
             /\ DropSlots(FromRelays)[x].closer = slot[x].closer
    BY DropFacts
  <2>3. \A s \in Slots : s \notin Mapped => DropSlots(FromRelays)[s].closer = NoTr
    BY <2>2, UnmappedBare DEF Released
  <2>4. \A s \in Slots : s \notin Released(FromRelays) => slot'[s].exact = slot[s].exact /\ slot'[s].host = slot[s].host
    BY <1>1, <2>2, <2>3, DetachedFacts DEF OnDead
  <2>5. \A s \in Slots : s \in Released(FromRelays) => \A g \in Guests : forwards[g] = s => forwards'[g] # s
    BY <1>1, ConstantsAssumption DEF OnDead, DropForwards
  <2> QED BY <2>4, <2>5, SticksIf
<1>2. CASE \E from, to \in SupStates : Teardown(from, to)
  <2>1. \A s \in Slots : slot'[s].exact = slot[s].exact /\ slot'[s].host = slot[s].host
    BY <1>0, <1>2, DetachedFacts, UnmappedBare DEF Teardown
  <2> QED BY <2>1, SticksIf
<1>3. CASE RebindBatch
  <2>1. \A s \in Slots : slot'[s].exact = slot[s].exact /\ slot'[s].host = slot[s].host
    BY <1>0, <1>3 DEF RebindBatch, Fwd
  <2> QED BY <2>1, SticksIf
<1>4. CASE RebindAbort
  <2>1. \A s \in Slots : s \notin batch => slot'[s] = slot[s]
    BY <1>4 DEF RebindAbort
  <2>2. ASSUME NEW s \in batch, NEW g \in Guests, forwards[g] = s, forwards'[g] = s
        PROVE  slot'[s].exact = slot[s].exact /\ slot'[s].host = slot[s].host
    <3>1. s \in Slots /\ slot[s] \in Fwd /\ slot[s].guest = g /\ slot[s].owners # {}
      BY <1>0, <1>4, <2>2, ConstantsAssumption DEF IInv, TypeOK, Keyed, RebindAbort
    <3>2. slot'[s] = [slot[s] EXCEPT !.owners = slot[s].owners, !.binding = FALSE]
      BY <1>4, <2>2, <3>1 DEF RebindAbort, Settled
    <3> QED BY <3>1, <3>2 DEF Fwd
  <2> QED BY <2>1, <2>2, SticksIf
<1>5. CASE Clear
  <2>1. \A g \in Guests : forwards'[g] = NoSlot
    BY <1>5 DEF Clear
  <2> QED BY <2>1 DEF Sticks
<1> QED BY <1>1, <1>2, <1>3, <1>4, <1>5

\* Every step keeps exact forwards at their ports.
LEMMA SticksStep ==
  ASSUME IInv, [Next]_vars
  PROVE  Sticks
<1> USE DEF Sticks
<1>1. ASSUME UNCHANGED <<forwards, slot>> PROVE Sticks
  BY <1>1
<1>2. CASE UNCHANGED vars
  BY <1>1, <1>2 DEF vars, tableVars
<1>3. ASSUME NEW b \in Binders, Bind(b) PROVE Sticks
  BY <1>1, <1>3 DEF Bind, BindBusy, BindOK, BindErr, tableVars
<1>4. CASE Client
  BY <1>1, <1>4, DropSticks DEF Client, OneShotAdd, SessionAdd, BridgeAdd, Start, Remove, DownDrop, Stop, ReaderEnds, OpenSession,
        tableVars
<1>5. ASSUME NEW p \in Procs, Handle(p) PROVE Sticks
  <2>1. p \in Binders
    BY DEF Binders
  <2>2. CASE BindSlotFailed(p)
    <3>1. job[p] # NoJob /\ slot[job[p].slot] \in Fwd
      BY <2>1, <2>2 DEF BindSlotFailed, IInv, TypeOK, Binding, Jobs
    <3>2. \E ow : Settle(job[p].slot, job[p].guest, ow, slot[job[p].slot])
      BY <2>2 DEF BindSlotFailed
    <3> QED BY <2>1, <3>1, <3>2, SettleSticks
  <2>3. CASE AddAdopt(p)
    <3>1. job[p] # NoJob
      BY <2>1, <2>3 DEF AddAdopt, IInv, TypeOK, Binding
    <3> QED BY <2>1, <2>3, <3>1, AdoptSticks DEF AddAdopt
  <2>4. CASE AddGone(p) \/ AddRefused(p) \/ DownCheck(p) \/ DownStop(p)
    BY <1>1, <2>4 DEF AddGone, AddRefused, DownCheck, DownStop, tableVars
  <2> QED BY <1>3, <1>5, <2>1, <2>2, <2>3, <2>4, AddSticks DEF Handle
<1>6. CASE \E c \in Conns : CloseSession(c)
  BY <1>6, DropSticks DEF CloseSession
<1>7. CASE (\E c \in closing : CloseForward(c)) \/ World
  BY <1>1, <1>7 DEF CloseForward, World, TransportDies, ForeignTakes, ForeignFrees, TTLLapses, LateArrives, tableVars
<1>8. CASE Supervise
  <2>1. Sup \in Binders
    BY DEF Binders
  <2>2. CASE RebindAdopt
    <3>1. job[Sup] # NoJob
      BY <2>1, <2>2 DEF RebindAdopt, IInv, TypeOK, Binding
    <3> QED BY <2>1, <2>2, <3>1, AdoptSticks DEF RebindAdopt
  <2>3. CASE RebindFailed
    <3>1. job[Sup] # NoJob /\ slot[job[Sup].slot] \in Fwd
      BY <2>1, <2>3 DEF RebindFailed, IInv, TypeOK, Binding, Jobs
    <3> QED BY <2>1, <2>3, <3>1, SettleSticks DEF RebindFailed
  <2>4. CASE RebindDone \/ \E s \in Slots : RebindNext(s)
    BY <1>1, <2>4 DEF RebindDone, RebindNext, tableVars
  <2>5. CASE Pass
    BY <1>3, <2>1, <2>2, <2>3, <2>4, <2>5, SupSticks DEF Pass
  <2>6. CASE \/ SeesStop \/ IdleExit \/ CloseOld \/ Dial \/ DialFails \/ DialUnmanaged
             \/ Install \/ RetryTick \/ Announce \/ Release \/ Exit
    BY <1>1, <2>6 DEF SeesStop, IdleExit, CloseOld, Dial, DialFails, DialUnmanaged, Install,
                      RetryTick, Announce, Release, Exit, tableVars
  <2>7. CASE Expire \/ \E t \in Transports : DialOK(t)
    BY <2>7, DropSticks DEF Expire, DialOK
  <2>8. CASE Teardown("teardown", "closing") \/ Teardown("exit", "release")
    BY <2>8, SupSticks DEF SupStates
  <2> QED BY <1>8, <2>5, <2>6, <2>7, <2>8, SupSticks DEF Supervise
<1> QED BY <1>2, <1>4, <1>5, <1>6, <1>7, <1>8 DEF Next, Done

\* An exact forward keeps its host port and stays exact while it exists: no
\* add, no restore and no retry moves it.
THEOREM ExactIsSticky == Spec => ExactSticks
<1>1. IInv /\ [Next]_vars => Sticks
  BY SticksStep
<1>2. Sticks => \A g \in Guests :
                  LET s == forwards[g] IN
                  s # NoSlot /\ slot[s].exact /\ forwards'[g] = s
                    => slot'[s].exact /\ slot'[s].host = slot[s].host
  BY DEF Sticks
<1> QED BY <1>1, <1>2, Inductive, PTL DEF Spec, ExactSticks

=============================================================================
