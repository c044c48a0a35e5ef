------------------------- MODULE ForwardHostProofs -------------------------
(***************************************************************************)
(* What the forward daemon leaves on the host, and what the callers it     *)
(* cannot wait for are promised: listeners on smol (BoundIsCarried,        *)
(* NoLeakedListener), relay sessions (RelayNeverPending) and the bridge's  *)
(* cap (EphemeralCap).  Each needs an invariant of its own on top of IInv. *)
(* The first two and a fourth, on the ports that are asked for, carry the  *)
(* refinement: the daemon on smol is the table of ForwardTable.            *)
(***************************************************************************)
EXTENDS ForwardDaemonProofs, FiniteSetTheorems

-----------------------------------------------------------------------------
(* Listeners, on smol. *)

\* What a bind that succeeded opened: tr.forward's listener.
Opened(b) == [tr |-> job[b].tr, host |-> job[b].at, guest |-> job[b].guest]

\* The listeners the forwards hold.
Listening == {CloserOf(s) : s \in {x \in Slots : slot[x].closer # NoTr}}

\* A transport is open while it is d.tr or in the supervisor's hands, and the
\* supervisor has one only while it closes it or is about to install it.
TransportsHeld ==
  /\ \A t \in Transports : trs[t] # "closed" => t = tr \/ t = old
  /\ tr # NoTr => trs[tr] # "closed"
  /\ old # NoTr => sup \in {"closing", "install", "release"}
  /\ sup = "install" => /\ trs[old] # "closed"
                        /\ \A b \in Binders : job[b] # NoJob => job[b].tr # old
                        /\ \A c \in carried : c.tr # old

\* Every listener belongs to an open transport and to somebody who will close
\* it; a forward, a binder and the closers still to run never share one.
ListenersHeld ==
  /\ \A c \in carried : trs[c.tr] # "closed"
  /\ \A c \in carried : \/ c \in closing \/ c.tr = old \/ c \in Listening
                        \/ \E b \in Binders : pc[b] = "bound" /\ c = Opened(b)
  /\ Listening \subseteq carried \ closing
  /\ \A c \in closing : trs[c.tr] # "closed" => c \in carried
  /\ \A b \in Binders : pc[b] = "bound" /\ trs[job[b].tr] # "closed" =>
       /\ Opened(b) \in carried /\ Opened(b) \notin closing /\ Opened(b) \notin Listening
       /\ \A x \in Binders : pc[x] = "bound" /\ Opened(x) = Opened(b) => x = b

HInv == IInv /\ TransportsHeld /\ ListenersHeld

-----------------------------------------------------------------------------
(* Relay sessions. *)

\* Nothing can be bound: no transport, or a dead one loop has not noticed yet.
NoLink == tr = NoTr \/ trs[tr] # "live"

\* A relay's own add is at it, on the current transport.
AddingFor(c, s) == \E p \in Procs : /\ job[p] # NoJob /\ job[p].slot = s /\ job[p].tr = tr
                                    /\ job[p].added /\ req[p].own = c

\* A relay is registered while the daemon is up and in no outage, and one of
\* its forwards is unbound only on a dead link or while its own add binds it.
RelaysServed ==
  /\ state = "up" => sup \in {"loop", "retry", "expire", "exit", "release", "clear", "late", "exited"}
  /\ Relays # {} => state = "up"
  /\ \A c \in Conns : conn[c] = "new" => c \notin sessions
  /\ \A c \in Relays, s \in Mapped :
       c \in slot[s].owners /\ slot[s].closer = NoTr => NoLink \/ AddingFor(c, s)

RInv == IInv /\ RelaysServed

-----------------------------------------------------------------------------
(* The bridge's cap. *)

\* Whoever the bridge adds for: ttl, or a connection that is no relay.
BridgeOwner(o) == o = TTL \/ (o \in Conns /\ conn[o] # "new" /\ ~relay[o])

BridgeOnly ==
  /\ \A c \in Conns : conn[c] = "new" => c \notin sessions
  /\ \A p \in Procs : req[p] # NoReq => req[p].via = "bridge" /\ BridgeOwner(req[p].own)
  /\ \A s \in Mapped : \A o \in slot[s].owners : BridgeOwner(o)
  /\ IsFiniteSet({s \in Mapped : BridgeHeld(s)})
  /\ Cardinality({s \in Mapped : BridgeHeld(s)}) <= MaxEphemeral

CInv == IInv /\ BridgeOnly

-----------------------------------------------------------------------------
(* Listeners change hands. *)

\* The binds that succeeded are still at it.
BindsKept == \A b \in Binders : /\ pc'[b] = "bound" <=> pc[b] = "bound"
                                /\ pc[b] = "bound" => job'[b] = job[b]

\* No forward gained, lost or changed its listener.
LEMMA ListeningKept ==
  ASSUME \A s \in Slots : /\ slot'[s].closer = slot[s].closer
                          /\ slot[s].closer # NoTr => slot'[s].host = slot[s].host /\ slot'[s].guest = slot[s].guest
  PROVE  Listening' = Listening
BY DEF Listening, CloserOf

\* The forwards hold one listener each, of the current transport.
LEMMA OneListenerEach ==
  ASSUME IInv, NEW s \in Slots, slot[s].closer # NoTr
  PROVE  /\ CloserOf(s).tr = tr
         /\ \A x \in Slots : slot[x].closer # NoTr /\ CloserOf(x) = CloserOf(s) => x = s
BY DEF IInv, ClosersMapped, CloserOf

\* Dropping owners moves the released forwards' listeners to the closers to run.
LEMMA DropListeners ==
  ASSUME IInv, NEW del, DropOwners(del)
  PROVE  /\ DropClosers(del) \subseteq Listening
         /\ Listening' = Listening \ DropClosers(del)
         /\ closing' = closing \union DropClosers(del)
<1>1. /\ slot' = DropSlots(del)
      /\ \A x \in Slots : x \in Released(del) => slot'[x].closer = NoTr
      /\ \A x \in Slots : x \notin Released(del) =>
           slot'[x].guest = slot[x].guest /\ slot'[x].host = slot[x].host /\ slot'[x].closer = slot[x].closer
  BY DropFacts DEF DropOwners, Blank
<1>2. Released(del) \subseteq Slots
  BY ConstantsAssumption DEF Released, Mapped, IInv, TypeOK
<1>3. DropClosers(del) \subseteq Listening
  BY <1>2 DEF DropClosers, Listening
<1>4. ASSUME NEW c \in Listening', c \notin Listening \ DropClosers(del) PROVE FALSE
  <2>1. PICK x \in Slots : slot'[x].closer # NoTr /\ c = [tr |-> slot'[x].closer, host |-> slot'[x].host, guest |-> slot'[x].guest]
    BY <1>4 DEF Listening, CloserOf
  <2>2. x \notin Released(del) /\ slot[x].closer # NoTr /\ c = CloserOf(x)
    BY <1>1, <2>1 DEF CloserOf
  <2>3. c \in Listening
    BY <2>2 DEF Listening
  <2>4. PICK y \in Released(del) : slot[y].closer # NoTr /\ c = CloserOf(y)
    BY <1>4, <2>3 DEF DropClosers
  <2>5. y = x
    BY <1>2, <2>2, <2>4, OneListenerEach
  <2> QED BY <2>2, <2>4, <2>5
<1>5. ASSUME NEW c \in Listening \ DropClosers(del) PROVE c \in Listening'
  <2>1. PICK x \in Slots : slot[x].closer # NoTr /\ c = CloserOf(x)
    BY <1>5 DEF Listening
  <2>2. x \notin Released(del)
    BY <1>5, <2>1 DEF DropClosers
  <2>3. slot'[x].closer # NoTr /\ c = [tr |-> slot'[x].closer, host |-> slot'[x].host, guest |-> slot'[x].guest]
    BY <1>1, <2>1, <2>2 DEF CloserOf
  <2> QED BY <2>3 DEF Listening, CloserOf
<1> QED BY <1>3, <1>4, <1>5 DEF DropOwners

\* Forwards give up listeners X to their closers, or nothing moves at all.
LEMMA ListenersMove ==
  ASSUME ListenersHeld, BindsKept, NEW X \in SUBSET Listening,
         Listening' = Listening \ X, closing' = closing \union X,
         UNCHANGED <<old, carried>>,
         \A t \in Transports : trs'[t] # "closed" => \/ trs[t] # "closed"
                                                     \/ /\ \A c \in closing \union carried : c.tr # t
                                                        /\ \A b \in Binders : job[b] # NoJob => job[b].tr # t,
         \A t \in Transports : trs[t] # "closed" => trs'[t] # "closed",
         IInv
  PROVE  ListenersHeld'
<1>1. /\ \A b \in Binders : pc'[b] = "bound" => /\ pc[b] = "bound" /\ job'[b] = job[b]
                                                /\ job[b].tr \in Transports /\ job[b] # NoJob
      /\ \A b \in Binders : pc[b] = "bound" => pc'[b] = "bound" /\ job'[b] = job[b]
  BY DEF BindsKept, IInv, TypeOK, Binding, Jobs
<1>2. carried \subseteq Closers /\ closing \subseteq Closers /\ Listening \subseteq Closers
  BY DEF IInv, TypeOK, ListenersHeld
<1>3. \A c \in carried' : trs'[c.tr] # "closed"
  BY <1>2 DEF ListenersHeld, Closers
<1>4. ASSUME NEW c \in carried'
      PROVE  \/ c \in closing' \/ c.tr = old' \/ c \in Listening'
             \/ \E b \in Binders : pc'[b] = "bound" /\ c = Opened(b)'
  BY <1>1, <1>4 DEF ListenersHeld, Opened
<1>5. Listening' \subseteq carried' \ closing'
  BY DEF ListenersHeld
<1>6. ASSUME NEW c \in closing', trs'[c.tr] # "closed" PROVE c \in carried'
  BY <1>2, <1>6 DEF ListenersHeld, Closers
<1>7. ASSUME NEW b \in Binders, pc'[b] = "bound", trs'[job'[b].tr] # "closed"
      PROVE  /\ Opened(b)' \in carried' /\ Opened(b)' \notin closing' /\ Opened(b)' \notin Listening'
             /\ \A x \in Binders : pc'[x] = "bound" /\ Opened(x)' = Opened(b)' => x = b
  <2>1. pc[b] = "bound" /\ trs[job[b].tr] # "closed" /\ Opened(b)' = Opened(b)
    BY <1>1, <1>7 DEF Opened
  <2>2. \A x \in Binders : pc'[x] = "bound" => pc[x] = "bound" /\ Opened(x)' = Opened(x)
    BY <1>1 DEF Opened
  <2> QED BY <2>1, <2>2 DEF ListenersHeld
<1> QED BY <1>3, <1>4, <1>5, <1>6, <1>7 DEF ListenersHeld

\* A bind that succeeded is over: the forward keeps the listener, or its closer will run.
LEMMA ListenerSettles ==
  ASSUME IInv, ListenersHeld, NEW b \in Binders, pc[b] = "bound", pc'[b] # "bound",
         \A x \in Binders \ {b} : pc'[x] = pc[x] /\ job'[x] = job[x],
         \/ Listening' = Listening \union {Opened(b)} /\ closing' = closing /\ trs[job[b].tr] # "closed"
         \/ Listening' = Listening /\ closing' = closing \union {Opened(b)},
         UNCHANGED <<old, trs, carried>>
  PROVE  ListenersHeld'
<1>1. \A x \in Binders : pc'[x] = "bound" => x # b /\ pc[x] = "bound" /\ Opened(x)' = Opened(x) /\ job'[x] = job[x]
  BY DEF Opened
<1>2. \A x \in Binders : pc[x] = "bound" /\ x # b => pc'[x] = "bound" /\ Opened(x)' = Opened(x)
  BY DEF Opened
<1>3. \A x \in Binders : Opened(x).tr = job[x].tr
  BY DEF Opened
<1>4. ASSUME NEW c \in carried'
      PROVE  \/ c \in closing' \/ c.tr = old' \/ c \in Listening'
             \/ \E x \in Binders : pc'[x] = "bound" /\ c = Opened(x)'
  BY <1>2, <1>4 DEF ListenersHeld
<1>5. Listening' \subseteq carried' \ closing'
  BY <1>3 DEF ListenersHeld
<1>6. \A c \in closing' : trs'[c.tr] # "closed" => c \in carried'
  BY <1>3 DEF ListenersHeld
<1>7. ASSUME NEW x \in Binders, pc'[x] = "bound", trs'[job'[x].tr] # "closed"
      PROVE  /\ Opened(x)' \in carried' /\ Opened(x)' \notin closing' /\ Opened(x)' \notin Listening'
             /\ \A y \in Binders : pc'[y] = "bound" /\ Opened(y)' = Opened(x)' => y = x
  <2>1. x # b /\ pc[x] = "bound" /\ Opened(x)' = Opened(x) /\ trs[job[x].tr] # "closed"
    BY <1>1, <1>7
  <2>2. Opened(b) # Opened(x)
    BY <2>1 DEF ListenersHeld
  <2> QED BY <1>1, <2>1, <2>2 DEF ListenersHeld
<1>8. \A c \in carried' : trs'[c.tr] # "closed"
  BY DEF ListenersHeld
<1> QED BY <1>4, <1>5, <1>6, <1>7, <1>8 DEF ListenersHeld

-----------------------------------------------------------------------------
(* Steps that leave the listeners where they are. *)

\* The supervisor starts no install and drops no transport it still holds.
SupKeeps == sup' = sup \/ (sup \notin {"closing", "install", "release"} /\ sup' # "install")

\* No bind starts on the transport about to be installed.
JobsKeep == sup = "install" =>
              \A b \in Binders : job'[b] # NoJob => job[b] # NoJob /\ job'[b].tr = job[b].tr

(* A transport's ports go with the transport. *)
LEMMA TransportsKept ==
  ASSUME TransportsHeld, UNCHANGED <<tr, old, trs>>, SupKeeps, JobsKeep,
         \A c \in carried' : c \in carried \/ \E b \in Binders : job[b] # NoJob /\ c.tr = job[b].tr
  PROVE  TransportsHeld'
BY DEF TransportsHeld, SupKeeps, JobsKeep

(* The host's ports go with the table, the closers and the transports. *)
LEMMA HostFrame ==
  ASSUME HInv, UNCHANGED <<tr, old, trs, carried, closing>>, SupKeeps, JobsKeep, BindsKept,
         Listening' = Listening
  PROVE  TransportsHeld' /\ ListenersHeld'
<1>1. TransportsHeld'
  BY TransportsKept DEF HInv
<1>2. {} \in SUBSET Listening /\ Listening' = Listening \ {} /\ closing' = closing \union {}
  OBVIOUS
<1>3. ListenersHeld'
  BY <1>2, ListenersMove DEF HInv
<1> QED BY <1>1, <1>3

\* Requests that only arrive, sessions, the world outside, and the supervisor's own moves.
LEMMA HostQuiet ==
  ASSUME HInv,
         \/ \E p \in Procs, r \in Requests : Start(p, r)
         \/ Stop \/ (\E c \in Conns : ReaderEnds(c) \/ \E r \in BOOLEAN : OpenSession(c, r))
         \/ \E p \in Procs : AddGone(p) \/ AddRefused(p) \/ DownCheck(p) \/ DownStop(p)
         \/ \E b \in Binders : BindBusy(b) \/ BindErr(b)
         \/ (\E p \in ForeignPorts : ForeignTakes(p) \/ ForeignFrees(p))
         \/ (\E s \in Slots : TTLLapses(s)) \/ LateArrives
         \/ SeesStop \/ IdleExit \/ Dial \/ DialFails \/ DialUnmanaged \/ RetryTick \/ Announce \/ Exit
         \/ RebindDone \/ (\E s \in Slots : RebindNext(s))
         \/ UNCHANGED vars
  PROVE  TransportsHeld' /\ ListenersHeld'
<1> USE DEF tableVars, sessVars, procVars, passVars, supVars, hostVars
<1>0. /\ Procs \subseteq Binders /\ Sup \in Binders /\ job \in [Binders -> Jobs \union {NoJob}]
      /\ pc \in [Binders -> {"idle", "req", "downCheck", "downStop"} \union Binding]
      /\ \A b \in Binders : job[b] # NoJob <=> pc[b] \in Binding
  BY DEF Binders, HInv, IInv, TypeOK
<1>1. UNCHANGED <<tr, old, trs, carried, closing, slot>>
  BY DEF Start, Stop, ReaderEnds, OpenSession, AddGone, AddRefused, DownCheck, DownStop, BindBusy, BindErr,
         ForeignTakes, ForeignFrees, TTLLapses, LateArrives, SeesStop, IdleExit, Dial, DialFails, DialUnmanaged,
         RetryTick, Announce, Exit, RebindDone, RebindNext, vars
<1>2. SupKeeps
  BY DEF SupKeeps, Start, Stop, ReaderEnds, OpenSession, AddGone, AddRefused, DownCheck, DownStop, BindBusy, BindErr,
         ForeignTakes, ForeignFrees, TTLLapses, LateArrives, SeesStop, IdleExit, Dial, DialFails, DialUnmanaged,
         RetryTick, Announce, Exit, RebindDone, RebindNext, vars, PassReady
<1>3. BindsKept /\ JobsKeep
  <2>1. CASE \E p \in Procs, r \in Requests : Start(p, r)
    BY <1>0, <2>1 DEF Start, BindsKept, JobsKeep
  <2>2. CASE \E p \in Procs : AddGone(p) \/ AddRefused(p) \/ DownCheck(p) \/ DownStop(p)
    BY <1>0, <2>2 DEF AddGone, AddRefused, DownCheck, DownStop, Finish, BindsKept, JobsKeep
  <2>3. ASSUME NEW b \in Binders, BindBusy(b) PROVE BindsKept /\ JobsKeep
    <3>1. job[b] \in Jobs /\ pc[b] = "try"
      BY <1>0, <2>3 DEF BindBusy, Binding
    <3>2. /\ \A x \in Binders : x # b => pc'[x] = pc[x] /\ job'[x] = job[x]
          /\ pc'[b] # "bound" /\ job[b] # NoJob /\ job'[b].tr = job[b].tr
      BY <1>0, <2>3, <3>1 DEF BindBusy, Jobs, Binding
    <3> QED BY <3>1, <3>2 DEF BindsKept, JobsKeep
  <2>4. CASE \E b \in Binders : BindErr(b)
    BY <1>0, <2>4 DEF BindErr, BindsKept, JobsKeep
  <2>5. CASE \E s \in Slots : RebindNext(s)
    BY <1>0, <2>5 DEF RebindNext, BindsKept, JobsKeep
  <2>6. ASSUME UNCHANGED <<pc, job>> PROVE BindsKept /\ JobsKeep
    BY <2>6 DEF BindsKept, JobsKeep
  <2> QED BY <2>1, <2>2, <2>3, <2>4, <2>5, <2>6
          DEF Stop, ReaderEnds, OpenSession, ForeignTakes, ForeignFrees, TTLLapses, LateArrives, SeesStop, IdleExit,
              Dial, DialFails, DialUnmanaged, RetryTick, Announce, Exit, RebindDone, vars
<1>4. Listening' = Listening
  BY <1>1 DEF Listening, CloserOf
<1> QED BY <1>1, <1>2, <1>3, <1>4, HostFrame

\* An add records its owner on a cell without touching its listener.
LEMMA HostAdds ==
  ASSUME HInv, NEW p \in Procs, NEW s \in Slots, AddRecord(p, s) \/ AddBind(p, s)
  PROVE  TransportsHeld' /\ ListenersHeld'
<1> USE ConstantsAssumption DEF sessVars, passVars, supVars, hostVars
<1> DEFINE r == req[p]
<1>1. /\ r \in Requests /\ r.guest \in Guests /\ r.exact \in BOOLEAN /\ p \in Binders /\ Procs \subseteq Binders
      /\ job \in [Binders -> Jobs \union {NoJob}] /\ slot \in [Slots -> Fwd]
      /\ pc \in [Binders -> {"idle", "req", "downCheck", "downStop"} \union Binding]
  BY DEF AddRecord, AddBind, HInv, IInv, TypeOK, Binders, Requests, Binding
<1>2. UNCHANGED <<tr, old, trs, carried, closing, sup>> /\ SupKeeps /\ pc[p] = "req" /\ pc'[p] \in {"idle", "try"}
  BY <1>1 DEF AddRecord, AddBind, Finish, SupKeeps
<1>3. BindsKept /\ JobsKeep
  <2>1. AddBind(p, s) => sup # "install"
    BY DEF AddBind, RecordOnly, HInv, IInv, SupOK
  <2>2. AddRecord(p, s) => job' = [job EXCEPT ![p] = NoJob]
    BY DEF AddRecord, Finish
  <2>3. \A b \in Binders : b # p => pc'[b] = pc[b] /\ job'[b] = job[b]
    BY <1>1 DEF AddRecord, AddBind, Finish
  <2> QED BY <1>1, <1>2, <2>1, <2>2, <2>3 DEF BindsKept, JobsKeep
<1>4. Listening' = Listening
  <2>1. \E exact \in BOOLEAN :
          /\ slot'[s].closer = Owned(r, s, exact).closer
          /\ slot'[s].host = Owned(r, s, exact).host /\ slot'[s].guest = Owned(r, s, exact).guest
          /\ Owned(r, s, exact) \in Fwd
    <3>1. Target(r.guest, s)
      BY DEF AddRecord, AddBind
    <3>2. \A exact \in BOOLEAN : Owned(r, s, exact) \in Fwd
      BY <1>1, <3>1, OwnedFacts DEF OwnedBy, HInv
    <3>3. \/ slot'[s] = [Owned(r, s, r.exact) EXCEPT !.exact = @ \/ r.exact]
          \/ slot'[s] = [Owned(r, s, FALSE) EXCEPT !.binding = TRUE]
      BY <1>1 DEF AddRecord, AddBind
    <3>4. Owned(r, s, r.exact) \in Fwd /\ Owned(r, s, FALSE) \in Fwd
      BY <1>1, <3>2
    <3>5. CASE slot'[s] = [Owned(r, s, r.exact) EXCEPT !.exact = @ \/ r.exact]
      BY <1>1, <3>4, <3>5 DEF Fwd
    <3>6. CASE slot'[s] = [Owned(r, s, FALSE) EXCEPT !.binding = TRUE]
      BY <3>4, <3>6 DEF Fwd
    <3> QED BY <3>3, <3>5, <3>6
  <2>2. \A x \in Slots : x # s => slot'[x] = slot[x]
    BY <1>1 DEF AddRecord, AddBind
  <2>3. CASE forwards[r.guest] = NoSlot
    <3>1. s \notin Mapped
      BY <2>3 DEF AddRecord, AddBind, Target, FreeSlots
    <3>2. slot[s].closer = NoTr /\ slot'[s].closer = NoTr
      BY <2>1, <2>3, <3>1, UnmappedBare DEF Owned, HInv
    <3> QED BY <2>2, <3>2, ListeningKept
  <2>4. CASE forwards[r.guest] # NoSlot
    <3>1. \A exact \in BOOLEAN : /\ Owned(r, s, exact).closer = slot[s].closer
                                 /\ Owned(r, s, exact).host = slot[s].host /\ Owned(r, s, exact).guest = slot[s].guest
      BY <1>1, <2>4 DEF Owned, Fwd
    <3> QED BY <2>1, <2>2, <3>1, ListeningKept
  <2> QED BY <2>3, <2>4
<1> QED BY <1>2, <1>3, <1>4, HostFrame

\* A binder that lets go without a listener leaves the others theirs.
LEMMA SettleListening ==
  ASSUME IInv, NEW b \in Binders, job[b] # NoJob, NEW ow,
         Settle(job[b].slot, job[b].guest, ow, slot[job[b].slot])
  PROVE  Listening' = Listening
<1>1. job[b].slot \in Slots /\ slot[job[b].slot] \in Fwd /\ slot[job[b].slot].closer = NoTr /\ slot \in [Slots -> Fwd]
  BY DEF IInv, TypeOK, Jobs, JobsClaim, ClaimsHeld
<1>2. slot'[job[b].slot].closer = NoTr /\ \A x \in Slots : x # job[b].slot => slot'[x] = slot[x]
  BY <1>1 DEF Settle, Settled, Blank, Fwd
<1> QED BY <1>1, <1>2, ListeningKept

\* A bind that failed, for an add or for the pass, and the pass's own bookkeeping.
LEMMA HostFailures ==
  ASSUME HInv, (\E p \in Procs : BindSlotFailed(p)) \/ RebindFailed \/ RebindBatch \/ RebindAbort \/ Clear
  PROVE  TransportsHeld' /\ ListenersHeld'
<1> USE ConstantsAssumption DEF sessVars, procVars, passVars, supVars, hostVars
<1>0. /\ Procs \subseteq Binders /\ Sup \in Binders /\ job \in [Binders -> Jobs \union {NoJob}]
      /\ pc \in [Binders -> {"idle", "req", "downCheck", "downStop"} \union Binding]
      /\ slot \in [Slots -> Fwd]
  BY DEF Binders, HInv, IInv, TypeOK
<1>1. UNCHANGED <<tr, old, trs, carried, closing>> /\ SupKeeps
  BY DEF BindSlotFailed, RebindFailed, RebindBatch, RebindAbort, Clear, SupKeeps, FailsFast
<1>2. ASSUME NEW p \in Procs, BindSlotFailed(p) PROVE BindsKept /\ JobsKeep /\ Listening' = Listening
  <2>1. job[p] # NoJob /\ pc[p] # "bound"
    BY <1>0, <1>2 DEF BindSlotFailed, HInv, IInv, TypeOK, Binding
  <2>2. Listening' = Listening
    BY <1>0, <1>2, <2>1, SettleListening DEF BindSlotFailed, HInv
  <2> QED BY <1>0, <1>2, <2>1, <2>2 DEF BindSlotFailed, Finish, BindsKept, JobsKeep
<1>3. ASSUME RebindFailed PROVE BindsKept /\ JobsKeep /\ Listening' = Listening
  <2>1. job[Sup] # NoJob /\ pc[Sup] # "bound"
    BY <1>0, <1>3 DEF RebindFailed, HInv, IInv, TypeOK, Binding
  <2>2. Listening' = Listening
    BY <1>0, <1>3, <2>1, SettleListening DEF RebindFailed, HInv
  <2> QED BY <1>0, <1>3, <2>1, <2>2 DEF RebindFailed, NextJob, BindsKept, JobsKeep
<1>4. ASSUME RebindBatch \/ RebindAbort \/ Clear PROVE BindsKept /\ JobsKeep
  BY <1>4 DEF RebindBatch, RebindAbort, Clear, BindsKept, JobsKeep
<1>5. ASSUME RebindBatch PROVE Listening' = Listening
  <2>1. \A x \in Slots : slot'[x].closer = slot[x].closer /\ slot'[x].host = slot[x].host /\ slot'[x].guest = slot[x].guest
    BY <1>0, <1>5 DEF RebindBatch, Fwd
  <2> QED BY <2>1, ListeningKept
<1>6. ASSUME RebindAbort PROVE Listening' = Listening
  <2>1. \A x \in batch : x \in Slots /\ slot[x].closer = NoTr /\ slot[x] \in Fwd
    BY <1>0 DEF HInv, IInv, TypeOK, ClaimsHeld
  <2>2. \A x \in Slots : x \notin batch => slot'[x] = slot[x]
    BY <1>6 DEF RebindAbort
  <2>3. \A x \in batch : slot'[x].closer = NoTr
    BY <1>6, <2>1 DEF RebindAbort, Settled, Blank, Fwd
  <2> QED BY <2>1, <2>2, <2>3, ListeningKept
<1>7. ASSUME Clear PROVE Listening' = Listening
  <2>1. \A x \in Slots : slot[x].closer = NoTr
    BY <1>7 DEF Clear, HInv, IInv, SupOK, ClosersMapped
  <2>2. \A x \in Slots : slot'[x].closer = NoTr
    BY <1>7, <2>1 DEF Clear, Blank
  <2> QED BY <2>1, <2>2, ListeningKept
<1> QED BY <1>1, <1>2, <1>3, <1>4, <1>5, <1>6, <1>7, HostFrame

-----------------------------------------------------------------------------
(* Steps that move a listener. *)

\* Dropping owners: remove, down, a closed session, an expired ttl.
LEMMA HostDrops ==
  ASSUME HInv, NEW del, DropOwners(del), UNCHANGED <<tr, carried, job>>,
         \A b \in Binders : pc'[b] = "bound" <=> pc[b] = "bound",
         \/ UNCHANGED <<old, trs>> /\ SupKeeps
         \/ \E t \in Transports : /\ Fresh(t) /\ trs' = [trs EXCEPT ![t] = "live"] /\ old' = t
                                  /\ sup = "dialing" /\ sup' = "install"
  PROVE  TransportsHeld' /\ ListenersHeld'
<1>1. /\ DropClosers(del) \in SUBSET Listening
      /\ Listening' = Listening \ DropClosers(del) /\ closing' = closing \union DropClosers(del)
  BY DropListeners DEF HInv
<1>2. BindsKept
  BY DEF BindsKept
<1>3. /\ carried \subseteq Closers /\ trs \in [Transports -> {"live", "dead", "closed"}]
      /\ tr \in Transports \union {NoTr}
  BY DEF HInv, IInv, TypeOK
<1>4. CASE UNCHANGED <<old, trs>> /\ SupKeeps
  <2>1. TransportsHeld'
    BY <1>4, TransportsKept DEF HInv, JobsKeep
  <2> QED BY <1>1, <1>2, <1>4, <2>1, ListenersMove DEF HInv
<1>5. ASSUME NEW t \in Transports, Fresh(t), trs' = [trs EXCEPT ![t] = "live"], old' = t,
             sup = "dialing", sup' = "install"
      PROVE  TransportsHeld' /\ ListenersHeld'
  <2>1. tr = NoTr /\ old = NoTr
    BY <1>5 DEF HInv, IInv, SupOK, TransportsHeld
  <2>2. \A x \in Transports : trs[x] = "closed"
    BY <2>1, ConstantsAssumption DEF HInv, TransportsHeld
  <2>3. carried = {}
    BY <1>3, <2>2 DEF HInv, ListenersHeld, Closers
  <2>4. TransportsHeld'
    BY <1>3, <1>5, <2>1, <2>2, <2>3, ConstantsAssumption DEF TransportsHeld, Fresh
  <2>5. Listening = {} /\ Listening' = {}
    BY <1>1, <2>3 DEF HInv, ListenersHeld
  <2>6. closing' = closing
    BY <1>1, <2>5
  <2>7. ASSUME NEW b \in Binders, pc'[b] = "bound" PROVE trs'[job'[b].tr] = "closed"
    <3>1. job[b] # NoJob /\ job[b].tr # t /\ job[b].tr \in Transports
      BY <1>5, <2>7 DEF Fresh, HInv, IInv, TypeOK, Binding, Jobs
    <3> QED BY <1>3, <1>5, <2>2, <3>1
  <2>8. \A c \in closing : c.tr # t /\ c.tr \in Transports
    BY <1>5 DEF Fresh, HInv, IInv, TypeOK, Closers
  <2>9. \A c \in closing' : trs'[c.tr] = "closed"
    BY <1>3, <1>5, <2>2, <2>6, <2>8
  <2> QED BY <2>3, <2>4, <2>5, <2>7, <2>9 DEF ListenersHeld
<1> QED BY <1>4, <1>5

\* Taking the transport away from the forwards: its Close will take their listeners.
LEMMA HostDetaches ==
  ASSUME HInv, OnDead \/ Teardown("teardown", "closing") \/ Teardown("exit", "release")
  PROVE  TransportsHeld' /\ ListenersHeld'
<1> USE ConstantsAssumption DEF sessVars, procVars, passVars, hostVars
<1>1. /\ old' = tr /\ tr' = NoTr /\ UNCHANGED <<trs, pc, job, carried, closing>>
      /\ sup \in {"loop", "teardown", "exit"} /\ sup' \in {"closing", "release"}
  BY DEF OnDead, Teardown
<1>2. \A s \in Slots : slot'[s].closer = NoTr
  <2>1. IInv' /\ tr' = NoTr
    BY <1>1, OnDeadStep, TeardownStep DEF HInv
  <2> QED BY <2>1 DEF IInv, ClosersMapped
<1>3. Listening' = {}
  BY <1>2 DEF Listening
<1>4. old = NoTr
  BY <1>1 DEF HInv, TransportsHeld
<1>5. TransportsHeld'
  BY <1>1, <1>4 DEF HInv, TransportsHeld
<1>6. \A c \in Listening : c.tr = tr
  BY OneListenerEach DEF HInv, Listening
<1>7. \A c \in carried : c.tr # NoTr
  BY DEF HInv, IInv, TypeOK, Closers
<1>8. ASSUME NEW c \in carried'
      PROVE  \/ c \in closing' \/ c.tr = old' \/ c \in Listening'
             \/ \E b \in Binders : pc'[b] = "bound" /\ c = Opened(b)'
  BY <1>1, <1>4, <1>6, <1>7 DEF HInv, ListenersHeld, Opened
<1>9. ListenersHeld'
  BY <1>1, <1>3, <1>8 DEF HInv, ListenersHeld, Opened
<1> QED BY <1>5, <1>9

\* A bind succeeds: the listener is new, since its port was free.
LEMMA HostBinds ==
  ASSUME HInv, Kind = "smol", NEW b \in Binders, BindOK(b)
  PROVE  TransportsHeld' /\ ListenersHeld'
<1> USE DEF BindOK, tableVars, sessVars, passVars, supVars
<1>1. /\ job[b] # NoJob /\ job[b].tr \in Transports /\ trs[job[b].tr] # "closed"
      /\ carried' = carried \union {Opened(b)} /\ Opened(b) \notin carried
      /\ Opened(b).tr = job[b].tr
  BY DEF HInv, IInv, TypeOK, Binding, Jobs, Carrier, Busy, Opened
<1>2. /\ UNCHANGED <<tr, old, trs, sup, slot, job, closing>> /\ pc[b] = "try" /\ pc'[b] = "bound"
      /\ \A x \in Binders : x # b => pc'[x] = pc[x]
      /\ \A x \in Binders : Opened(x)' = Opened(x)
  BY DEF HInv, IInv, TypeOK, Opened
<1>3. TransportsHeld'
  BY <1>1, <1>2, TransportsKept DEF HInv, SupKeeps, JobsKeep
<1>4. Listening' = Listening /\ Opened(b) \notin Listening /\ Opened(b) \notin closing
  BY <1>1, <1>2 DEF HInv, ListenersHeld, Listening, CloserOf
<1>5. ASSUME NEW x \in Binders, pc'[x] = "bound", trs'[job'[x].tr] # "closed"
      PROVE  /\ Opened(x)' \in carried' /\ Opened(x)' \notin closing' /\ Opened(x)' \notin Listening'
             /\ \A y \in Binders : pc'[y] = "bound" /\ Opened(y)' = Opened(x)' => y = x
  <2>1. \A y \in Binders : y # b /\ pc[y] = "bound" /\ trs[job[y].tr] # "closed" => Opened(y) # Opened(b)
    BY <1>1 DEF HInv, ListenersHeld
  <2>2. \A y \in Binders : Opened(y) = Opened(b) => trs[job[y].tr] # "closed"
    BY <1>1 DEF Opened
  <2> QED BY <1>1, <1>2, <1>4, <1>5, <2>1, <2>2 DEF HInv, ListenersHeld
<1>6. ListenersHeld'
  BY <1>1, <1>2, <1>4, <1>5 DEF HInv, ListenersHeld
<1> QED BY <1>3, <1>6

\* A closer runs: it was the only one with that listener.
LEMMA HostCloses ==
  ASSUME HInv, Kind = "smol", NEW c \in closing, CloseForward(c)
  PROVE  TransportsHeld' /\ ListenersHeld'
<1> USE DEF CloseForward, Uncarry, tableVars, sessVars, procVars, passVars, supVars
<1>1. TransportsHeld'
  BY TransportsKept DEF HInv, SupKeeps, JobsKeep
<1>2. /\ Listening' = Listening /\ \A x \in Binders : Opened(x)' = Opened(x)
      /\ carried' = carried \ {c} /\ closing' = closing \ {c} /\ UNCHANGED <<tr, old, trs, pc, job>>
  BY DEF Listening, CloserOf, Opened
<1>3. ListenersHeld'
  BY <1>2 DEF HInv, ListenersHeld
<1> QED BY <1>1, <1>3

\* The transport's death leaves its listeners to its Close.
LEMMA HostDies ==
  ASSUME HInv, Kind = "smol", NEW t \in Transports, TransportDies(t)
  PROVE  TransportsHeld' /\ ListenersHeld'
<1> USE DEF TransportDies, tableVars, sessVars, procVars, passVars, supVars
<1>1. \A x \in Transports \union {NoTr} : x \in Transports => (trs'[x] = "closed" <=> trs[x] = "closed")
  BY DEF HInv, IInv, TypeOK
<1>2. /\ UNCHANGED <<tr, old, sup, slot, pc, job, carried, closing>> /\ Listening' = Listening
      /\ {} \in SUBSET Listening /\ Listening' = Listening \ {} /\ closing' = closing \union {}
  BY DEF Listening, CloserOf
<1>3. tr \in Transports \union {NoTr} /\ old \in Transports \union {NoTr} /\ (sup = "install" => old # NoTr)
  BY DEF HInv, IInv, TypeOK, SupOK
<1>4. TransportsHeld'
  BY <1>1, <1>2, <1>3 DEF HInv, TransportsHeld
<1>5. ListenersHeld'
  BY <1>1, <1>2, ListenersMove DEF HInv, BindsKept
<1> QED BY <1>4, <1>5

\* Close takes the transport's listeners with it.
LEMMA HostReleases ==
  ASSUME HInv, CloseOld \/ Release
  PROVE  TransportsHeld' /\ ListenersHeld'
<1> USE ConstantsAssumption DEF CloseOld, Release, CloseTransport, tableVars, sessVars, procVars, passVars
<1>1. /\ trs' = [t \in Transports |-> IF t = old THEN "closed" ELSE trs[t]]
      /\ carried' = {c \in carried : c.tr # old} /\ old' = NoTr
      /\ sup' \in {"wait", "clear"} /\ tr = NoTr
      /\ UNCHANGED <<tr, slot, pc, job, closing>>
  BY DEF HInv, IInv, SupOK
<1>2. Listening' = {} /\ Listening = {}
  <2>1. \A s \in Slots : slot[s].closer = NoTr
    BY <1>1 DEF HInv, IInv, ClosersMapped
  <2> QED BY <1>1, <2>1 DEF Listening
<1>3. TransportsHeld'
  BY <1>1 DEF HInv, TransportsHeld
<1>4. /\ \A c \in carried : c.tr \in Transports
      /\ \A c \in closing : c.tr \in Transports
      /\ \A b \in Binders : pc[b] = "bound" => job[b].tr \in Transports
  BY DEF HInv, IInv, TypeOK, Closers, Jobs, Binding
<1>5. \A b \in Binders : Opened(b)' = Opened(b) /\ Opened(b).tr = job[b].tr
  BY <1>1 DEF Opened
<1>6. ASSUME NEW c \in carried'
      PROVE  trs'[c.tr] # "closed" /\ (c \in closing' \/ \E b \in Binders : pc'[b] = "bound" /\ c = Opened(b)')
  BY <1>1, <1>2, <1>4, <1>5 DEF HInv, ListenersHeld
<1>7. \A c \in closing' : trs'[c.tr] # "closed" => c \in carried'
  BY <1>1, <1>4 DEF HInv, ListenersHeld
<1>8. ASSUME NEW b \in Binders, pc'[b] = "bound", trs'[job'[b].tr] # "closed"
      PROVE  /\ Opened(b)' \in carried' /\ Opened(b)' \notin closing' /\ Opened(b)' \notin Listening'
             /\ \A x \in Binders : pc'[x] = "bound" /\ Opened(x)' = Opened(b)' => x = b
  BY <1>1, <1>2, <1>4, <1>5, <1>8 DEF HInv, ListenersHeld
<1>9. ListenersHeld'
  BY <1>2, <1>6, <1>7, <1>8 DEF ListenersHeld
<1> QED BY <1>3, <1>9

\* restore installs the new transport, which has no listener yet.
LEMMA HostInstalls ==
  ASSUME HInv, Install
  PROVE  TransportsHeld' /\ ListenersHeld'
<1> USE ConstantsAssumption DEF Install, tableVars, sessVars, procVars, passVars, hostVars
<1>1. tr = NoTr /\ old # NoTr /\ trs[old] # "closed" /\ \A c \in carried : c.tr # old
  BY DEF HInv, IInv, SupOK, TransportsHeld
<1>2. TransportsHeld'
  BY <1>1 DEF HInv, TransportsHeld
<1>3. Listening' = Listening /\ \A b \in Binders : Opened(b)' = Opened(b)
  BY DEF Listening, CloserOf, Opened
<1>4. ListenersHeld'
  BY <1>1, <1>3 DEF HInv, ListenersHeld
<1> QED BY <1>2, <1>4

\* adopt: the forward takes the listener, or the closer is handed back to run.
LEMMA HostAdopts ==
  ASSUME HInv, NEW b \in Binders, pc[b] = "bound", Adopt(job[b]), pc' = [pc EXCEPT ![b] = "idle"],
         job' = [job EXCEPT ![b] = NoJob], UNCHANGED <<tr, old, sup, trs, carried>>
  PROVE  TransportsHeld' /\ ListenersHeld'
<1> DEFINE j == job[b]
           s == job[b].slot
           rec == [slot[s] EXCEPT !.host = j.at, !.closer = j.tr, !.exact = @ \/ j.exact]
<1>1. /\ j \in Jobs /\ j # NoJob /\ s \in Slots /\ slot[s] \in Fwd /\ slot[s].closer = NoTr
      /\ slot[s].guest = j.guest /\ slot \in [Slots -> Fwd]
      /\ j.at \in Nat /\ j.tr \in Transports
      /\ job \in [Binders -> Jobs \union {NoJob}]
      /\ pc \in [Binders -> {"idle", "req", "downCheck", "downStop"} \union Binding]
  BY DEF HInv, IInv, TypeOK, Jobs, JobsClaim, ClaimsHeld, Binding
<1>2. /\ \A x \in Binders \ {b} : pc'[x] = pc[x] /\ job'[x] = job[x]
      /\ pc'[b] = "idle" /\ job'[b] = NoJob
  BY <1>1
<1>3. TransportsHeld'
  BY <1>2, TransportsKept DEF HInv, SupKeeps, JobsKeep
<1>4. \A x \in Slots : x # s => slot'[x] = slot[x]
  BY <1>1 DEF Adopt, Settle
<1>5. CASE CanAdopt(j)
  <2>1. slot'[s] = [rec EXCEPT !.owners = slot[s].owners, !.binding = FALSE]
    BY <1>1, <1>5 DEF Adopt, Settle, Settled, CanAdopt
  <2>2. slot'[s].closer = j.tr /\ slot'[s].host = j.at /\ slot'[s].guest = j.guest
    BY <1>1, <2>1 DEF Fwd
  <2>3. Listening' = Listening \union {Opened(b)}
    <3>1. ASSUME NEW c \in Listening' PROVE c \in Listening \union {Opened(b)}
      <4>1. PICK x \in Slots : slot'[x].closer # NoTr
                               /\ c = [tr |-> slot'[x].closer, host |-> slot'[x].host, guest |-> slot'[x].guest]
        BY <3>1 DEF Listening, CloserOf
      <4>2. CASE x = s
        BY <2>2, <4>1, <4>2 DEF Opened
      <4>3. CASE x # s
        BY <1>4, <4>1, <4>3 DEF Listening, CloserOf
      <4> QED BY <4>2, <4>3
    <3>2. ASSUME NEW c \in Listening PROVE c \in Listening'
      <4>1. PICK x \in Slots : slot[x].closer # NoTr /\ c = CloserOf(x)
        BY <3>2 DEF Listening
      <4>2. slot'[x] = slot[x]
        BY <1>1, <1>4, <4>1
      <4> QED BY <4>1, <4>2 DEF Listening, CloserOf
    <3>3. Opened(b) \in Listening'
      BY <1>1, <2>2, ConstantsAssumption DEF Listening, CloserOf, Opened
    <3> QED BY <3>1, <3>2, <3>3
  <2>4. closing' = closing /\ trs[j.tr] # "closed"
    BY <1>1, <1>5, ConstantsAssumption DEF Adopt, CanAdopt, HInv, TransportsHeld
  <2> QED BY <1>2, <1>3, <2>3, <2>4, ListenerSettles DEF HInv
<1>6. CASE ~CanAdopt(j)
  <2>1. closing' = closing \union {Opened(b)} /\ Settle(j.slot, j.guest, slot[s].owners, slot[s])
    BY <1>6 DEF Adopt, Opened
  <2>2. Listening' = Listening
    BY <1>1, <2>1, SettleListening DEF HInv
  <2> QED BY <1>2, <1>3, <2>1, <2>2, ListenerSettles DEF HInv
<1> QED BY <1>5, <1>6

-----------------------------------------------------------------------------
(* The theorems about listeners. *)

\* At start nothing is carried and the one transport is current.
LEMMA InitHInv == Init => HInv
<1> SUFFICES ASSUME Init PROVE HInv
  OBVIOUS
<1>1. IInv
  BY InitIInv
<1>2. Listening = {}
  BY DEF Init, Listening, Blank
<1>3. TransportsHeld /\ ListenersHeld
  BY <1>2, ConstantsAssumption DEF Init, TransportsHeld, ListenersHeld
<1> QED BY <1>1, <1>3 DEF HInv

\* On smol, every step preserves the invariant.
LEMMA NextHInv ==
  ASSUME Kind = "smol", HInv, [Next]_vars
  PROVE  HInv'
<1>1. IInv'
  BY NextIInv DEF HInv
<1>2. SUFFICES TransportsHeld' /\ ListenersHeld'
  BY <1>1 DEF HInv
<1>0. Procs \subseteq Binders /\ Sup \in Binders
  BY DEF Binders
<1>3. CASE UNCHANGED vars
  BY <1>3, HostQuiet
<1>4. ASSUME NEW b \in Binders, Bind(b) PROVE TransportsHeld' /\ ListenersHeld'
  BY <1>4, HostQuiet, HostBinds DEF Bind
<1>5. CASE Client
  <2>1. ASSUME NEW p \in Procs, NEW g \in Guests,
               \/ \E pref \in Prefs, ex \in BOOLEAN :
                    OneShotAdd(p, g, pref, ex) \/ \E c \in Conns : SessionAdd(p, c, g, pref, ex)
               \/ \E c \in Conns, redirect \in BOOLEAN : BridgeAdd(p, c, g, redirect)
        PROVE  TransportsHeld' /\ ListenersHeld'
    <3>1. PICK r \in Requests : Start(p, r)
      BY <2>1, ConstantsAssumption DEF OneShotAdd, SessionAdd, BridgeAdd, Requests, Owners, Vias
    <3> QED BY <3>1, HostQuiet
  <2>2. ASSUME NEW g \in Guests, NEW o \in Owners, Remove(g, o) PROVE TransportsHeld' /\ ListenersHeld'
    BY <2>2, HostDrops DEF Remove, procVars, supVars, SupKeeps
  <2>3. ASSUME NEW p \in Procs, DownDrop(p) PROVE TransportsHeld' /\ ListenersHeld'
    <3>1. \A b \in Binders : pc'[b] = "bound" <=> pc[b] = "bound"
      BY <1>0, <2>3 DEF DownDrop, HInv, IInv, TypeOK
    <3> QED BY <2>3, <3>1, HostDrops DEF DownDrop, supVars, SupKeeps
  <2> QED BY <1>5, <2>1, <2>2, <2>3, HostQuiet DEF Client
<1>6. ASSUME NEW p \in Procs, Handle(p) PROVE TransportsHeld' /\ ListenersHeld'
  <2>1. CASE AddAdopt(p)
    <3>1. /\ pc[p] = "bound" /\ Adopt(job[p]) /\ pc' = [pc EXCEPT ![p] = "idle"]
          /\ job' = [job EXCEPT ![p] = NoJob] /\ UNCHANGED <<tr, old, sup, trs, carried>>
      BY <2>1 DEF AddAdopt, Finish, supVars
    <3> QED BY <1>0, <3>1, HostAdopts
  <2> QED BY <1>0, <1>4, <1>6, <2>1, HostQuiet, HostAdds, HostFailures DEF Handle
<1>7. ASSUME NEW c \in Conns, CloseSession(c) PROVE TransportsHeld' /\ ListenersHeld'
  BY <1>7, HostDrops DEF CloseSession, procVars, supVars, SupKeeps
<1>8. CASE \E c \in closing : CloseForward(c)
  BY <1>8, HostCloses
<1>9. CASE Supervise
  <2>1. CASE RebindAdopt
    <3>1. /\ pc[Sup] = "bound" /\ Adopt(job[Sup]) /\ pc' = [pc EXCEPT ![Sup] = "idle"]
          /\ job' = [job EXCEPT ![Sup] = NoJob] /\ UNCHANGED <<tr, old, sup, trs, carried>>
      BY <2>1 DEF RebindAdopt, NextJob, supVars
    <3> QED BY <1>0, <3>1, HostAdopts
  <2>2. CASE Pass
    BY <1>0, <1>4, <2>1, <2>2, HostQuiet, HostFailures DEF Pass
  <2>3. CASE Expire
    BY <2>3, HostDrops DEF Expire, procVars, SupKeeps
  <2>4. ASSUME NEW t \in Transports, DialOK(t) PROVE TransportsHeld' /\ ListenersHeld'
    BY <2>4, HostDrops DEF DialOK, procVars
  <2> QED BY <1>9, <2>2, <2>3, <2>4, HostQuiet, HostDetaches, HostReleases, HostInstalls, HostFailures DEF Supervise
<1>10. CASE World
  BY <1>10, HostQuiet, HostDies DEF World
<1> QED BY <1>3, <1>5, <1>6, <1>7, <1>8, <1>9, <1>10 DEF Next, Done

(* The invariant holds of the whole specification. *)
LEMMA HostInductive ==
  ASSUME Kind = "smol"
  PROVE  Spec => []HInv
<1>1. HInv /\ [Next]_vars => HInv'
  BY NextHInv
<1> QED BY <1>1, InitHInv, PTL DEF Spec

\* A forward the daemon lists as bound has its listener on the host, whatever
\* outages, removals and lost binds went before.
THEOREM BoundForwardsAreCarried ==
  ASSUME Kind = "smol"
  PROVE  Spec => []BoundIsCarried
<1>1. HInv => BoundIsCarried
  <2>1. SUFFICES ASSUME HInv, NEW s \in Mapped, slot[s].closer # NoTr PROVE CloserOf(s) \in carried
    BY DEF BoundIsCarried
  <2>2. s \in Slots
    BY <2>1, ConstantsAssumption DEF Mapped, HInv, IInv, TypeOK
  <2> QED BY <2>1, <2>2 DEF HInv, ListenersHeld, Listening
<1> QED BY <1>1, HostInductive, PTL

\* No listener is lost track of, and a daemon that exits leaves none behind.
THEOREM ListenersAreAccountedFor ==
  ASSUME Kind = "smol"
  PROVE  Spec => []NoLeakedListener
<1>1. HInv => NoLeakedListener
  <2>1. SUFFICES ASSUME HInv PROVE NoLeakedListener
    OBVIOUS
  <2>2. ASSUME NEW c \in carried PROVE Accounted(c)
    <3>1. c \in Listening => \E s \in Mapped : slot[s].closer # NoTr /\ c = CloserOf(s)
      BY <2>1, ConstantsAssumption DEF Listening, HInv, IInv, ClosersMapped, Mapped
    <3> QED BY <2>1, <2>2, <3>1 DEF Accounted, HInv, ListenersHeld, Opened
  <2>3. ASSUME sup = "exited" PROVE carried = {}
    <3>1. tr = NoTr /\ old = NoTr
      BY <2>1, <2>3 DEF HInv, IInv, SupOK, TransportsHeld
    <3>2. \A c \in carried : c.tr \in Transports /\ (c.tr = tr \/ c.tr = old)
      BY <2>1 DEF HInv, IInv, TypeOK, Closers, TransportsHeld, ListenersHeld
    <3> QED BY <3>1, <3>2, ConstantsAssumption
  <2> QED BY <2>2, <2>3 DEF NoLeakedListener
<1> QED BY <1>1, HostInductive, PTL

-----------------------------------------------------------------------------
(* Relay sessions. *)

\* The state, the sessions and the supervisor agree.
SessionsFit ==
  /\ state = "up" => sup \in {"loop", "retry", "expire", "exit", "release", "clear", "late", "exited"}
  /\ Relays # {} => state = "up"
  /\ \A c \in Conns : conn[c] = "new" => c \notin sessions

\* The relays' unbound forwards have an excuse.
RelaysExcused == \A c \in Relays, s \in Mapped :
                   c \in slot[s].owners /\ slot[s].closer = NoTr => NoLink \/ AddingFor(c, s)

\* A bind in progress goes on, or ends having touched no forward of a relay.
AddsKept == \A p \in Procs : job[p] # NoJob =>
              /\ job'[p] # NoJob /\ job'[p].slot = job[p].slot /\ job'[p].tr = job[p].tr
              /\ job'[p].added = job[p].added /\ req'[p] = req[p]

\* The mapped forwards after the step that are unbound and a relay's were so before it.
PendingKept == \A c \in Relays', s \in Mapped' :
                 c \in slot'[s].owners /\ slot'[s].closer = NoTr
                   => c \in Relays /\ s \in Mapped /\ c \in slot[s].owners /\ slot[s].closer = NoTr

(* A relay's forwards go with the table and the sessions. *)
LEMMA RelaysFrame ==
  ASSUME RelaysExcused, tr' = tr, NoLink => NoLink', AddsKept, PendingKept
  PROVE  RelaysExcused'
<1>1. \A c, s : AddingFor(c, s) => AddingFor(c, s)'
  BY DEF AddingFor, AddsKept
<1> QED BY <1>1 DEF RelaysExcused, PendingKept

\* Nothing a relay owns is in the map while there are no relays.
LEMMA NoRelays ==
  ASSUME Relays' = {}
  PROVE  RelaysExcused'
BY DEF RelaysExcused

\* Without a transport nothing is owed.
LEMMA NoTransport ==
  ASSUME tr' = NoTr
  PROVE  RelaysExcused'
BY DEF RelaysExcused, NoLink

\* loop's states and the sessions stay in agreement, step by step.
LEMMA SessionsStay ==
  ASSUME RInv, [Next]_vars
  PROVE  SessionsFit'
<1> USE DEF vars, tableVars, sessVars, procVars, passVars, supVars, hostVars
<1>0. /\ SessionsFit /\ sessions \subseteq Conns /\ conn \in [Conns -> {"new", "open", "ended", "gone"}]
      /\ relay \in [Conns -> BOOLEAN]
  BY DEF RInv, RelaysServed, SessionsFit, IInv, TypeOK
<1> USE DEF SessionsFit, Relays
<1>1. CASE UNCHANGED <<state, sup, sessions, relay, conn>>
  BY <1>0, <1>1
<1>2. ASSUME NEW b \in Binders, Bind(b) PROVE SessionsFit'
  BY <1>0, <1>2 DEF Bind, BindBusy, BindOK, BindErr
<1>3. CASE Client
  <2>1. ASSUME NEW c \in Conns, NEW r \in BOOLEAN, OpenSession(c, r) PROVE SessionsFit'
    BY <1>0, <2>1 DEF OpenSession, MayOpen
  <2>2. ASSUME NEW c \in Conns, ReaderEnds(c) PROVE SessionsFit'
    BY <1>0, <2>2 DEF ReaderEnds
  <2> QED BY <1>0, <1>1, <1>3, <2>1, <2>2
          DEF Client, OneShotAdd, SessionAdd, BridgeAdd, Start, Remove, DownDrop, Stop
<1>4. ASSUME NEW p \in Procs, Handle(p) PROVE SessionsFit'
  <2>1. p \in Binders
    BY DEF Binders
  <2> QED BY <1>0, <1>1, <1>2, <1>4, <2>1
          DEF Handle, AddGone, AddRefused, AddRecord, AddBind, BindSlotFailed, AddAdopt, DownCheck, DownStop
<1>5. ASSUME NEW c \in Conns, CloseSession(c) PROVE SessionsFit'
  BY <1>0, <1>5 DEF CloseSession
<1>6. CASE (\E c \in closing : CloseForward(c)) \/ World
  BY <1>1, <1>6 DEF CloseForward, World, TransportDies, ForeignTakes, ForeignFrees, TTLLapses, LateArrives
<1>7. CASE Supervise
  <2>1. CASE Pass
    <3>1. Sup \in Binders
      BY DEF Binders
    <3>2. pc[Sup] \in {"failed", "contended", "bound"} => sup \in SupStates
      BY DEF RInv, IInv, TypeOK
    <3> QED BY <1>0, <1>1, <1>2, <2>1, <3>1, <3>2
            DEF Pass, RebindBatch, RebindDone, RebindAdopt, RebindFailed, RebindAbort, RebindNext, PassReady, FailsFast
  <2>2. CASE OnDead \/ Exit
    BY <1>0, <2>2 DEF OnDead, Exit
  <2>3. CASE Teardown("teardown", "closing") \/ Teardown("exit", "release")
    BY <1>0, <2>3 DEF Teardown
  <2> QED BY <1>0, <1>7, <2>1, <2>2, <2>3
          DEF Supervise, SeesStop, IdleExit, CloseOld, Dial, DialFails, DialUnmanaged, DialOK, Install, RetryTick,
              Announce, Expire, Release, Clear
<1> QED BY <1>1, <1>3, <1>4, <1>5, <1>6, <1>7 DEF Next, Done

\* Steps that leave the forwards and the relays alone, or shorten them.
LEMMA RelaysQuiet ==
  ASSUME RInv, UNCHANGED <<tr, forwards, slot, sessions, relay>>, NoLink => NoLink', AddsKept
  PROVE  RelaysExcused'
<1>1. PendingKept
  BY DEF PendingKept, Relays, Mapped
<1>2. RelaysExcused
  BY DEF RInv, RelaysServed, RelaysExcused
<1> QED BY <1>1, <1>2, RelaysFrame

(* Owners that go leave every unbound forward of a relay its excuse. *)
LEMMA RelaysDrops ==
  ASSUME RInv, NEW del, DropOwners(del), UNCHANGED <<tr, trs, relay, job>>, sessions' \subseteq sessions,
         \A p \in Procs : job[p] # NoJob => req'[p] = req[p]
  PROVE  RelaysExcused'
<1>1. /\ \A g \in Guests : forwards'[g] # NoSlot =>
           /\ forwards'[g] = forwards[g] /\ forwards[g] \notin Released(del) /\ forwards[g] \in Slots
           /\ slot'[forwards[g]].owners = slot[forwards[g]].owners \ del[forwards[g]]
      /\ \A x \in Slots : x \notin Released(del) => slot'[x].closer = slot[x].closer
  BY DropFacts DEF RInv, DropOwners
<1>2. PendingKept
  <2>1. SUFFICES ASSUME NEW c \in Relays', NEW s \in Mapped', c \in slot'[s].owners, slot'[s].closer = NoTr
                 PROVE  c \in Relays /\ s \in Mapped /\ c \in slot[s].owners /\ slot[s].closer = NoTr
    BY DEF PendingKept
  <2>2. PICK g \in Guests : forwards'[g] = s /\ s # NoSlot
    BY DEF Mapped
  <2>3. s = forwards[g] /\ s \in Slots /\ slot'[s].owners \subseteq slot[s].owners /\ slot'[s].closer = slot[s].closer
    BY <1>1, <2>2
  <2> QED BY <2>1, <2>2, <2>3 DEF Relays, Mapped
<1>3. RelaysExcused /\ AddsKept /\ (NoLink => NoLink')
  BY DEF RInv, RelaysServed, RelaysExcused, AddsKept, NoLink
<1> QED BY <1>2, <1>3, RelaysFrame

\* A relay that opens owns nothing in the map yet.
LEMMA RelaysOpen ==
  ASSUME RInv, NEW c \in Conns, NEW r \in BOOLEAN, OpenSession(c, r)
  PROVE  RelaysExcused'
<1> USE DEF OpenSession, tableVars, procVars, passVars, supVars, hostVars
<1>1. c \notin sessions /\ \A s \in Mapped : slot[s].owners \intersect Conns \subseteq sessions
  BY DEF RInv, RelaysServed, IInv, Owned1, Mapped
<1>2. PendingKept
  BY <1>1 DEF PendingKept, Relays, Mapped, RInv, IInv, TypeOK
<1>3. RelaysExcused /\ AddsKept /\ (NoLink => NoLink')
  BY DEF RInv, RelaysServed, RelaysExcused, AddsKept, NoLink
<1> QED BY <1>2, <1>3, RelaysFrame

\* An add for a relay either finds no link, or the forward bound, or binds it now.
LEMMA RelaysAdd ==
  ASSUME RInv, NEW p \in Procs, NEW s \in Slots, AddRecord(p, s) \/ AddBind(p, s)
  PROVE  RelaysExcused'
<1> USE ConstantsAssumption DEF sessVars, passVars, supVars, hostVars
<1> DEFINE r == req[p]
<1>1. /\ r \in Requests /\ r.guest \in Guests /\ r.exact \in BOOLEAN /\ p \in Binders /\ job[p] = NoJob
      /\ job \in [Binders -> Jobs \union {NoJob}] /\ slot \in [Slots -> Fwd] /\ Procs \subseteq Binders
      /\ req \in [Procs -> Requests \union {NoReq}]
      /\ forwards \in [Guests -> Slots \union {NoSlot}]
  BY DEF AddRecord, AddBind, RInv, IInv, TypeOK, Binders, Requests, Binding
<1>2. /\ UNCHANGED <<tr, trs, state, sessions, relay>> /\ ~Gone(r) /\ Target(r.guest, s) /\ Ready(r.guest)
      /\ forwards' = [forwards EXCEPT ![r.guest] = s]
      /\ \A x \in Slots : x # s => slot'[x] = slot[x]
      /\ \A q \in Procs : q # p => job'[q] = job[q] /\ req'[q] = req[q]
  BY <1>1 DEF AddRecord, AddBind, Finish
<1>3. AddsKept
  BY <1>1, <1>2 DEF AddsKept
<1>4. \A c, x : AddingFor(c, x) => AddingFor(c, x)'
  BY <1>2, <1>3 DEF AddingFor, AddsKept
<1>5. \A x \in Mapped' : x # s => x \in Mapped
  BY <1>1, <1>2 DEF Mapped
<1>6. SUFFICES ASSUME NEW c \in Relays, s \in Mapped', c \in slot'[s].owners, slot'[s].closer = NoTr
               PROVE  NoLink \/ AddingFor(c, s)'
  <2>1. Relays' = Relays /\ (NoLink' <=> NoLink)
    BY <1>2 DEF Relays, NoLink
  <2>2. ASSUME NEW c \in Relays, NEW x \in Mapped', x # s, c \in slot'[x].owners, slot'[x].closer = NoTr
        PROVE  NoLink \/ AddingFor(c, x)'
    <3>1. x \in Mapped /\ x \in Slots
      BY <1>1, <1>5, <2>2, ConstantsAssumption DEF Mapped
    <3>2. NoLink \/ AddingFor(c, x)
      BY <1>2, <2>2, <3>1 DEF RInv, RelaysServed
    <3> QED BY <1>4, <3>2
  <2> QED BY <1>6, <2>1, <2>2 DEF RelaysExcused
<1>7. \E exact \in BOOLEAN : OwnedBy(r, s, Owned(r, s, exact)) /\ slot'[s].owners = Owned(r, s, exact).owners
                             /\ slot'[s].closer = Owned(r, s, exact).closer
  <2>1. OwnedBy(r, s, Owned(r, s, r.exact)) /\ OwnedBy(r, s, Owned(r, s, FALSE))
    BY <1>1, <1>2, OwnedFacts DEF RInv
  <2>2. \/ slot'[s] = [Owned(r, s, r.exact) EXCEPT !.exact = @ \/ r.exact]
        \/ slot'[s] = [Owned(r, s, FALSE) EXCEPT !.binding = TRUE]
    BY <1>1 DEF AddRecord, AddBind
  <2>3. CASE slot'[s] = [Owned(r, s, r.exact) EXCEPT !.exact = @ \/ r.exact]
    BY <1>1, <2>1, <2>3 DEF OwnedBy, Fwd
  <2>4. CASE slot'[s] = [Owned(r, s, FALSE) EXCEPT !.binding = TRUE]
    BY <2>1, <2>4 DEF OwnedBy, Fwd
  <2> QED BY <2>2, <2>3, <2>4
<1>8. CASE forwards[r.guest] # NoSlot /\ c \in slot[s].owners
  <2>1. s \in Mapped /\ slot[s].closer = NoTr
    BY <1>1, <1>2, <1>6, <1>7, <1>8 DEF Target, Mapped, OwnedBy
  <2>2. \A b \in Binders : job[b] # NoJob => job[b].slot # s
    BY <1>1, <1>2, TargetFacts DEF RInv
  <2> QED BY <1>1, <1>8, <2>1, <2>2 DEF RInv, RelaysServed, AddingFor
<1>9. CASE ~(forwards[r.guest] # NoSlot /\ c \in slot[s].owners)
  <2>1. c = r.own
    BY <1>6, <1>7, <1>9 DEF OwnedBy
  <2>2. state = "up"
    BY <1>6 DEF RInv, RelaysServed
  <2>3. CASE AddRecord(p, s)
    <3>1. forwards[r.guest] # NoSlot => forwards[r.guest] = s /\ slot[s].closer = NoTr
      BY <1>2, <1>6, <1>7 DEF Target, OwnedBy
    <3> QED BY <2>2, <2>3, <3>1 DEF AddRecord, RecordOnly, NoLink
  <2>4. CASE AddBind(p, s)
    <3>1. job'[p] \in Jobs /\ job'[p] # NoJob
      <4>1. /\ pc'[p] = "try" /\ IInv'
        BY <2>4, AddBindStep, <1>1, ZenonT(40) DEF AddBind, RInv, IInv, TypeOK
      <4> QED BY <1>1, <4>1 DEF IInv, TypeOK, Binding
    <3>2. job'[p].slot = s /\ job'[p].tr = tr /\ job'[p].added /\ req'[p] = r
      BY <1>1, <1>2, <1>9, <2>1, <2>4 DEF AddBind, Target
    <3> QED BY <1>2, <2>1, <3>1, <3>2 DEF AddingFor
  <2> QED BY <2>3, <2>4
<1> QED BY <1>8, <1>9

\* A binder settles: its slot loses the relay, is bound, or has lost its link.
LEMMA RelaysSettle ==
  ASSUME RInv, NEW b \in Binders, job[b] # NoJob, NEW ow \in SUBSET slot[job[b].slot].owners,
         NEW rec \in Fwd, Settle(job[b].slot, job[b].guest, ow, rec),
         job' = [job EXCEPT ![b] = NoJob], UNCHANGED <<tr, trs, sessions, relay>>,
         \A p \in Procs : p # b => req'[p] = req[p],
         \A c \in Relays : forwards[job[b].guest] = job[b].slot /\ c \in ow /\ AddingFor(c, job[b].slot) /\ ~NoLink
           => rec.closer # NoTr
  PROVE  RelaysExcused'
<1> USE ConstantsAssumption
<1> DEFINE s == job[b].slot
           g == job[b].guest
<1>1. /\ s \in Slots /\ g \in Guests /\ slot[s].guest = g /\ slot[s].closer = NoTr
      /\ slot \in [Slots -> Fwd] /\ forwards \in [Guests -> Slots \union {NoSlot}]
      /\ job \in [Binders -> Jobs \union {NoJob}] /\ Procs \subseteq Binders
  BY DEF RInv, IInv, TypeOK, Jobs, JobsClaim, ClaimsHeld, Binders
<1>2. \A h \in Guests : forwards[h] = s => h = g
  BY <1>1 DEF RInv, IInv, Keyed
<1>3. /\ \A x \in Slots : x # s => slot'[x] = slot[x]
      /\ slot'[s] = Settled(s, g, ow, rec)
      /\ \A h \in Guests : forwards'[h] # NoSlot => forwards'[h] = forwards[h]
      /\ forwards[g] = s /\ ow = {} => forwards'[g] # s
  BY <1>1 DEF Settle
<1>4. SUFFICES ASSUME NEW c \in Relays, NEW x \in Mapped', c \in slot'[x].owners, slot'[x].closer = NoTr
               PROVE  NoLink \/ AddingFor(c, x)'
  BY DEF RelaysExcused, Relays, NoLink
<1>5. PICK h \in Guests : x = forwards'[h] /\ x # NoSlot /\ x = forwards[h] /\ x \in Slots /\ x \in Mapped
  BY <1>1, <1>3 DEF Mapped
<1>6. CASE x = s
  <2>1. h = g /\ forwards[g] = s /\ ow # {}
    BY <1>2, <1>3, <1>5, <1>6
  <2>2. slot'[s] = [rec EXCEPT !.owners = ow, !.binding = FALSE]
    BY <1>3, <2>1 DEF Settled
  <2>3. c \in ow /\ rec.closer = NoTr
    BY <1>4, <1>6, <2>2 DEF Fwd
  <2>4. NoLink \/ AddingFor(c, s)
    BY <1>1, <1>5, <1>6, <2>3 DEF RInv, RelaysServed
  <2> QED BY <2>1, <2>3, <2>4
<1>7. CASE x # s
  <2>1. NoLink \/ AddingFor(c, x)
    BY <1>3, <1>4, <1>5, <1>7 DEF RInv, RelaysServed
  <2>2. AddingFor(c, x) => AddingFor(c, x)'
    BY <1>1, <1>7 DEF AddingFor
  <2> QED BY <2>1, <2>2
<1> QED BY <1>6, <1>7

\* Only its one handler adds to a slot being bound.
LEMMA AdderIsBinder ==
  ASSUME RInv, NEW b \in Binders, job[b] # NoJob, NEW c, AddingFor(c, job[b].slot)
  PROVE  b \in Procs /\ job[b].tr = tr /\ job[b].added /\ req[b].own = c
BY DEF AddingFor, RInv, IInv, JobsClaim, Binders

\* bindSlot fails: the relay's own add gives its ownership up unless the link is gone.
LEMMA RelaysFail ==
  ASSUME RInv, (\E p \in Procs : BindSlotFailed(p)) \/ RebindFailed
  PROVE  RelaysExcused'
<1> USE DEF sessVars, passVars, supVars, hostVars
<1>0. Procs \subseteq Binders /\ Sup \in Binders /\ Sup \notin Procs
  BY ConstantsAssumption DEF Binders
<1>1. ASSUME NEW p \in Procs, BindSlotFailed(p) PROVE RelaysExcused'
  <2> DEFINE j == job[p]
             left == IF j.added /\ ~DiedUnder(j) THEN slot[j.slot].owners \ {req[p].own}
                                                 ELSE slot[j.slot].owners
  <2>1. job[p] # NoJob /\ slot[j.slot] \in Fwd
    BY <1>0, <1>1 DEF BindSlotFailed, RInv, IInv, TypeOK, Binding, Jobs
  <2>2. /\ Settle(j.slot, j.guest, left, slot[j.slot]) /\ job' = [job EXCEPT ![p] = NoJob]
        /\ UNCHANGED <<tr, trs, sessions, relay>> /\ \A q \in Procs : q # p => req'[q] = req[q]
    BY <1>1 DEF BindSlotFailed, Finish, RInv, IInv, TypeOK
  <2>3. ASSUME NEW c \in Relays, c \in left, AddingFor(c, j.slot), ~NoLink PROVE FALSE
    <3>1. j.tr = tr /\ j.added /\ req[p].own = c
      BY <1>0, <2>1, <2>3, AdderIsBinder
    <3>2. ~DiedUnder(j)
      BY <2>3, <3>1 DEF DiedUnder, NoLink, RInv, RelaysServed
    <3> QED BY <2>3, <3>1, <3>2
  <2>4. left \in SUBSET slot[j.slot].owners
    OBVIOUS
  <2> HIDE DEF left
  <2> QED BY <1>0, <2>1, <2>2, <2>3, <2>4, RelaysSettle
<1>2. ASSUME RebindFailed PROVE RelaysExcused'
  <2>1. job[Sup] # NoJob /\ slot[job[Sup].slot] \in Fwd
    BY <1>0, <1>2 DEF RebindFailed, RInv, IInv, TypeOK, Binding, Jobs
  <2>2. \A c : ~AddingFor(c, job[Sup].slot)
    BY <1>0, <2>1, AdderIsBinder
  <2>3. slot[job[Sup].slot].owners \in SUBSET slot[job[Sup].slot].owners
    OBVIOUS
  <2> QED BY <1>0, <1>2, <2>1, <2>2, <2>3, RelaysSettle DEF RebindFailed, NextJob
<1> QED BY <1>1, <1>2

\* adopt binds what the relay's own add bound on the current transport.
LEMMA RelaysAdopt ==
  ASSUME RInv, NEW b \in Binders, job[b] # NoJob, Adopt(job[b]), job' = [job EXCEPT ![b] = NoJob],
         UNCHANGED <<tr, trs, sessions, relay>>, \A p \in Procs : p # b => req'[p] = req[p]
  PROVE  RelaysExcused'
<1> DEFINE j == job[b]
           s == job[b].slot
           rec == IF CanAdopt(j) THEN [slot[s] EXCEPT !.host = j.at, !.closer = j.tr, !.exact = @ \/ j.exact]
                                 ELSE slot[s]
<1>1. /\ slot[s] \in Fwd /\ slot[s].closer = NoTr /\ j.at \in Nat /\ j.tr \in Transports /\ j.exact \in BOOLEAN
  BY DEF RInv, IInv, TypeOK, Jobs, JobsClaim, ClaimsHeld
<1>2. rec \in Fwd /\ (CanAdopt(j) => rec.closer = j.tr)
  BY <1>1 DEF Fwd
<1>3. Settle(s, j.guest, slot[s].owners, rec)
  BY DEF Adopt
<1>4. ASSUME NEW c \in Relays, forwards[j.guest] = s, c \in slot[s].owners, AddingFor(c, s)
      PROVE  rec.closer # NoTr
  <2>1. j.tr = tr
    BY <1>4, AdderIsBinder
  <2> QED BY <1>1, <1>2, <1>4, <2>1, ConstantsAssumption DEF CanAdopt
<1>5. slot[s].owners \in SUBSET slot[s].owners
  OBVIOUS
<1> HIDE DEF rec
<1> QED BY <1>2, <1>3, <1>4, <1>5, RelaysSettle

\* Every step keeps the relays' forwards bound or excused.
LEMMA NextRInv ==
  ASSUME RInv, [Next]_vars
  PROVE  RInv'
<1> USE DEF vars, tableVars, sessVars, procVars, passVars, supVars, hostVars
<1>1. SUFFICES RelaysExcused'
  BY NextIInv, SessionsStay DEF RInv, RelaysServed, SessionsFit, RelaysExcused
<1>0. /\ Procs \subseteq Binders /\ Sup \in Binders /\ Sup \notin Procs
      /\ job \in [Binders -> Jobs \union {NoJob}]
      /\ pc \in [Binders -> {"idle", "req", "downCheck", "downStop"} \union Binding]
      /\ \A b \in Binders : job[b] # NoJob <=> pc[b] \in Binding
      /\ \A p \in Procs : pc[p] \in {"idle", "req", "downCheck", "downStop"} => job[p] = NoJob
      /\ trs \in [Transports -> {"live", "dead", "closed"}]
  BY ConstantsAssumption DEF Binders, RInv, IInv, TypeOK, Binding
<1>2. CASE UNCHANGED <<tr, trs, forwards, slot, sessions, relay, req, job>>
  BY <1>2, RelaysQuiet DEF NoLink, AddsKept
<1>3. ASSUME NEW b \in Binders, Bind(b) PROVE RelaysExcused'
  <2>1. CASE BindBusy(b)
    <3>1. job[b] # NoJob /\ job[b] \in Jobs
      BY <1>0, <2>1 DEF BindBusy, Binding
    <3>2. /\ \A x \in Binders : x # b => job'[x] = job[x]
          /\ job'[b] # NoJob /\ job'[b].slot = job[b].slot /\ job'[b].tr = job[b].tr
          /\ job'[b].added = job[b].added
      BY <1>0, <2>1, <3>1, NoneAssumption DEF BindBusy, Jobs
    <3>3. AddsKept
      BY <1>0, <2>1, <3>2 DEF BindBusy, AddsKept
    <3> QED BY <2>1, <3>3, RelaysQuiet DEF BindBusy, NoLink
  <2> QED BY <1>2, <1>3, <2>1 DEF Bind, BindOK, BindErr
<1>4. CASE Client
  <2>1. ASSUME NEW p \in Procs, NEW r, Start(p, r) PROVE RelaysExcused'
    <3>1. AddsKept
      BY <1>0, <2>1 DEF Start, AddsKept
    <3> QED BY <2>1, <3>1, RelaysQuiet DEF Start, NoLink
  <2>2. ASSUME NEW g \in Guests, NEW o \in Owners, Remove(g, o) PROVE RelaysExcused'
    BY <2>2, RelaysDrops DEF Remove
  <2>3. ASSUME NEW p \in Procs, DownDrop(p) PROVE RelaysExcused'
    BY <2>3, RelaysDrops DEF DownDrop
  <2> QED BY <1>2, <1>4, <2>1, <2>2, <2>3, RelaysOpen
          DEF Client, OneShotAdd, SessionAdd, BridgeAdd, Stop, ReaderEnds
<1>5. ASSUME NEW p \in Procs, Handle(p) PROVE RelaysExcused'
  <2>1. CASE AddGone(p) \/ AddRefused(p) \/ DownCheck(p) \/ DownStop(p)
    <3>1. AddsKept
      BY <1>0, <2>1 DEF AddGone, AddRefused, DownCheck, DownStop, Finish, AddsKept, RInv, IInv, TypeOK
    <3> QED BY <2>1, <3>1, RelaysQuiet DEF AddGone, AddRefused, DownCheck, DownStop, NoLink
  <2>2. CASE AddAdopt(p)
    <3>1. job[p] # NoJob
      BY <1>0, <2>2 DEF AddAdopt, Binding
    <3>2. \A q \in Procs : q # p => req'[q] = req[q]
      BY <2>2 DEF AddAdopt, Finish, RInv, IInv, TypeOK
    <3> QED BY <1>0, <2>2, <3>1, <3>2, RelaysAdopt DEF AddAdopt, Finish
  <2> QED BY <1>0, <1>3, <1>5, <2>1, <2>2, RelaysAdd, RelaysFail DEF Handle
<1>6. ASSUME NEW c \in Conns, CloseSession(c) PROVE RelaysExcused'
  BY <1>6, RelaysDrops DEF CloseSession
<1>7. CASE (\E c \in closing : CloseForward(c)) \/ World
  <2>1. ASSUME NEW t \in Transports, TransportDies(t) PROVE RelaysExcused'
    <3>1. NoLink => NoLink'
      BY <1>0, <2>1 DEF TransportDies, NoLink, RInv, IInv, TypeOK
    <3> QED BY <2>1, <3>1, RelaysQuiet DEF TransportDies, AddsKept
  <2> QED BY <1>2, <1>7, <2>1 DEF CloseForward, World, ForeignTakes, ForeignFrees, TTLLapses, LateArrives
<1>8. ASSUME sup \in {"closing", "wait", "dialing", "install", "restore", "abort", "teardown", "announce"},
             UNCHANGED <<sessions, relay>>
      PROVE  RelaysExcused'
  BY <1>8, NoRelays DEF RInv, RelaysServed, Relays
<1>9. CASE Supervise
  <2>1. CASE OnDead
    <3>1. Relays' = {}
      BY <2>1 DEF OnDead, Relays
    <3> QED BY <3>1, NoRelays
  <2>2. CASE Teardown("teardown", "closing") \/ Teardown("exit", "release")
    BY <2>2, NoTransport DEF Teardown
  <2>3. CASE Release \/ Clear \/ Exit
    BY <2>3, NoTransport DEF Release, Clear, Exit, RInv, IInv, SupOK
  <2>4. CASE RebindBatch
    <3>1. \A s \in Slots : slot'[s].owners = slot[s].owners /\ slot'[s].closer = slot[s].closer
      BY <2>4 DEF RebindBatch, RInv, IInv, TypeOK, Fwd
    <3>2. Mapped \subseteq Slots
      BY ConstantsAssumption DEF Mapped, RInv, IInv, TypeOK
    <3>3. PendingKept /\ AddsKept /\ (NoLink => NoLink')
      BY <2>4, <3>1, <3>2 DEF RebindBatch, PendingKept, Relays, Mapped, AddsKept, NoLink
    <3>4. RelaysExcused
      BY DEF RInv, RelaysServed, RelaysExcused
    <3> QED BY <2>4, <3>3, <3>4, RelaysFrame DEF RebindBatch
  <2>5. CASE RebindAdopt
    <3>1. job[Sup] # NoJob
      BY <1>0, <2>5 DEF RebindAdopt, Binding
    <3> QED BY <1>0, <2>5, <3>1, RelaysAdopt DEF RebindAdopt, NextJob
  <2>6. ASSUME NEW s \in Slots, RebindNext(s) PROVE RelaysExcused'
    <3>1. AddsKept
      BY <1>0, <2>6 DEF RebindNext, AddsKept
    <3> QED BY <2>6, <3>1, RelaysQuiet DEF RebindNext, NoLink
  <2>7. CASE Pass
    <3>1. CASE RebindAbort
      BY <1>8, <3>1 DEF RebindAbort
    <3> QED BY <1>0, <1>2, <1>3, <2>4, <2>5, <2>6, <2>7, <3>1, RelaysFail DEF Pass, RebindDone
  <2>8. CASE Expire
    BY <2>8, RelaysDrops DEF Expire
  <2>9. CASE SeesStop \/ IdleExit \/ RetryTick
    BY <1>2, <2>9 DEF SeesStop, IdleExit, RetryTick
  <2>10. CASE CloseOld \/ Dial \/ DialFails \/ DialUnmanaged \/ Install \/ Announce \/ \E t \in Transports : DialOK(t)
    BY <1>8, <2>10 DEF CloseOld, Dial, DialFails, DialUnmanaged, Install, Announce, DialOK
  <2> QED BY <1>9, <2>1, <2>2, <2>3, <2>7, <2>8, <2>9, <2>10 DEF Supervise
<1> QED BY <1>2, <1>4, <1>5, <1>6, <1>7, <1>9 DEF Next, Done

\* A relay session is open only while the daemon is up, and its forwards are
\* never left pending on a working transport: an outage drops them instead.
THEOREM RelaysAreServed == Spec => []RelayNeverPending
<1>1. Init => RInv
  <2>1. SUFFICES ASSUME Init PROVE RInv
    OBVIOUS
  <2>2. Relays = {} /\ IInv
    BY <2>1, InitIInv DEF Init, Relays
  <2> QED BY <2>1, <2>2 DEF Init, RInv, RelaysServed
<1>2. RInv /\ [Next]_vars => RInv'
  BY NextRInv
<1>3. RInv => RelayNeverPending
  <2>1. SUFFICES ASSUME RInv, NEW c \in Relays, NEW s \in Mapped, c \in slot[s].owners,
                        slot[s].closer = NoTr, ~slot[s].binding
                 PROVE  NoLink
    BY DEF RelayNeverPending, NoLink, RInv, RelaysServed
  <2>2. ~AddingFor(c, s)
    BY <2>1 DEF AddingFor, RInv, IInv, JobsClaim, Binders
  <2> QED BY <2>1, <2>2 DEF RInv, RelaysServed
<1> QED BY <1>1, <1>2, <1>3, PTL DEF Spec

-----------------------------------------------------------------------------
(* The bridge's cap. *)

\* The forwards that count against the cap.
Capped == {s \in Mapped : BridgeHeld(s)}

\* The part of BridgeOnly about the table.
CapKept == /\ \A s \in Mapped : \A o \in slot[s].owners : BridgeOwner(o)
           /\ IsFiniteSet(Capped) /\ Cardinality(Capped) <= MaxEphemeral

\* What a connection is to the bridge, once open, never changes.
OwnersStay == /\ \A c \in Conns : conn'[c] = "new" => conn[c] = "new" /\ c \notin sessions'
              /\ \A c \in Conns : conn[c] # "new" => relay'[c] = relay[c]

\* The mapped forwards were mapped, and their owners owned them.
OwnersShrink == \A s \in Mapped' : /\ s \in Mapped /\ slot'[s].owners \subseteq slot[s].owners
                                   /\ slot'[s].owners \intersect sessions' \subseteq sessions

(* A step that only takes ephemeral forwards away keeps the cap. *)
LEMMA CapShrinks ==
  ASSUME CInv, OwnersStay, OwnersShrink
  PROVE  CapKept'
<1> USE ConstantsAssumption
<1>1. \A o : BridgeOwner(o) => BridgeOwner(o)'
  BY DEF BridgeOwner, OwnersStay
<1>2. \A s \in Mapped' : \A o \in slot'[s].owners : BridgeOwner(o) /\ BridgeOwner(o)'
  BY <1>1 DEF OwnersShrink, CInv, BridgeOnly
<1>3. Capped' \subseteq Capped
  <2>1. SUFFICES ASSUME NEW s \in Mapped', BridgeHeld(s)' PROVE s \in Mapped /\ BridgeHeld(s)
    BY DEF Capped
  <2>2. s \in Mapped /\ \A o \in slot[s].owners : BridgeOwner(o)
    BY <2>1 DEF OwnersShrink, CInv, BridgeOnly
  <2>3. Conf \notin slot[s].owners
    BY <2>2 DEF BridgeOwner
  <2>4. slot'[s].owners \subseteq slot[s].owners /\ slot'[s].owners \intersect sessions' \subseteq sessions
    BY <2>1 DEF OwnersShrink
  <2>5. \A o \in slot'[s].owners \intersect sessions' : o # TTL => o \in Conns /\ ~relay[o]
    BY <2>2, <2>4 DEF BridgeOwner
  <2> QED BY <2>1, <2>2, <2>3, <2>4, <2>5 DEF BridgeHeld, CInv, IInv, TypeOK
<1>4. IsFiniteSet(Capped) /\ Cardinality(Capped) <= MaxEphemeral
  BY DEF CInv, BridgeOnly, Capped
<1>5. IsFiniteSet(Capped') /\ Cardinality(Capped') <= Cardinality(Capped)
  BY <1>3, <1>4, FS_Subset
<1>6. Cardinality(Capped') \in Nat /\ Cardinality(Capped) \in Nat
  BY <1>4, <1>5, FS_CardinalityType
<1> QED BY <1>2, <1>4, <1>5, <1>6 DEF CapKept

\* Dropping owners, an outage, an expiry: owners only go.
LEMMA DropShrinks ==
  ASSUME IInv, NEW del, forwards' = DropForwards(del), sessions' \subseteq sessions,
         \A s \in Slots : slot'[s].owners = DropSlots(del)[s].owners
  PROVE  OwnersShrink
<1>1. ASSUME NEW s \in Mapped'
      PROVE  s \in Mapped /\ slot'[s].owners \subseteq slot[s].owners
  <2>1. PICK g \in Guests : s = forwards'[g] /\ s # NoSlot
    BY <1>1 DEF Mapped
  <2>2. s = forwards[g] /\ s \in Slots /\ DropSlots(del)[s].owners = slot[s].owners \ del[s]
    BY <2>1, DropFacts
  <2> QED BY <2>1, <2>2 DEF Mapped
<1> QED BY <1>1 DEF OwnersShrink

\* A binder that settles leaves its slot with no owner it had not.
LEMMA SettleShrinks ==
  ASSUME IInv, NEW b \in Binders, job[b] # NoJob, NEW ow \in SUBSET slot[job[b].slot].owners,
         NEW rec \in Fwd, Settle(job[b].slot, job[b].guest, ow, rec), sessions' = sessions
  PROVE  OwnersShrink
<1> DEFINE s == job[b].slot
           g == job[b].guest
<1>1. s \in Slots /\ g \in Guests /\ slot \in [Slots -> Fwd] /\ forwards \in [Guests -> Slots \union {NoSlot}]
  BY DEF IInv, TypeOK, Jobs
<1>2. /\ \A x \in Slots : x # s => slot'[x] = slot[x]
      /\ slot'[s] = Settled(s, g, ow, rec)
      /\ \A h \in Guests : forwards'[h] # NoSlot => forwards'[h] = forwards[h]
  BY <1>1, ConstantsAssumption DEF Settle
<1>3. slot'[s].owners \subseteq slot[s].owners
  BY <1>1, <1>2 DEF Settled, Blank, Fwd
<1> QED BY <1>1, <1>2, <1>3, ConstantsAssumption DEF OwnersShrink, Mapped

\* An open that finds the port free takes the room it asked for.
LEMMA CapAdd ==
  ASSUME CInv, NEW p \in Procs, NEW s \in Slots, AddRecord(p, s) \/ AddBind(p, s)
  PROVE  CapKept'
<1> USE ConstantsAssumption DEF sessVars, passVars, supVars, hostVars
<1> DEFINE r == req[p]
<1>1. /\ r \in Requests /\ r.guest \in Guests /\ r.exact \in BOOLEAN /\ r # NoReq
      /\ slot \in [Slots -> Fwd] /\ forwards \in [Guests -> Slots \union {NoSlot}]
  BY NoneAssumption DEF AddRecord, AddBind, CInv, IInv, TypeOK, Binders, Requests, Binding
<1>2. /\ UNCHANGED <<sessions, relay, conn>> /\ ~Gone(r) /\ Target(r.guest, s) /\ Ready(r.guest) /\ ~NotAdmitted(r)
      /\ forwards' = [forwards EXCEPT ![r.guest] = s]
      /\ \A x \in Slots : x # s => slot'[x] = slot[x]
  BY <1>1 DEF AddRecord, AddBind, Finish
<1>3. \A o : BridgeOwner(o)' <=> BridgeOwner(o)
  BY <1>2 DEF BridgeOwner
<1>4. r.via = "bridge" /\ BridgeOwner(r.own)
  BY <1>1 DEF CInv, BridgeOnly
<1>5. /\ forwards[r.guest] = NoSlot => slot'[s].owners = {r.own}
      /\ forwards[r.guest] # NoSlot => s = forwards[r.guest] /\ slot'[s].owners = slot[s].owners \union {r.own}
  <2>1. OwnedBy(r, s, Owned(r, s, r.exact)) /\ OwnedBy(r, s, Owned(r, s, FALSE))
    BY <1>1, <1>2, OwnedFacts DEF CInv
  <2>2. \/ slot'[s] = [Owned(r, s, r.exact) EXCEPT !.exact = @ \/ r.exact]
        \/ slot'[s] = [Owned(r, s, FALSE) EXCEPT !.binding = TRUE]
    BY <1>1 DEF AddRecord, AddBind
  <2>3. slot'[s].owners = Owned(r, s, r.exact).owners \/ slot'[s].owners = Owned(r, s, FALSE).owners
    BY <2>1, <2>2 DEF OwnedBy, Fwd
  <2> QED BY <1>1, <1>2, <2>1, <2>3 DEF OwnedBy, Target
<1>6. \A x \in Mapped' : x = s \/ (x \in Mapped /\ x \in Slots /\ slot'[x] = slot[x])
  BY <1>1, <1>2 DEF Mapped
<1>7. \A x \in Mapped' : \A o \in slot'[x].owners : BridgeOwner(o)'
  <2>1. forwards[r.guest] # NoSlot => \A o \in slot[s].owners : BridgeOwner(o)
    BY <1>1, <1>5 DEF CInv, BridgeOnly, Mapped
  <2>2. \A o \in slot'[s].owners : BridgeOwner(o)
    BY <1>4, <1>5, <2>1
  <2> QED BY <1>3, <1>6, <2>2 DEF CInv, BridgeOnly
<1>8. \A x \in Mapped' : x # s /\ BridgeHeld(x)' => x \in Capped
  BY <1>2, <1>6 DEF BridgeHeld, Capped
<1>9. IsFiniteSet(Capped) /\ Cardinality(Capped) <= MaxEphemeral /\ Cardinality(Capped) \in Nat
  BY FS_CardinalityType DEF CInv, BridgeOnly, Capped
<1>10. CASE forwards[r.guest] = NoSlot
  <2>1. Cardinality(Capped) < MaxEphemeral
    BY <1>2, <1>4, <1>10 DEF NotAdmitted, EphemeralRoom, Capped
  <2>2. Capped' \subseteq Capped \union {s}
    BY <1>8 DEF Capped
  <2>3. /\ IsFiniteSet(Capped \union {s})
        /\ Cardinality(Capped \union {s}) = Cardinality(Capped) \/ Cardinality(Capped \union {s}) = Cardinality(Capped) + 1
    BY <1>9, FS_AddElement
  <2>4. IsFiniteSet(Capped') /\ Cardinality(Capped') <= Cardinality(Capped \union {s})
    BY <2>2, <2>3, FS_Subset
  <2>5. Cardinality(Capped') \in Nat
    BY <2>4, FS_CardinalityType
  <2> QED BY <1>7, <1>9, <2>1, <2>3, <2>4, <2>5 DEF CapKept
<1>11. CASE forwards[r.guest] # NoSlot
  <2>1. s \in Mapped /\ ~slot[s].binding
    BY <1>1, <1>2, <1>5, <1>11 DEF Mapped, Ready
  <2>2. slot[s].owners # {} /\ slot[s].owners \intersect Conns \subseteq sessions
    BY <1>1, <1>5, <1>11, <2>1 DEF CInv, IInv, Owned1
  <2>3. \A o \in slot[s].owners : BridgeOwner(o)
    BY <2>1 DEF CInv, BridgeOnly
  <2>4. BridgeHeld(s)
    BY <2>2, <2>3 DEF BridgeHeld, BridgeOwner
  <2>5. Capped' \subseteq Capped
    BY <1>8, <2>1, <2>4 DEF Capped
  <2>6. IsFiniteSet(Capped') /\ Cardinality(Capped') <= Cardinality(Capped)
    BY <1>9, <2>5, FS_Subset
  <2>7. Cardinality(Capped') \in Nat
    BY <2>6, FS_CardinalityType
  <2> QED BY <1>7, <1>9, <2>6, <2>7 DEF CapKept
<1> QED BY <1>10, <1>11

\* The requests are the bridge's, on behalf of ttl or of a connection it knows.
BridgeRequests == \A p \in Procs : req[p] # NoReq => req[p].via = "bridge" /\ BridgeOwner(req[p].own)

\* Connections open once, and every request comes from the bridge.
LEMMA CapOwners ==
  ASSUME Callers = {"bridge"}, CInv, [Next]_vars
  PROVE  OwnersStay /\ BridgeRequests'
<1> USE ConstantsAssumption DEF vars, tableVars, sessVars, procVars, passVars, supVars, hostVars
<1>0. /\ sessions \subseteq Conns /\ conn \in [Conns -> {"new", "open", "ended", "gone"}]
      /\ relay \in [Conns -> BOOLEAN] /\ req \in [Procs -> Requests \union {NoReq}]
      /\ BridgeRequests /\ \A c \in Conns : conn[c] = "new" => c \notin sessions
      /\ Procs \subseteq Binders
  BY DEF CInv, BridgeOnly, BridgeRequests, IInv, TypeOK, Binders
<1>1. OwnersStay
  <2>1. CASE UNCHANGED <<conn, relay, sessions>>
    BY <1>0, <2>1 DEF OwnersStay
  <2>2. ASSUME NEW c \in Conns, NEW r \in BOOLEAN, OpenSession(c, r) PROVE OwnersStay
    BY <1>0, <2>2 DEF OpenSession, OwnersStay
  <2>3. ASSUME NEW c \in Conns, ReaderEnds(c) \/ CloseSession(c) PROVE OwnersStay
    BY <1>0, <2>3 DEF ReaderEnds, CloseSession, OwnersStay
  <2>4. CASE Client
    BY <2>1, <2>2, <2>3, <2>4 DEF Client, OneShotAdd, SessionAdd, BridgeAdd, Start, Remove, DownDrop, Stop
  <2>5. ASSUME NEW b \in Binders, Bind(b) PROVE OwnersStay
    BY <2>1, <2>5 DEF Bind, BindBusy, BindOK, BindErr
  <2>6. ASSUME NEW p \in Procs, Handle(p) PROVE OwnersStay
    BY <1>0, <2>1, <2>5, <2>6
       DEF Handle, AddGone, AddRefused, AddRecord, AddBind, BindSlotFailed, AddAdopt, DownCheck, DownStop
  <2>7. CASE (\E c \in closing : CloseForward(c)) \/ World
    BY <2>1, <2>7 DEF CloseForward, World, TransportDies, ForeignTakes, ForeignFrees, TTLLapses, LateArrives
  <2>8. CASE Supervise
    <3>1. CASE OnDead \/ Exit
      BY <1>0, <3>1 DEF OnDead, Exit, OwnersStay
    <3>2. CASE Pass
      <4>1. Sup \in Binders
        BY DEF Binders
      <4> QED BY <2>1, <2>5, <3>2, <4>1
              DEF Pass, RebindBatch, RebindDone, RebindAdopt, RebindFailed, RebindAbort, RebindNext
    <3> QED BY <2>1, <2>8, <3>1, <3>2
            DEF Supervise, SeesStop, IdleExit, CloseOld, Dial, DialFails, DialUnmanaged, DialOK, Install, RetryTick,
                Announce, Expire, Release, Clear, Teardown
  <2> QED BY <2>1, <2>3, <2>4, <2>6, <2>7, <2>8 DEF Next, Done
<1>2. \A o : BridgeOwner(o) => BridgeOwner(o)'
  BY <1>1 DEF OwnersStay, BridgeOwner
<1>3. BridgeRequests'
  <2>1. CASE \A p \in Procs : req'[p] # NoReq => req'[p] = req[p]
    BY <1>0, <1>2, <2>1 DEF BridgeRequests
  <2>2. ASSUME NEW p \in Procs, NEW c \in Conns, NEW g \in Guests, NEW redirect \in BOOLEAN,
               BridgeAdd(p, c, g, redirect)
        PROVE  BridgeRequests'
    <3>1. BridgeOwner(TTL)' /\ BridgeOwner(c)'
      BY <1>0, <2>2 DEF BridgeAdd, Start, BridgeOwner
    <3>2. /\ req'[p].via = "bridge" /\ req'[p].own \in {TTL, c}
          /\ \A q \in Procs : q # p => req'[q] = req[q]
      BY <1>0, <2>2 DEF BridgeAdd, Start
    <3> QED BY <1>0, <1>2, <3>1, <3>2 DEF BridgeRequests
  <2>3. CASE Client
    <3>1. /\ \A p, g, pref, ex : ~OneShotAdd(p, g, pref, ex)
          /\ \A p, c, g, pref, ex : ~SessionAdd(p, c, g, pref, ex)
      BY DEF OneShotAdd, SessionAdd
    <3>2. CASE \E p \in Procs, g \in Guests, c \in Conns, redirect \in BOOLEAN : BridgeAdd(p, c, g, redirect)
      BY <2>2, <3>2
    <3>3. CASE req' = req
      BY <2>1, <3>3
    <3> QED BY <2>3, <3>1, <3>2, <3>3 DEF Client, Remove, DownDrop, Stop, OpenSession, ReaderEnds
  <2>4. ASSUME NEW b \in Binders, Bind(b) PROVE BridgeRequests'
    BY <2>1, <2>4 DEF Bind, BindBusy, BindOK, BindErr
  <2>5. ASSUME NEW p \in Procs, Handle(p) PROVE BridgeRequests'
    <3>1. CASE Finish(p)
      BY <1>0, <2>1, <3>1 DEF Finish
    <3> QED BY <1>0, <2>1, <2>4, <2>5, <3>1
            DEF Handle, AddGone, AddRefused, AddRecord, AddBind, BindSlotFailed, AddAdopt, DownCheck, DownStop
  <2>6. CASE (\E c \in closing : CloseForward(c)) \/ World \/ \E c \in Conns : CloseSession(c)
    BY <2>1, <2>6 DEF CloseForward, World, TransportDies, ForeignTakes, ForeignFrees, TTLLapses, LateArrives, CloseSession
  <2>7. CASE Supervise
    <3>1. CASE Pass
      <4>1. Sup \in Binders
        BY DEF Binders
      <4> QED BY <2>1, <2>4, <3>1, <4>1
              DEF Pass, RebindBatch, RebindDone, RebindAdopt, RebindFailed, RebindAbort, RebindNext
    <3> QED BY <2>1, <2>7, <3>1
            DEF Supervise, SeesStop, IdleExit, CloseOld, Dial, DialFails, DialUnmanaged, DialOK, Install, RetryTick,
                Announce, Expire, Release, Clear, Teardown, OnDead, Exit
  <2>8. CASE UNCHANGED vars
    BY <2>1, <2>8
  <2> QED BY <2>3, <2>5, <2>6, <2>7, <2>8 DEF Next, Done
<1> QED BY <1>1, <1>3

\* No step but an open's add takes a forward or an owner in.
LEMMA CapSteps ==
  ASSUME CInv, [Next]_vars, \A p \in Procs, s \in Slots : ~AddRecord(p, s) /\ ~AddBind(p, s)
  PROVE  OwnersShrink
<1> USE ConstantsAssumption DEF vars, tableVars, sessVars, procVars, passVars, supVars, hostVars
<1>0. /\ Procs \subseteq Binders /\ Sup \in Binders /\ slot \in [Slots -> Fwd] /\ IInv
      /\ forwards \in [Guests -> Slots \union {NoSlot}] /\ Mapped \subseteq Slots
      /\ \A b \in Binders : pc[b] \in Binding => job[b] # NoJob /\ job[b].slot \in Slots /\ slot[job[b].slot] \in Fwd
  BY DEF Binders, CInv, IInv, TypeOK, Mapped, Jobs
<1>1. CASE UNCHANGED <<forwards, slot, sessions>>
  BY <1>1 DEF OwnersShrink, Mapped
<1>2. ASSUME NEW del, DropOwners(del), sessions' \subseteq sessions PROVE OwnersShrink
  BY <1>0, <1>2, DropShrinks DEF DropOwners
<1>3. ASSUME NEW b \in Binders, Bind(b) PROVE OwnersShrink
  BY <1>1, <1>3 DEF Bind, BindBusy, BindOK, BindErr
<1>4. ASSUME NEW b \in Binders, pc[b] \in Binding, NEW ow \in SUBSET slot[job[b].slot].owners,
             NEW rec \in Fwd, Settle(job[b].slot, job[b].guest, ow, rec), sessions' = sessions
      PROVE  OwnersShrink
  BY <1>0, <1>4, SettleShrinks
<1>5. ASSUME NEW b \in Binders, pc[b] = "bound", Adopt(job[b]), sessions' = sessions PROVE OwnersShrink
  <2>0. /\ slot[job[b].slot] \in Fwd /\ job[b].at \in Nat /\ job[b].tr \in Transports
        /\ job[b].exact \in BOOLEAN
    BY <1>0, <1>5 DEF CInv, IInv, TypeOK, Jobs, Binding
  <2>1. [slot[job[b].slot] EXCEPT !.host = job[b].at, !.closer = job[b].tr, !.exact = @ \/ job[b].exact] \in Fwd
    BY <2>0 DEF Fwd
  <2>2. slot[job[b].slot] \in Fwd /\ slot[job[b].slot].owners \in SUBSET slot[job[b].slot].owners
    BY <1>0, <1>5 DEF Binding
  <2> QED BY <1>4, <1>5, <2>1, <2>2 DEF Adopt, Binding
<1>6. CASE Client
  <2>1. ASSUME NEW c \in Conns, NEW r \in BOOLEAN, OpenSession(c, r) PROVE OwnersShrink
    <3>1. c \notin sessions /\ \A s \in Mapped : slot[s].owners \intersect Conns \subseteq sessions
      BY <2>1 DEF OpenSession, CInv, BridgeOnly, IInv, Owned1, Mapped
    <3> QED BY <2>1, <3>1 DEF OpenSession, OwnersShrink, Mapped
  <2> QED BY <1>1, <1>2, <1>6, <2>1
          DEF Client, OneShotAdd, SessionAdd, BridgeAdd, Start, Remove, DownDrop, Stop, ReaderEnds
<1>7. ASSUME NEW p \in Procs, Handle(p) PROVE OwnersShrink
  <2>1. CASE BindSlotFailed(p)
    <3>1. \E ow \in SUBSET slot[job[p].slot].owners : Settle(job[p].slot, job[p].guest, ow, slot[job[p].slot])
      BY <2>1 DEF BindSlotFailed
    <3>2. slot[job[p].slot] \in Fwd /\ pc[p] \in Binding /\ sessions' = sessions
      BY <1>0, <2>1 DEF BindSlotFailed, Binding
    <3> QED BY <1>0, <1>4, <3>1, <3>2
  <2> QED BY <1>0, <1>1, <1>3, <1>5, <1>7, <2>1
          DEF Handle, AddGone, AddRefused, AddAdopt, DownCheck, DownStop
<1>8. CASE (\E c \in closing : CloseForward(c)) \/ World
  BY <1>1, <1>8 DEF CloseForward, World, TransportDies, ForeignTakes, ForeignFrees, TTLLapses, LateArrives
<1>9. CASE \E c \in Conns : CloseSession(c)
  BY <1>2, <1>9 DEF CloseSession
<1>10. CASE Supervise
  <2>1. CASE OnDead
    <3>1. DropSlots(FromRelays) \in [Slots -> Fwd]
      BY <1>0, DropFacts
    <3>2. \A s \in Slots : slot'[s].owners = DropSlots(FromRelays)[s].owners
      BY <2>1, <3>1 DEF OnDead, Detached, Fwd
    <3> QED BY <1>0, <2>1, <3>2, DropShrinks DEF OnDead
  <2>2. CASE Teardown("teardown", "closing") \/ Teardown("exit", "release")
    <3>1. \A s \in Slots : slot'[s].owners = slot[s].owners
      BY <1>0, <2>2 DEF Teardown, Detached, Fwd
    <3> QED BY <1>0, <2>2, <3>1 DEF Teardown, OwnersShrink, Mapped
  <2>3. CASE RebindBatch
    <3>1. \A s \in Slots : slot'[s].owners = slot[s].owners
      BY <1>0, <2>3 DEF RebindBatch, Fwd
    <3> QED BY <1>0, <2>3, <3>1 DEF RebindBatch, OwnersShrink, Mapped
  <2>4. CASE RebindFailed
    <3>1. slot[job[Sup].slot].owners \in SUBSET slot[job[Sup].slot].owners
      OBVIOUS
    <3>2. slot[job[Sup].slot] \in Fwd /\ pc[Sup] \in Binding
      BY <1>0, <2>4 DEF RebindFailed, Binding
    <3> QED BY <1>0, <1>4, <2>4, <3>1, <3>2 DEF RebindFailed
  <2>5. CASE RebindAbort
    <3>1. ASSUME NEW s \in Slots PROVE slot'[s].owners \subseteq slot[s].owners
      <4>1. slot[s] \in Fwd
        BY <1>0
      <4>2. \/ slot'[s] = slot[s] \/ slot'[s] = Blank
            \/ slot'[s] = [slot[s] EXCEPT !.owners = slot[s].owners, !.binding = FALSE]
        BY <2>5 DEF RebindAbort, Settled
      <4>3. [slot[s] EXCEPT !.owners = slot[s].owners, !.binding = FALSE].owners = slot[s].owners
        BY <4>1 DEF Fwd
      <4>4. Blank.owners = {}
        BY DEF Blank
      <4> QED BY <4>2, <4>3, <4>4
    <3>2. \A g \in Guests : forwards'[g] # NoSlot => forwards'[g] = forwards[g]
      BY <2>5 DEF RebindAbort
    <3> QED BY <1>0, <2>5, <3>1, <3>2 DEF RebindAbort, OwnersShrink, Mapped
  <2>6. CASE Clear
    BY <2>6 DEF Clear, OwnersShrink, Mapped
  <2>7. CASE Pass
    BY <1>0, <1>1, <1>3, <1>5, <2>3, <2>4, <2>5, <2>7 DEF Pass, RebindDone, RebindAdopt, RebindNext
  <2>8. CASE Expire \/ \E t \in Transports : DialOK(t)
    BY <1>2, <2>8 DEF Expire, DialOK
  <2> QED BY <1>1, <1>10, <2>1, <2>2, <2>6, <2>7, <2>8
          DEF Supervise, SeesStop, IdleExit, CloseOld, Dial, DialFails, DialUnmanaged, Install, RetryTick,
              Announce, Release, Exit
<1> QED BY <1>1, <1>6, <1>7, <1>8, <1>9, <1>10 DEF Next, Done

\* Opens are checked for room under the lock that records them, so however
\* many run at once the bridge never holds more than its cap; and a forward it
\* shares or takes over again counts once.
THEOREM BridgeStaysCapped == Spec => []EphemeralCap
<1>1. ASSUME Callers = {"bridge"} PROVE Spec => []EphemeralCap
  <2>1. Init => CInv
    <3>1. SUFFICES ASSUME Init PROVE CInv
      OBVIOUS
    <3>2. Mapped = {} /\ Capped = {}
      BY <3>1 DEF Init, Mapped, Capped
    <3>3. IsFiniteSet(Capped) /\ Cardinality(Capped) = 0
      BY <3>2, FS_EmptySet
    <3> QED BY <3>1, <3>2, <3>3, InitIInv, ConstantsAssumption DEF Init, CInv, BridgeOnly, Capped
  <2>2. CInv /\ [Next]_vars => CInv'
    <3>1. SUFFICES ASSUME CInv, [Next]_vars PROVE CInv'
      OBVIOUS
    <3>2. OwnersStay /\ BridgeRequests'
      BY <1>1, <3>1, CapOwners
    <3>3. CapKept'
      BY <3>1, <3>2, CapAdd, CapShrinks, CapSteps
    <3> QED BY <3>1, <3>2, <3>3, NextIInv DEF CInv, BridgeOnly, CapKept, Capped, BridgeRequests, OwnersStay
  <2>3. CInv => EphemeralCap
    BY DEF CInv, BridgeOnly, EphemeralCap
  <2> QED BY <2>1, <2>2, <2>3, PTL DEF Spec
<1>2. ASSUME Callers # {"bridge"} PROVE Spec => []EphemeralCap
  <2>1. EphemeralCap
    BY <1>2 DEF EphemeralCap
  <2> QED BY <2>1, PTL
<1> QED BY <1>1, <1>2

-----------------------------------------------------------------------------
(* What is seen of the daemon on smol: a forward table. *)

\* The step shows as one of the table's, or not at all.
Shows == Table!TableNext \/ UNCHANGED Table!tablevars

\* Only the forwards may show it.
Apart == sup # "exited" /\ Phase' = Phase /\ UNCHANGED <<sessions, relay, carried, foreign>>

\* What dropping owners does to what is seen of a forward.
LEMMA ShownDrop ==
  ASSUME IInv, NEW del, forwards' = DropForwards(del), slot' = DropSlots(del), NEW g \in Guests
  PROVE  Shown(g)' = IF forwards[g] = NoSlot THEN Shown(g) ELSE Table!Without(Shown(g), del[forwards[g]])
<1> USE ConstantsAssumption
<1>1. CASE forwards[g] = NoSlot
  <2>1. forwards'[g] = NoSlot
    BY <1>1 DEF DropForwards, Released
  <2> QED BY <1>1, <2>1 DEF Shown
<1>2. CASE forwards[g] # NoSlot
  <2> DEFINE s == forwards[g]
  <2>1. s \in Slots /\ s \in Mapped /\ slot[s] \in Fwd
    BY <1>2 DEF IInv, TypeOK, Mapped
  <2>2. CASE s \in Released(del)
    <3>1. forwards'[g] = NoSlot /\ slot[s].owners \subseteq del[s]
      BY <2>2 DEF DropForwards, Released
    <3>2. Shown(g)' = Table!Free
      BY <3>1 DEF Shown, Table!Free
    <3>3. slot[s].owners = {} => Shown(g) = Table!Free
      BY DEF Shown, Table!Free
    <3>4. Shown(g).owners \subseteq del[s]
      BY <3>1 DEF Shown
    <3> QED BY <1>2, <3>2, <3>4 DEF Table!Without
  <2>3. CASE s \notin Released(del)
    <3>1. /\ forwards'[g] = s
          /\ slot'[s] = [slot[s] EXCEPT !.owners = @ \ del[s]]
      BY <2>1, <2>3 DEF DropForwards, DropSlots
    <3>2. /\ slot'[s].owners = slot[s].owners \ del[s] /\ slot'[s].host = slot[s].host
          /\ slot'[s].exact = slot[s].exact /\ slot'[s].closer = slot[s].closer
      BY <2>1, <3>1 DEF Fwd
    <3>3. CASE slot[s].owners = {}
      BY <1>2, <3>1, <3>2, <3>3 DEF Shown, Table!Without, Table!Free
    <3>4. CASE slot[s].owners # {}
      <4>1. Shown(g) = [owners |-> slot[s].owners, host |-> slot[s].host,
                        exact |-> slot[s].exact, bound |-> slot[s].closer # NoTr]
        BY <1>2, <3>4 DEF Shown
      <4>2. CASE slot[s].owners \subseteq del[s]
        BY <1>2, <3>1, <3>2, <4>1, <4>2 DEF Shown, Table!Without, Table!Free
      <4>3. CASE ~ (slot[s].owners \subseteq del[s])
        BY <1>2, <3>1, <3>2, <4>1, <4>3 DEF Shown, Table!Without
      <4> QED BY <4>2, <4>3
    <3> QED BY <3>3, <3>4
  <2> QED BY <2>2, <2>3
<1> QED BY <1>1, <1>2

\* Nothing that is seen changes.
LEMMA ShownKept ==
  ASSUME Apart, \A g \in Guests : Shown(g)' = Shown(g)
  PROVE  Shows
BY DEF Shows, Apart, Table!tablevars, Relays

\* The forwards and everything else that is seen stay as they are.
LEMMA Unseen ==
  ASSUME Apart, UNCHANGED <<forwards, slot>>
  PROVE  Shows
<1>1. \A g \in Guests : Shown(g)' = Shown(g)
  BY DEF Shown
<1> QED BY <1>1, ShownKept

\* One owner gives up one forward, or more of them do.
LEMMA ShownRemove ==
  ASSUME Apart, NEW o \in Owners, NEW h \in Guests,
         \A g \in Guests : Shown(g)' = IF g = h THEN Table!Without(Shown(g), {o}) ELSE Shown(g)
  PROVE  Shows
<1>1. Table!Remove(h, o)
  BY DEF Table!Remove, Apart, Relays
<1>2. o \in Conns \union {Conf, TTL} /\ Phase # "ended"
  BY DEF Owners, Apart, Phase
<1> QED BY <1>1, <1>2 DEF Shows, Table!TableNext, Table!Changes

LEMMA ShownDown ==
  ASSUME Apart, \A g \in Guests : Shown(g)' = Table!Without(Shown(g), {Conf})
  PROVE  Shows
<1>1. Table!Down
  BY DEF Table!Down, Apart, Relays
<1>2. Phase # "ended"
  BY DEF Apart, Phase
<1> QED BY <1>1, <1>2 DEF Shows, Table!TableNext, Table!Changes

LEMMA ShownExpire ==
  ASSUME Apart, NEW G \in SUBSET Guests,
         \A g \in Guests : Shown(g)' = IF g \in G THEN Table!Without(Shown(g), {TTL}) ELSE Shown(g)
  PROVE  Shows
<1>1. Table!Expire(G)
  BY DEF Table!Expire, Apart, Relays
<1>2. Phase # "ended"
  BY DEF Apart, Phase
<1> QED BY <1>1, <1>2 DEF Shows, Table!TableNext, Table!Changes

\* dropOwnersLocked with its callers.
LEMMA DropsShow ==
  ASSUME IInv, Apart,
         \/ \E g \in Guests, o \in Owners : forwards[g] # NoSlot /\ DropOwners(FromSlot(forwards[g], o))
         \/ DropOwners(FromAll(Conf)) \/ DropOwners(ExpiredTTL)
  PROVE  Shows
<1> USE ConstantsAssumption
<1>0. \A g \in Guests : forwards[g] # NoSlot => forwards[g] \in Slots
  BY DEF IInv, TypeOK
<1>a. \A g \in Guests : forwards[g] = NoSlot => Shown(g) = Table!Free
  BY DEF Shown, Table!Free
<1>b. ASSUME NEW g \in Guests, NEW D PROVE forwards[g] = NoSlot => Table!Without(Shown(g), D) = Shown(g)
  BY <1>a DEF Table!Without, Table!Free
<1>c. ASSUME NEW g \in Guests PROVE Table!Without(Shown(g), {}) = Shown(g)
  BY DEF Table!Without, Table!Free, Shown
<1>1. ASSUME NEW h \in Guests, NEW o \in Owners, forwards[h] # NoSlot, DropOwners(FromSlot(forwards[h], o))
      PROVE  Shows
  <2>1. ASSUME NEW g \in Guests
        PROVE  Shown(g)' = IF g = h THEN Table!Without(Shown(g), {o}) ELSE Shown(g)
    <3>1. Shown(g)' = IF forwards[g] = NoSlot THEN Shown(g)
                      ELSE Table!Without(Shown(g), FromSlot(forwards[h], o)[forwards[g]])
      BY <1>1, ShownDrop DEF DropOwners
    <3>2. forwards[g] = forwards[h] => g = h
      BY <1>1 DEF IInv, Keyed
    <3>3. forwards[g] # NoSlot => FromSlot(forwards[h], o)[forwards[g]] = IF g = h THEN {o} ELSE {}
      BY <1>0, <3>2 DEF FromSlot
    <3> QED BY <1>1, <1>c, <3>1, <3>3
  <2> QED BY <2>1, ShownRemove
<1>2. ASSUME DropOwners(FromAll(Conf)) PROVE Shows
  <2>1. ASSUME NEW g \in Guests PROVE Shown(g)' = Table!Without(Shown(g), {Conf})
    <3>1. Shown(g)' = IF forwards[g] = NoSlot THEN Shown(g)
                      ELSE Table!Without(Shown(g), FromAll(Conf)[forwards[g]])
      BY <1>2, ShownDrop DEF DropOwners
    <3> QED BY <1>0, <1>b, <3>1 DEF FromAll
  <2> QED BY <2>1, ShownDown
<1>3. ASSUME DropOwners(ExpiredTTL) PROVE Shows
  <2> DEFINE G == {g \in Guests : forwards[g] \in lapsed}
  <2>1. ASSUME NEW g \in Guests
        PROVE  Shown(g)' = IF g \in G THEN Table!Without(Shown(g), {TTL}) ELSE Shown(g)
    <3>1. Shown(g)' = IF forwards[g] = NoSlot THEN Shown(g)
                      ELSE Table!Without(Shown(g), ExpiredTTL[forwards[g]])
      BY <1>3, ShownDrop DEF DropOwners
    <3>2. forwards[g] # NoSlot => ExpiredTTL[forwards[g]] = IF g \in G THEN {TTL} ELSE {}
      BY <1>0 DEF ExpiredTTL
    <3> QED BY <1>b, <1>c, <3>1, <3>2
  <2> HIDE DEF G
  <2>2. G \in SUBSET Guests
    BY DEF G
  <2> QED BY <2>1, <2>2, ShownExpire
<1> QED BY <1>1, <1>2, <1>3

\* closeSession: the connection and all it owned go at once.
LEMMA CloseSessionShows ==
  ASSUME IInv, sup # "exited", NEW c \in Conns, CloseSession(c)
  PROVE  Shows
<1>1. \A g \in Guests : forwards[g] # NoSlot => forwards[g] \in Slots
  BY DEF IInv, TypeOK
<1>2. ASSUME NEW g \in Guests PROVE Shown(g)' = Table!Without(Shown(g), {c})
  <2>1. Shown(g)' = IF forwards[g] = NoSlot THEN Shown(g)
                    ELSE Table!Without(Shown(g), FromAll(c)[forwards[g]])
    BY ShownDrop DEF DropOwners, CloseSession
  <2>2. forwards[g] = NoSlot => Table!Without(Shown(g), {c}) = Shown(g)
    BY DEF Shown, Table!Without, Table!Free
  <2> QED BY <1>1, <2>1, <2>2 DEF FromAll
<1>3. UNCHANGED <<relay, carried, foreign, sup>> /\ sessions' = sessions \ {c}
  BY DEF CloseSession, supVars
<1>4. Relays' = Relays \ {c}
  BY <1>3 DEF Relays
<1>5. Table!Leave(c)
  BY <1>2, <1>3, <1>4 DEF Table!Leave, Phase
<1> QED BY <1>5 DEF Shows, Table!TableNext, Table!Sessions, Phase

\* openSession.
LEMMA OpenSessionShows ==
  ASSUME RInv, sup # "exited", NEW c \in Conns, NEW r \in BOOLEAN, OpenSession(c, r)
  PROVE  Shows
<1>1. /\ UNCHANGED <<forwards, slot, carried, foreign, sup>> /\ sessions' = sessions \union {c}
      /\ relay' = [relay EXCEPT ![c] = r] /\ c \notin sessions /\ MayOpen(r)
  BY DEF OpenSession, tableVars, supVars, hostVars, RInv, RelaysServed
<1>2. Relays' = IF r THEN Relays \union {c} ELSE Relays
  BY <1>1 DEF Relays, RInv, IInv, TypeOK
<1>3. \A g \in Guests : Shown(g)' = Shown(g)
  BY <1>1 DEF Shown
<1>4. r => Phase = "serving"
  BY <1>1 DEF MayOpen, Phase, RInv, IInv, SupOK
<1>5. Table!Join(c, r)
  BY <1>1, <1>2, <1>3, <1>4 DEF Table!Join, Phase
<1> QED BY <1>5 DEF Shows, Table!TableNext, Table!Sessions, Phase

\* The listeners as the table counts them, and a bound forward's is one of them.
Open == {[host |-> c.host, guest |-> c.guest] : c \in carried}
BoundListens == \A g \in Guests : Shown(g).bound => Table!Listener(g, Shown(g).host) \in Open

LEMMA HeldListens == HInv => BoundListens
<1> SUFFICES ASSUME HInv, NEW g \in Guests, Shown(g).bound
             PROVE  Table!Listener(g, Shown(g).host) \in Open
  BY DEF BoundListens
<1> DEFINE s == forwards[g]
<1>1. s # NoSlot /\ slot[s].owners # {} /\ slot[s].closer # NoTr
  BY DEF Shown
<1>2. s \in Slots /\ slot[s].guest = g /\ Shown(g).host = slot[s].host
  BY <1>1 DEF HInv, IInv, TypeOK, Keyed, Shown
<1>3. CloserOf(s) \in carried
  BY <1>1, <1>2 DEF HInv, ListenersHeld, Listening
<1>4. CloserOf(s).host = slot[s].host /\ CloserOf(s).guest = g
  BY <1>2 DEF CloserOf
<1> QED BY <1>2, <1>3, <1>4 DEF Open, Table!Listener

\* Listeners close that no bound forward has.
LEMMA UnlistenShows ==
  ASSUME HInv', sup # "exited", Phase' = Phase, carried' \subseteq carried,
         UNCHANGED <<forwards, slot, sessions, relay, foreign>>
  PROVE  Shows
<1>0. PICK L : L = Open \ Open'
  OBVIOUS
<1>1. BoundListens'
  BY HeldListens, PTL
<1>2. \A g \in Guests : Shown(g)' = Shown(g)
  BY DEF Shown
<1>3. \A g \in Guests : Shown(g).bound => Table!Listener(g, Shown(g).host) \in Open'
  BY <1>1, <1>2 DEF BoundListens, Table!Listener
<1>4. Open' \subseteq Open
  BY DEF Open
<1>5. Table!Unlisten(L)
  BY <1>0, <1>2, <1>3, <1>4 DEF Table!Unlisten, Relays, Open
<1>6. L \in SUBSET {[host |-> c.host, guest |-> c.guest] : c \in carried}
  BY <1>0 DEF Open
<1>7. Table!Host
  BY <1>5, <1>6 DEF Table!Host
<1> QED BY <1>7 DEF Shows, Table!TableNext, Phase

\* A listener opens on a port nobody has.
LEMMA ListenShows ==
  ASSUME IInv, sup # "exited", Phase' = Phase, UNCHANGED <<forwards, slot, sessions, relay, foreign>>,
         NEW g \in Guests, NEW h \in Nat, NEW t, ~Busy(h),
         carried' = carried \union {[tr |-> t, host |-> h, guest |-> g]}
  PROVE  Shows
<1>1. h \in HostPorts /\ h \notin foreign /\ \A c \in carried : c.host # h
  BY ConstantsAssumption DEF Busy, HostPorts
<1>2. \A x \in Guests : Shown(x)' = Shown(x)
  BY DEF Shown
<1> DEFINE new == [tr |-> t, host |-> h, guest |-> g]
<1>a. [host |-> new.host, guest |-> new.guest] = Table!Listener(g, h)
  BY DEF Table!Listener
<1>b. carried' = carried \union {new}
  OBVIOUS
<1> HIDE DEF new
<1>3. Open' = Open \union {Table!Listener(g, h)}
  BY <1>a, <1>b DEF Open
<1>4. \A l \in Open : l.host # h
  BY <1>1 DEF Open
<1>5. Table!Listen(g, h)
  BY <1>1, <1>2, <1>3, <1>4 DEF Table!Listen, Relays, Open
<1> QED BY <1>1, <1>5 DEF Shows, Table!TableNext, Table!Host, Phase

\* A port another program takes, or gives back.
LEMMA OthersShow ==
  ASSUME IInv, sup # "exited", foreign \subseteq HostPorts, NEW p \in ForeignPorts, ForeignTakes(p) \/ ForeignFrees(p)
  PROVE  Shows
<1>1. /\ UNCHANGED <<forwards, slot, sessions, relay, carried, sup>>
      /\ \/ ~Busy(p) /\ foreign' = foreign \union {p}
         \/ p \in foreign /\ foreign' = foreign \ {p}
  BY DEF ForeignTakes, ForeignFrees, tableVars, sessVars, supVars
<1>2. p \in HostPorts
  BY <1>1, ConstantsAssumption DEF Busy, HostPorts
<1>3. \A x \in Guests : Shown(x)' = Shown(x)
  BY <1>1 DEF Shown
<1>4. ~Busy(p) => \A l \in Open : l.host # p
  BY DEF Open, Busy
<1>5. Table!Takes(p) \/ Table!Frees(p)
  BY <1>1, <1>3, <1>4 DEF Table!Takes, Table!Frees, Relays, Open, Phase
<1> QED BY <1>2, <1>5 DEF Shows, Table!TableNext, Table!Host, Phase

\* A forward that is not seen, and one that is, once pending.
LEMMA PendingIs ==
  ASSUME NEW ow, NEW h, NEW ex, NEW b
  PROVE  /\ Table!Pending(Table!Free) = Table!Free
         /\ Table!Pending([owners |-> ow, host |-> h, exact |-> ex, bound |-> b])
              = [owners |-> ow, host |-> h, exact |-> ex, bound |-> FALSE]
BY DEF Table!Pending, Table!Free

\* Without their closers the forwards are pending.
Untied == \A g \in Guests : Shown(g)' = Table!Pending(Shown(g))

LEMMA TeardownUnties ==
  ASSUME IInv, slot' = Detached(slot), forwards' = forwards
  PROVE  Untied
<1>1. slot \in [Slots -> Fwd] /\ \A g \in Guests : forwards[g] # NoSlot => forwards[g] \in Slots
  BY DEF IInv, TypeOK
<1>2. \A s \in Slots : /\ slot'[s].closer = NoTr /\ slot'[s].host = slot[s].host
                      /\ slot'[s].exact = slot[s].exact /\ slot'[s].owners = slot[s].owners
  BY <1>1, DetachedFacts, UnmappedBare
<1>3. ASSUME NEW g \in Guests PROVE Shown(g)' = Table!Pending(Shown(g))
  <2>1. CASE forwards[g] # NoSlot /\ slot[forwards[g]].owners # {}
    <3>1. /\ Shown(g) = [owners |-> slot[forwards[g]].owners, host |-> slot[forwards[g]].host,
                         exact |-> slot[forwards[g]].exact, bound |-> slot[forwards[g]].closer # NoTr]
          /\ Shown(g)' = [owners |-> slot[forwards[g]].owners, host |-> slot[forwards[g]].host,
                          exact |-> slot[forwards[g]].exact, bound |-> FALSE]
      BY <1>1, <1>2, <2>1 DEF Shown
    <3> QED BY <3>1, PendingIs
  <2>2. CASE ~(forwards[g] # NoSlot /\ slot[forwards[g]].owners # {})
    <3>1. Shown(g)' = Table!Free /\ Shown(g) = Table!Free
      BY <1>1, <1>2, <2>2 DEF Shown, Table!Free
    <3> QED BY <3>1, PendingIs
  <2> QED BY <2>1, <2>2
<1> QED BY <1>3 DEF Untied

\* restore's teardown is an outage without relays, shutdown's the end of binding.
LEMMA TeardownShows ==
  ASSUME RInv, Teardown("teardown", "closing") \/ Teardown("exit", "release")
  PROVE  Shows
<1>1. /\ UNCHANGED <<forwards, sessions, relay, carried, foreign>> /\ slot' = Detached(slot)
      /\ \/ sup = "teardown" /\ sup' = "closing"
         \/ sup = "exit" /\ sup' = "release"
  BY DEF Teardown, sessVars, hostVars
<1>2. Untied
  BY <1>1, TeardownUnties DEF RInv
<1>3. Phase = "serving"
  BY <1>1 DEF Phase
<1>4. CASE sup = "teardown"
  <2>1. Relays = {} /\ Relays' = {} /\ Phase' = Phase
    BY <1>1, <1>4 DEF RInv, RelaysServed, Relays, Phase
  <2>2. ASSUME NEW g \in Guests PROVE Table!Without(Shown(g), {}) = Shown(g)
    BY DEF Table!Without, Table!Free, Shown
  <2>3. \A g \in Guests : Shown(g)' = Table!Pending(Table!Without(Shown(g), Relays))
    BY <1>2, <2>1, <2>2 DEF Untied
  <2>4. Table!Outage
    BY <1>1, <1>3, <2>1, <2>3 DEF Table!Outage
  <2> QED BY <1>3, <2>4 DEF Shows, Table!TableNext, Table!Changes
<1>5. CASE sup = "exit"
  <2>1. Phase' = "closing"
    BY <1>1, <1>5 DEF Phase
  <2>2. Table!Close
    BY <1>1, <1>2, <1>3, <2>1 DEF Table!Close, Untied, Relays
  <2> QED BY <1>3, <2>2 DEF Shows, Table!TableNext
<1> QED BY <1>1, <1>4, <1>5

\* onDead.
LEMMA OnDeadShows ==
  ASSUME RInv, OnDead
  PROVE  Shows
<1>0. IInv
  BY DEF RInv
<1> DEFINE del == FromRelays
<1>1. /\ DropSlots(del) \in [Slots -> Fwd]
      /\ \A x \in Slots : x \in Released(del) => DropSlots(del)[x] = Blank
      /\ \A x \in Slots : x \notin Released(del) => DropSlots(del)[x].closer = slot[x].closer
  BY <1>0, DropFacts
<1>2. \A s \in Slots : s \notin Mapped => DropSlots(del)[s].closer = NoTr
  BY <1>0, <1>1, UnmappedBare DEF Released
<1>3. /\ forwards' = DropForwards(del) /\ slot' = Detached(DropSlots(del))
      /\ sessions' = sessions \ Relays /\ UNCHANGED <<relay, carried, foreign>>
      /\ sup = "loop" /\ sup' = "closing"
  BY DEF OnDead, hostVars
<1>4. \A s \in Slots : /\ slot'[s].closer = NoTr
                      /\ slot'[s].host = DropSlots(del)[s].host
                      /\ slot'[s].exact = DropSlots(del)[s].exact
                      /\ slot'[s].owners = DropSlots(del)[s].owners
  BY <1>0, <1>1, <1>2, <1>3, DetachedFacts
<1>5. ASSUME NEW g \in Guests PROVE Shown(g)' = Table!Pending(Table!Without(Shown(g), Relays))
  <2> DEFINE s == forwards[g]
  <2>1. CASE s = NoSlot
    <3>1. Shown(g) = Table!Free /\ forwards'[g] = NoSlot
      BY <1>3, <2>1, ConstantsAssumption DEF Shown, Table!Free, DropForwards, Released
    <3>2. Shown(g)' = Table!Free /\ Table!Without(Shown(g), Relays) = Table!Free
      BY <3>1 DEF Shown, Table!Without, Table!Free
    <3> QED BY <3>2, PendingIs
  <2>2. CASE s # NoSlot /\ s \in Released(del)
    <3>1. forwards'[g] = NoSlot /\ s \in Slots /\ slot[s].owners \subseteq Relays
      BY <1>0, <1>3, <2>2 DEF DropForwards, Released, FromRelays, IInv, TypeOK
    <3>2. Shown(g).owners \subseteq Relays
      BY <3>1 DEF Shown
    <3>3. Shown(g)' = Table!Free /\ Table!Without(Shown(g), Relays) = Table!Free
      BY <3>1, <3>2 DEF Shown, Table!Without, Table!Free
    <3> QED BY <3>3, PendingIs
  <2>3. CASE s # NoSlot /\ s \notin Released(del)
    <3>1. s \in Slots /\ s \in Mapped /\ slot[s] \in Fwd
      BY <1>0, <2>3 DEF IInv, TypeOK, Mapped
    <3>2. forwards'[g] = s /\ DropSlots(del)[s] = [slot[s] EXCEPT !.owners = @ \ Relays]
      BY <1>3, <2>3, <3>1 DEF DropForwards, DropSlots, FromRelays
    <3>3. /\ slot'[s].owners = slot[s].owners \ Relays /\ slot'[s].host = slot[s].host
          /\ slot'[s].exact = slot[s].exact /\ slot'[s].closer = NoTr
      BY <1>4, <3>1, <3>2 DEF Fwd
    <3>4. CASE slot[s].owners \subseteq Relays
      <4>1. Shown(g).owners \subseteq Relays
        BY <3>4 DEF Shown
      <4>2. Shown(g)' = Table!Free /\ Table!Without(Shown(g), Relays) = Table!Free
        BY <3>2, <3>3, <3>4, <4>1 DEF Shown, Table!Without, Table!Free
      <4> QED BY <4>2, PendingIs
    <3>5. CASE ~ (slot[s].owners \subseteq Relays)
      <4>1. Shown(g) = [owners |-> slot[s].owners, host |-> slot[s].host,
                        exact |-> slot[s].exact, bound |-> slot[s].closer # NoTr]
        BY <2>3, <3>5 DEF Shown
      <4>2. Shown(g)' = [owners |-> slot[s].owners \ Relays, host |-> slot[s].host,
                         exact |-> slot[s].exact, bound |-> FALSE]
        BY <2>3, <3>2, <3>3, <3>5 DEF Shown
      <4>3. Table!Without(Shown(g), Relays) = [owners |-> slot[s].owners \ Relays, host |-> slot[s].host,
                                               exact |-> slot[s].exact, bound |-> slot[s].closer # NoTr]
        BY <3>5, <4>1 DEF Table!Without
      <4> QED BY <4>2, <4>3, PendingIs
    <3> QED BY <3>4, <3>5
  <2> QED BY <2>1, <2>2, <2>3
<1>6. Relays' = {} /\ Phase = "serving" /\ Phase' = "serving"
  BY <1>3 DEF Relays, Phase
<1>7. Table!Outage
  BY <1>3, <1>5, <1>6 DEF Table!Outage
<1> QED BY <1>6, <1>7 DEF Shows, Table!TableNext, Table!Changes

\* shutdown forgets the forwards, and exits when no listener is left.
LEMMA EndShows ==
  ASSUME HInv, HInv', Clear \/ Exit
  PROVE  Shows
<1>1. CASE Clear
  <2>1. /\ UNCHANGED <<sessions, relay, carried, foreign>> /\ sup = "clear" /\ sup' = "late"
        /\ \A g \in Guests : forwards'[g] = NoSlot
    BY <1>1 DEF Clear, sessVars, hostVars
  <2>2. \A g \in Guests : Shown(g)' = Table!Free
    BY <2>1 DEF Shown, Table!Free
  <2>3. Phase = "closing" /\ Phase' = "closing"
    BY <2>1 DEF Phase
  <2>4. Table!Forget
    BY <2>1, <2>2, <2>3 DEF Table!Forget, Relays
  <2> QED BY <2>3, <2>4 DEF Shows, Table!TableNext
<1>2. CASE Exit
  <2>1. UNCHANGED <<forwards, slot, sessions, relay, carried, foreign, tr, old, trs>> /\ sup = "late" /\ sup' = "exited"
    BY <1>2 DEF Exit, tableVars, hostVars
  <2>2. carried = {}
    <3>1. tr = NoTr /\ old = NoTr
      BY <2>1 DEF HInv, IInv, SupOK, TransportsHeld
    <3>2. \A c \in carried : c.tr \in Transports /\ (c.tr = tr \/ c.tr = old)
      BY DEF HInv, IInv, TypeOK, Closers, TransportsHeld, ListenersHeld
    <3> QED BY <3>1, <3>2, ConstantsAssumption
  <2>3. \A g \in Guests : Shown(g)' = Shown(g)
    BY <2>1 DEF Shown
  <2>4. Phase = "closing" /\ Phase' = "ended"
    BY <2>1 DEF Phase
  <2>5. Table!End
    BY <2>1, <2>2, <2>3, <2>4 DEF Table!End, Relays
  <2> QED BY <2>4, <2>5 DEF Shows, Table!TableNext
<1> QED BY <1>1, <1>2

-----------------------------------------------------------------------------
(* The ports in play. *)

\* Host ports are asked for, tried or another program's, and a bind of an exact
\* forward tries the port it has.
AskedPorts ==
  /\ foreign \subseteq HostPorts
  /\ \A p \in Procs : req[p] # NoReq => req[p].pref \in HostPorts
  /\ \A s \in Slots : slot[s].host \in HostPorts
  /\ \A b \in Binders : pc[b] = "bound" => job[b].at \in HostPorts
  /\ \A b \in Binders : job[b] # NoJob /\ job[b].exact =>
        job[b].at = slot[job[b].slot].host /\ job[b].last = job[b].at

\* A step keeps AskedPorts if ports change only on slots nobody binds and jobs only end.
HostsKept == \A s \in Slots :
  \/ slot'[s].host = slot[s].host
  \/ slot'[s].host \in HostPorts /\ \A b \in Binders : job'[b] # NoJob => job'[b].slot # s
JobsEnd == \A b \in Binders : job'[b] # NoJob => job'[b] = job[b]
                                                 /\ (pc'[b] = "bound" => pc[b] = "bound")
ReqsEnd == \A p \in Procs : req'[p] # NoReq => req'[p] = req[p]

LEMMA PortsKept ==
  ASSUME AskedPorts, IInv', foreign' \subseteq HostPorts, ReqsEnd, HostsKept, JobsEnd
  PROVE  AskedPorts'
<1>1. \A p \in Procs : req'[p] # NoReq => req'[p].pref \in HostPorts
  BY DEF AskedPorts, ReqsEnd
<1>2. \A s \in Slots : slot'[s].host \in HostPorts
  BY DEF AskedPorts, HostsKept
<1>3. ASSUME NEW b \in Binders, job'[b] # NoJob
      PROVE  /\ job'[b] = job[b] /\ (pc'[b] = "bound" => pc[b] = "bound")
             /\ slot'[job[b].slot].host = slot[job[b].slot].host
  <2>1. job'[b].slot \in Slots /\ job'[b] = job[b]
    BY <1>3 DEF IInv, TypeOK, Jobs, JobsEnd
  <2> QED BY <1>3, <2>1 DEF JobsEnd, HostsKept
<1>4. \A b \in Binders : pc'[b] = "bound" => job'[b] # NoJob
  BY DEF IInv, TypeOK, Binding
<1>5. \A b \in Binders : pc'[b] = "bound" => job'[b].at \in HostPorts
  BY <1>3, <1>4 DEF AskedPorts
<1>6. \A b \in Binders : job'[b] # NoJob /\ job'[b].exact =>
        job'[b].at = slot'[job'[b].slot].host /\ job'[b].last = job'[b].at
  BY <1>3 DEF AskedPorts
<1> QED BY <1>1, <1>2, <1>5, <1>6 DEF AskedPorts, HostPorts

LEMMA NoPort == 0 \in HostPorts /\ Prefs \subseteq HostPorts /\ Guests \subseteq HostPorts
BY ConstantsAssumption DEF HostPorts

\* A slot a binder is at is claimed.
LEMMA FreeOfJobs ==
  ASSUME IInv, NEW s \in Slots, ~slot[s].binding, JobsEnd
  PROVE  \A b \in Binders : job'[b] # NoJob => job'[b].slot # s
BY DEF IInv, JobsClaim, JobsEnd

LEMMA DropPorts ==
  ASSUME IInv, NEW del, slot' = DropSlots(del), JobsEnd
  PROVE  HostsKept
<1>1. ASSUME NEW s \in Slots, s \in Released(del)
      PROVE  slot'[s].host \in HostPorts /\ \A b \in Binders : job'[b] # NoJob => job'[b].slot # s
  <2>1. slot'[s] = Blank /\ ~slot[s].binding
    BY <1>1, DropFacts DEF Released
  <2> QED BY <2>1, FreeOfJobs, NoPort DEF Blank
<1>2. \A s \in Slots : s \notin Released(del) => slot'[s].host = slot[s].host
  BY DropFacts
<1> QED BY <1>1, <1>2 DEF HostsKept

\* A binder settles its slot, the port as it was or the one it bound.
LEMMA SettlePorts ==
  ASSUME IInv, NEW b \in Binders, job[b] # NoJob, NEW ow, NEW rec \in Fwd,
         rec.host \in HostPorts,
         Settle(job[b].slot, job[b].guest, ow, rec), job'[b] = NoJob, JobsEnd
  PROVE  HostsKept
<1> DEFINE s == job[b].slot
<1>1. s \in Slots /\ slot \in [Slots -> Fwd]
  BY DEF IInv, TypeOK, Jobs
<1>2. \A x \in Slots : x # s => slot'[x] = slot[x]
  BY <1>1 DEF Settle
<1>3. slot'[s] = Settled(s, job[b].guest, ow, rec)
  BY <1>1 DEF Settle
<1>4. Settled(s, job[b].guest, ow, rec).host \in HostPorts
  <2>1. CASE forwards[job[b].guest] = s /\ ow # {}
    <3>1. Settled(s, job[b].guest, ow, rec) = [rec EXCEPT !.owners = ow, !.binding = FALSE]
      BY <2>1 DEF Settled
    <3> QED BY <3>1 DEF Fwd
  <2>2. CASE ~(forwards[job[b].guest] = s /\ ow # {})
    BY <2>2, NoPort DEF Settled, Blank
  <2> QED BY <2>1, <2>2
<1>5. \A x \in Binders : job'[x] # NoJob => job'[x].slot # s
  <2>1. \A x \in Binders : x # b /\ job[x] # NoJob => job[x].slot # s
    BY DEF IInv, JobsClaim, Binders
  <2> QED BY <2>1 DEF JobsEnd
<1> QED BY <1>2, <1>3, <1>4, <1>5 DEF HostsKept

\* A bind tries ports in its range, one if it is exact.
LEMMA BindAsked ==
  ASSUME IInv, IInv', AskedPorts, NEW b \in Binders, Bind(b)
  PROVE  AskedPorts'
<1>0. /\ job \in [Binders -> Jobs \union {NoJob}] /\ job[b] \in Jobs /\ job[b] # NoJob
      /\ pc \in [Binders -> {"idle", "req", "downCheck", "downStop"} \union Binding] /\ pc[b] = "try"
  BY DEF IInv, TypeOK, Bind, BindBusy, BindOK, BindErr, Binding
<1>1. UNCHANGED <<req, slot, foreign>>
  BY DEF Bind, BindBusy, BindOK, BindErr, tableVars, hostVars
<1>2. \A x \in Binders : x # b => job'[x] = job[x] /\ pc'[x] = pc[x]
  BY <1>0 DEF Bind, BindBusy, BindOK, BindErr
<1>3. /\ job'[b].slot = job[b].slot /\ job'[b].exact = job[b].exact /\ job'[b].last = job[b].last
      /\ job[b].exact => job'[b].at = job[b].at
  <2>1. job[b].exact => ~(job[b].at < job[b].last)
    BY <1>0 DEF AskedPorts, Jobs
  <2>2. CASE BindBusy(b) /\ job[b].at < job[b].last
    <3>1. job'[b] = [job[b] EXCEPT !.at = @ + 1]
      BY <1>0, <2>2 DEF BindBusy
    <3> QED BY <1>0, <2>1, <2>2, <3>1 DEF Jobs
  <2>3. CASE ~(BindBusy(b) /\ job[b].at < job[b].last)
    BY <2>3 DEF Bind, BindBusy, BindOK, BindErr
  <2> QED BY <2>2, <2>3
<1>4. pc'[b] = "bound" => job'[b] = job[b] /\ job[b].at \in HostPorts
  <2>1. CASE BindOK(b)
    BY <1>0, <2>1, ConstantsAssumption DEF BindOK, Busy, Jobs, HostPorts
  <2>2. CASE BindBusy(b) \/ BindErr(b)
    BY <1>0, <2>2 DEF BindBusy, BindErr
  <2> QED BY <2>1, <2>2 DEF Bind
<1>5. \A x \in Binders : pc'[x] = "bound" => job'[x].at \in HostPorts
  BY <1>2, <1>4 DEF AskedPorts
<1>6. \A x \in Binders : job'[x] # NoJob /\ job'[x].exact =>
        job'[x].at = slot[job'[x].slot].host /\ job'[x].last = job'[x].at
  <2>1. ASSUME NEW x \in Binders, job'[x] # NoJob, job'[x].exact
        PROVE  job'[x].at = slot[job'[x].slot].host /\ job'[x].last = job'[x].at
    <3>1. CASE x = b
      BY <1>0, <1>3, <2>1, <3>1 DEF AskedPorts
    <3>2. CASE x # b
      BY <1>2, <2>1, <3>2 DEF AskedPorts
    <3> QED BY <3>1, <3>2
  <2> QED BY <2>1
<1> QED BY <1>1, <1>5, <1>6 DEF AskedPorts, HostPorts

\* The host port of a forward that is added, or added to.
LEMMA AddAsked ==
  ASSUME IInv, IInv', AskedPorts, NEW p \in Procs, NEW s \in Slots, AddRecord(p, s) \/ AddBind(p, s)
  PROVE  AskedPorts'
<1> USE ConstantsAssumption
<1> DEFINE r == req[p]
           g == req[p].guest
<1>a. r \in Requests /\ r # NoReq
  BY DEF AddRecord, AddBind, IInv, TypeOK
<1>0. /\ g \in Guests /\ r.pref \in HostPorts /\ r.exact \in BOOLEAN /\ r \in Requests
      /\ slot \in [Slots -> Fwd] /\ slot[s] \in Fwd /\ p \in Binders
      /\ job \in [Binders -> Jobs \union {NoJob}] /\ req \in [Procs -> Requests \union {NoReq}]
      /\ pc \in [Binders -> {"idle", "req", "downCheck", "downStop"} \union Binding]
  BY <1>a DEF IInv, TypeOK, Requests, Binders, AskedPorts
<1>1. Target(g, s) /\ Ready(g) /\ ~Conflict(r)
  BY DEF AddRecord, AddBind
<1>2. /\ \A b \in Binders : job[b] # NoJob => job[b].slot # s
      /\ forwards[g] # NoSlot => forwards[g] = s
  BY <1>0, <1>1, TargetFacts
<1>3. \A ex \in BOOLEAN : OwnedBy(r, s, Owned(r, s, ex))
  BY <1>0, <1>1, OwnedFacts
<1>4. ASSUME NEW ex \in BOOLEAN
      PROVE  /\ Owned(r, s, ex) \in Fwd
             /\ forwards[g] = NoSlot => Owned(r, s, ex).host = r.pref
             /\ forwards[g] # NoSlot => Owned(r, s, ex).host = slot[s].host
  BY <1>3 DEF OwnedBy, Owned
<1>5. /\ \A x \in Slots : x # s => slot'[x] = slot[x]
      /\ forwards[g] = NoSlot => slot'[s].host = r.pref
      /\ forwards[g] # NoSlot => slot'[s].host = slot[s].host
  <2>1. CASE AddRecord(p, s)
    <3> DEFINE f == Owned(r, s, r.exact)
    <3>1. slot'[s] = [f EXCEPT !.exact = @ \/ r.exact] /\ \A x \in Slots : x # s => slot'[x] = slot[x]
      BY <1>0, <2>1 DEF AddRecord
    <3>2. f \in Fwd /\ (forwards[g] = NoSlot => f.host = r.pref) /\ (forwards[g] # NoSlot => f.host = slot[s].host)
      BY <1>0, <1>4
    <3> HIDE DEF f
    <3>3. slot'[s].host = f.host
      BY <3>1, <3>2 DEF Fwd
    <3> QED BY <3>1, <3>2, <3>3
  <2>2. CASE AddBind(p, s)
    <3> DEFINE f == Owned(r, s, FALSE)
    <3>1. slot'[s] = [f EXCEPT !.binding = TRUE] /\ \A x \in Slots : x # s => slot'[x] = slot[x]
      BY <1>0, <2>2 DEF AddBind
    <3>2. f \in Fwd /\ (forwards[g] = NoSlot => f.host = r.pref) /\ (forwards[g] # NoSlot => f.host = slot[s].host)
      BY <1>0, <1>4
    <3> HIDE DEF f
    <3>3. slot'[s].host = f.host
      BY <3>1, <3>2 DEF Fwd
    <3> QED BY <3>1, <3>2, <3>3
  <2> QED BY <2>1, <2>2
<1>6. UNCHANGED foreign
  BY DEF AddRecord, AddBind, hostVars
<1>7. CASE AddRecord(p, s)
  <2>1. /\ \A b \in Binders : b # p => job'[b] = job[b] /\ pc'[b] = pc[b]
        /\ job'[p] = NoJob /\ \A q \in Procs : q # p => req'[q] = req[q]
        /\ req'[p] = NoReq
    BY <1>0, <1>7 DEF AddRecord, Finish
  <2>2. HostsKept
    BY <1>0, <1>2, <1>5, <2>1 DEF HostsKept
  <2>3. JobsEnd /\ ReqsEnd
    BY <2>1 DEF JobsEnd, ReqsEnd
  <2> QED BY <1>6, <2>2, <2>3, PortsKept DEF AskedPorts
<1>8. CASE AddBind(p, s)
  <2> DEFINE b == BindAt(r, s)
             new == [slot |-> s, guest |-> r.guest, tr |-> tr, at |-> b.at, last |-> LastPort(b.at, b.exact),
                     exact |-> b.exact, added |-> forwards[r.guest] = NoSlot \/ r.own \notin slot[s].owners]
  <2>1. job' = [job EXCEPT ![p] = new] /\ pc' = [pc EXCEPT ![p] = "try"] /\ req' = req
    BY <1>8 DEF AddBind
  <2>2. /\ \A x \in Binders : x # p => job'[x] = job[x] /\ pc'[x] = pc[x]
        /\ job'[p] = new /\ pc'[p] = "try"
    BY <1>0, <2>1
  <2>3. new.slot = s /\ new.exact = b.exact /\ new.at = b.at /\ new.last = LastPort(b.at, b.exact)
    OBVIOUS
  <2>4. b.exact => b.at = slot'[s].host /\ LastPort(b.at, b.exact) = b.at
    <3>1. CASE forwards[g] = s /\ slot[s].exact
      BY <1>0, <1>5, <3>1 DEF BindAt, LastPort
    <3>2. CASE ~(forwards[g] = s /\ slot[s].exact)
      <4>1. b.exact = r.exact /\ b.at = r.pref
        BY <3>2 DEF BindAt
      <4>2. r.exact => slot'[s].host = r.pref
        BY <1>0, <1>1, <1>2, <1>5 DEF Conflict
      <4> QED BY <4>1, <4>2 DEF LastPort
    <3> QED BY <3>1, <3>2
  <2> HIDE DEF new, b
  <2>5. \A x \in Binders : job'[x] # NoJob /\ job'[x].exact =>
          job'[x].at = slot'[job'[x].slot].host /\ job'[x].last = job'[x].at
    <3>1. ASSUME NEW x \in Binders, job'[x] # NoJob, job'[x].exact
          PROVE  job'[x].at = slot'[job'[x].slot].host /\ job'[x].last = job'[x].at
      <4>1. CASE x = p
        BY <2>2, <2>3, <2>4, <3>1, <4>1
      <4>2. CASE x # p
        <5>1. job'[x] = job[x] /\ job[x].slot \in Slots /\ job[x].slot # s
          BY <1>0, <1>2, <2>2, <3>1, <4>2 DEF Jobs
        <5> QED BY <1>5, <3>1, <5>1 DEF AskedPorts
      <4> QED BY <4>1, <4>2
    <3> QED BY <3>1
  <2>6. \A x \in Binders : pc'[x] = "bound" => job'[x].at \in HostPorts
    BY <2>2 DEF AskedPorts
  <2>7. \A x \in Slots : slot'[x].host \in HostPorts
    BY <1>0, <1>5 DEF AskedPorts
  <2> QED BY <1>6, <2>1, <2>5, <2>6, <2>7 DEF AskedPorts, HostPorts
<1> QED BY <1>7, <1>8

\* A binder gives its slot back, as it was or bound.
LEMMA EndsAsked ==
  ASSUME IInv, IInv', AskedPorts, NEW b \in Binders, job[b] # NoJob,
         \/ \E ow : Settle(job[b].slot, job[b].guest, ow, slot[job[b].slot])
         \/ pc[b] = "bound" /\ Adopt(job[b]),
         job'[b] = NoJob, JobsEnd, ReqsEnd, foreign' = foreign
  PROVE  AskedPorts'
<1> DEFINE j == job[b]
           s == job[b].slot
           rec == [slot[s] EXCEPT !.host = j.at, !.closer = j.tr, !.exact = @ \/ j.exact]
<1>1. /\ s \in Slots /\ slot[s] \in Fwd /\ slot[s].host \in HostPorts
      /\ j.at \in Nat /\ j.tr \in Transports /\ j.exact \in BOOLEAN
  BY DEF IInv, TypeOK, Jobs, AskedPorts
<1>2. rec \in Fwd /\ rec.host = j.at
  BY <1>1 DEF Fwd
<1>3. HostsKept
  <2>1. CASE \E ow : Settle(j.slot, j.guest, ow, slot[s])
    BY <1>1, <2>1, SettlePorts
  <2>2. CASE pc[b] = "bound" /\ Adopt(j)
    <3>1. j.at \in HostPorts
      BY <2>2 DEF AskedPorts
    <3>2. CASE CanAdopt(j)
      <4>1. Settle(s, j.guest, slot[s].owners, rec)
        BY <2>2, <3>2 DEF Adopt
      <4> HIDE DEF rec
      <4> QED BY <1>2, <3>1, <4>1, SettlePorts
    <3>3. CASE ~CanAdopt(j)
      <4>1. Settle(s, j.guest, slot[s].owners, slot[s])
        BY <2>2, <3>3 DEF Adopt
      <4> QED BY <1>1, <4>1, SettlePorts
    <3> QED BY <3>2, <3>3
  <2> QED BY <2>1, <2>2
<1> QED BY <1>3, PortsKept DEF AskedPorts

\* The supervisor's passes over the table keep every port.
LEMMA PassAsked ==
  ASSUME IInv, JobsEnd, OnDead \/ RebindBatch \/ RebindAbort \/ Clear
                        \/ Teardown("teardown", "closing") \/ Teardown("exit", "release")
  PROVE  HostsKept
<1>0. slot \in [Slots -> Fwd] /\ forwards \in [Guests -> Slots \union {NoSlot}] /\ batch \subseteq Slots
  BY DEF IInv, TypeOK
<1>1. CASE OnDead
  <2>1. /\ DropSlots(FromRelays) \in [Slots -> Fwd]
        /\ \A x \in Slots : x \in Released(FromRelays) => DropSlots(FromRelays)[x] = Blank /\ ~slot[x].binding
        /\ \A x \in Slots : x \notin Released(FromRelays) =>
             /\ DropSlots(FromRelays)[x].host = slot[x].host
             /\ DropSlots(FromRelays)[x].closer = slot[x].closer
    BY DropFacts
  <2>2. \A s \in Slots : s \notin Mapped => DropSlots(FromRelays)[s].closer = NoTr
    BY <2>1, UnmappedBare DEF Released
  <2>3. \A s \in Slots : slot'[s].host = DropSlots(FromRelays)[s].host
    BY <1>1, <2>1, <2>2, DetachedFacts DEF OnDead
  <2>4. \A s \in Slots : s \in Released(FromRelays) => \A b \in Binders : job'[b] # NoJob => job'[b].slot # s
    BY <2>1, FreeOfJobs
  <2> QED BY <2>1, <2>3, <2>4, NoPort DEF HostsKept, Blank
<1>2. CASE Teardown("teardown", "closing") \/ Teardown("exit", "release")
  <2>1. \A s \in Slots : slot'[s].host = slot[s].host
    BY <1>0, <1>2, DetachedFacts, UnmappedBare DEF Teardown
  <2> QED BY <2>1 DEF HostsKept
<1>3. CASE RebindBatch
  <2>1. \A s \in Slots : slot'[s].host = slot[s].host
    BY <1>0, <1>3 DEF RebindBatch, Fwd
  <2> QED BY <2>1 DEF HostsKept
<1>4. CASE RebindAbort
  <2>0. job[Sup] = NoJob
    BY <1>4 DEF RebindAbort, IInv, SupOK
  <2>1. ASSUME NEW s \in batch
        PROVE  \/ slot'[s].host = slot[s].host
               \/ slot'[s].host = 0 /\ \A b \in Binders : job'[b] # NoJob => job'[b].slot # s
    <3>1. s \in Slots /\ slot'[s] = Settled(s, slot[s].guest, slot[s].owners, slot[s])
      BY <1>0, <1>4, <2>1 DEF RebindAbort
    <3>2. \A b \in Binders : job'[b] # NoJob => job'[b].slot # s
      BY <2>0, <2>1 DEF JobsEnd, IInv, JobsClaim, Binders
    <3>3. CASE slot'[s] = Blank
      BY <3>2, <3>3 DEF Blank
    <3>4. CASE slot'[s] # Blank
      <4>1. slot'[s] = [slot[s] EXCEPT !.owners = slot[s].owners, !.binding = FALSE]
        BY <3>1, <3>4 DEF Settled
      <4> QED BY <1>0, <3>1, <4>1 DEF Fwd
    <3> QED BY <3>3, <3>4
  <2>2. \A s \in Slots : s \notin batch => slot'[s] = slot[s]
    BY <1>4 DEF RebindAbort
  <2> QED BY <2>1, <2>2, NoPort DEF HostsKept
<1>5. CASE Clear
  <2>1. \A s \in Slots : slot'[s] = slot[s] \/ (slot'[s] = Blank /\ ~slot[s].binding)
    BY <1>5, Zenon DEF Clear
  <2>2. \A s \in Slots : ~slot[s].binding => \A b \in Binders : job'[b] # NoJob => job'[b].slot # s
    BY FreeOfJobs
  <2>3. Blank.host = 0
    BY DEF Blank
  <2> QED BY <2>1, <2>2, <2>3, NoPort DEF HostsKept
<1> QED BY <1>1, <1>2, <1>3, <1>4, <1>5

\* The retry of a forward starts at its port.
LEMMA NextAsked ==
  ASSUME IInv, AskedPorts, NEW s \in Slots, RebindNext(s)
  PROVE  AskedPorts'
<1> DEFINE new == [slot |-> s, guest |-> slot[s].guest, tr |-> tr, at |-> slot[s].host,
                   last |-> LastPort(slot[s].host, slot[s].exact), exact |-> slot[s].exact, added |-> FALSE]
<1>0. /\ job \in [Binders -> Jobs \union {NoJob}] /\ Sup \in Binders
      /\ pc \in [Binders -> {"idle", "req", "downCheck", "downStop"} \union Binding]
  BY DEF IInv, TypeOK, Binders
<1>1. /\ job' = [job EXCEPT ![Sup] = new] /\ pc' = [pc EXCEPT ![Sup] = "try"]
      /\ UNCHANGED <<req, slot, foreign>>
  BY DEF RebindNext, tableVars, hostVars
<1>2. /\ \A x \in Binders : x # Sup => job'[x] = job[x] /\ pc'[x] = pc[x]
      /\ job'[Sup] = new /\ pc'[Sup] = "try"
  BY <1>0, <1>1
<1>3. new.slot = s /\ new.at = slot[s].host /\ (new.exact => new.last = new.at)
  BY DEF LastPort
<1> HIDE DEF new
<1>4. \A x \in Binders : job'[x] # NoJob /\ job'[x].exact =>
        job'[x].at = slot[job'[x].slot].host /\ job'[x].last = job'[x].at
  BY <1>2, <1>3 DEF AskedPorts
<1>5. \A x \in Binders : pc'[x] = "bound" => job'[x].at \in HostPorts
  BY <1>2 DEF AskedPorts
<1> QED BY <1>1, <1>4, <1>5 DEF AskedPorts, HostPorts

\* Every step keeps the ports asked for.
LEMMA NextAskedPorts ==
  ASSUME IInv, AskedPorts, [Next]_vars
  PROVE  AskedPorts'
<1> USE DEF vars, tableVars, sessVars, procVars, passVars, supVars, hostVars
<1>a. IInv'
  BY NextIInv
<1>0. /\ Procs \subseteq Binders /\ Sup \in Binders /\ Sup \notin Procs
      /\ job \in [Binders -> Jobs \union {NoJob}] /\ req \in [Procs -> Requests \union {NoReq}]
      /\ pc \in [Binders -> {"idle", "req", "downCheck", "downStop"} \union Binding]
      /\ \A b \in Binders : job[b] # NoJob <=> pc[b] \in Binding
      /\ foreign \subseteq HostPorts /\ slot \in [Slots -> Fwd]
  BY ConstantsAssumption DEF Binders, IInv, TypeOK, AskedPorts
<1>1. ASSUME UNCHANGED <<req, pc, job>> PROVE JobsEnd /\ ReqsEnd
  BY <1>1 DEF JobsEnd, ReqsEnd
<1>2. ASSUME UNCHANGED <<req, slot, job>>, foreign' \subseteq HostPorts,
             \A b \in Binders : pc'[b] = "bound" => pc[b] = "bound"
      PROVE  AskedPorts'
  BY <1>2 DEF AskedPorts, HostPorts
<1>3. ASSUME UNCHANGED <<req, pc, job, foreign>>, HostsKept
      PROVE  AskedPorts'
  BY <1>0, <1>1, <1>3, <1>a, PortsKept
<1>4. CASE UNCHANGED <<req, slot, job, pc, foreign>>
  BY <1>0, <1>2, <1>4
<1>5. ASSUME NEW del, DropOwners(del), UNCHANGED <<req, pc, job, foreign>> PROVE AskedPorts'
  BY <1>1, <1>3, <1>5, DropPorts DEF DropOwners
<1>6. CASE Client
  <2>1. ASSUME NEW p \in Procs, NEW r, r.pref \in HostPorts, Start(p, r) PROVE AskedPorts'
    <3>1. /\ \A q \in Procs : q # p => req'[q] = req[q]
          /\ req'[p] = r /\ pc'[p] = "req" /\ \A b \in Binders : b # p => pc'[b] = pc[b]
          /\ UNCHANGED <<slot, job, foreign>>
      BY <1>0, <2>1 DEF Start
    <3>2. \A q \in Procs : req'[q] # NoReq => req'[q].pref \in HostPorts
      BY <2>1, <3>1 DEF AskedPorts
    <3>3. \A b \in Binders : pc'[b] = "bound" => pc[b] = "bound"
      BY <3>1
    <3> QED BY <3>1, <3>2, <3>3 DEF AskedPorts, HostPorts
  <2>2. ASSUME NEW p \in Procs, DownDrop(p) PROVE AskedPorts'
    <3>1. JobsEnd /\ ReqsEnd
      BY <1>0, <2>2 DEF DownDrop, JobsEnd, ReqsEnd
    <3>2. HostsKept
      BY <2>2, <3>1, DropPorts DEF DownDrop, DropOwners
    <3> QED BY <1>0, <1>a, <2>2, <3>1, <3>2, PortsKept DEF DownDrop
  <2>3. ASSUME NEW p \in Procs, NEW g \in Guests,
               \/ \E pref \in Prefs, ex \in BOOLEAN :
                    OneShotAdd(p, g, pref, ex) \/ \E c \in Conns : SessionAdd(p, c, g, pref, ex)
               \/ \E c \in Conns, redirect \in BOOLEAN : BridgeAdd(p, c, g, redirect)
        PROVE  AskedPorts'
    BY <2>1, <2>3, NoPort DEF OneShotAdd, SessionAdd, BridgeAdd
  <2>4. ASSUME NEW g \in Guests, NEW o \in Owners, Remove(g, o) PROVE AskedPorts'
    BY <1>5, <2>4 DEF Remove
  <2>5. CASE Stop \/ \E c \in Conns : ReaderEnds(c) \/ \E r \in BOOLEAN : OpenSession(c, r)
    BY <1>4, <2>5 DEF Stop, ReaderEnds, OpenSession
  <2> QED BY <1>6, <2>2, <2>3, <2>4, <2>5 DEF Client
<1>7. ASSUME NEW p \in Procs, Handle(p) PROVE AskedPorts'
  <2>1. CASE AddGone(p) \/ AddRefused(p) \/ DownCheck(p) \/ DownStop(p)
    <3>1. JobsEnd /\ ReqsEnd /\ UNCHANGED <<slot, foreign>>
      BY <1>0, <2>1 DEF AddGone, AddRefused, DownCheck, DownStop, Finish, JobsEnd, ReqsEnd
    <3>2. HostsKept
      BY <3>1 DEF HostsKept
    <3> QED BY <1>0, <1>a, <3>1, <3>2, PortsKept
  <2>2. CASE BindSlotFailed(p) \/ AddAdopt(p)
    <3>1. /\ job[p] # NoJob /\ job'[p] = NoJob /\ JobsEnd /\ ReqsEnd /\ foreign' = foreign
      BY <1>0, <2>2 DEF BindSlotFailed, AddAdopt, Finish, JobsEnd, ReqsEnd, Binding
    <3>2. \/ \E ow : Settle(job[p].slot, job[p].guest, ow, slot[job[p].slot])
          \/ pc[p] = "bound" /\ Adopt(job[p])
      BY <2>2 DEF BindSlotFailed, AddAdopt
    <3> QED BY <1>0, <1>a, <3>1, <3>2, EndsAsked
  <2> QED BY <1>0, <1>7, <1>a, <2>1, <2>2, AddAsked, BindAsked DEF Handle
<1>8. ASSUME NEW c \in Conns, CloseSession(c) PROVE AskedPorts'
  BY <1>5, <1>8 DEF CloseSession
<1>9. CASE (\E c \in closing : CloseForward(c)) \/ World
  <2>1. ASSUME NEW p \in ForeignPorts, ForeignTakes(p) \/ ForeignFrees(p) PROVE AskedPorts'
    <3>0. ~Busy(p) => p \in HostPorts
      BY ConstantsAssumption DEF Busy, HostPorts
    <3>1. foreign' \subseteq HostPorts
      BY <1>0, <2>1, <3>0 DEF ForeignTakes, ForeignFrees
    <3> QED BY <1>2, <2>1, <3>1 DEF ForeignTakes, ForeignFrees
  <2> QED BY <1>4, <1>9, <2>1 DEF CloseForward, World, TransportDies, TTLLapses, LateArrives
<1>10. CASE Supervise
  <2>1. CASE RebindAdopt \/ RebindFailed
    <3>1. /\ job[Sup] # NoJob /\ job'[Sup] = NoJob /\ JobsEnd /\ ReqsEnd /\ foreign' = foreign
      BY <1>0, <2>1 DEF RebindAdopt, RebindFailed, NextJob, JobsEnd, ReqsEnd, Binding
    <3>2. \/ \E ow : Settle(job[Sup].slot, job[Sup].guest, ow, slot[job[Sup].slot])
          \/ pc[Sup] = "bound" /\ Adopt(job[Sup])
      BY <2>1 DEF RebindAdopt, RebindFailed
    <3> QED BY <1>0, <1>a, <3>1, <3>2, EndsAsked
  <2>2. CASE RebindBatch \/ RebindAbort \/ OnDead \/ Clear
             \/ Teardown("teardown", "closing") \/ Teardown("exit", "release")
    <3>1. UNCHANGED <<req, pc, job, foreign>>
      BY <2>2 DEF RebindBatch, RebindAbort, OnDead, Clear, Teardown
    <3> QED BY <1>1, <1>3, <2>2, <3>1, PassAsked
  <2>3. CASE Pass
    BY <1>0, <1>4, <1>a, <2>1, <2>2, <2>3, NextAsked, BindAsked DEF Pass, RebindDone
  <2>4. CASE Expire \/ \E t \in Transports : DialOK(t)
    BY <1>5, <2>4 DEF Expire, DialOK
  <2>5. CASE \/ SeesStop \/ IdleExit \/ CloseOld \/ Dial \/ DialFails \/ DialUnmanaged
             \/ Install \/ RetryTick \/ Announce \/ Release \/ Exit
    BY <1>4, <2>5 DEF SeesStop, IdleExit, CloseOld, Dial, DialFails, DialUnmanaged, Install,
                      RetryTick, Announce, Release, Exit
  <2> QED BY <1>10, <2>2, <2>3, <2>4, <2>5 DEF Supervise
<1> QED BY <1>4, <1>6, <1>7, <1>8, <1>9, <1>10 DEF Next, Done

-----------------------------------------------------------------------------
(* The steps, as the table's. *)

\* A binder settles its slot: only the forward it was for may be seen to change.
LEMMA SettleShown ==
  ASSUME IInv, NEW b \in Binders, job[b] # NoJob, NEW ow, NEW rec \in Fwd,
         Settle(job[b].slot, job[b].guest, ow, rec), NEW g \in Guests
  PROVE  /\ forwards[g] # job[b].slot => Shown(g)' = Shown(g)
         /\ forwards[g] = job[b].slot => g = job[b].guest
         /\ forwards[g] = job[b].slot /\ ow = {} => Shown(g)' = Table!Free
         /\ forwards[g] = job[b].slot /\ ow # {} =>
              Shown(g)' = [owners |-> ow, host |-> rec.host, exact |-> rec.exact, bound |-> rec.closer # NoTr]
<1> USE ConstantsAssumption
<1> DEFINE s == job[b].slot
<1>1. /\ s \in Slots /\ slot \in [Slots -> Fwd] /\ forwards \in [Guests -> Slots \union {NoSlot}]
      /\ slot[s].guest = job[b].guest /\ job[b].guest \in Guests
  BY DEF IInv, TypeOK, Jobs, JobsClaim
<1>2. /\ slot' = [slot EXCEPT ![s] = Settled(s, job[b].guest, ow, rec)]
      /\ forwards' = [forwards EXCEPT ![job[b].guest] = IF @ = s /\ ow = {} THEN NoSlot ELSE @]
  BY DEF Settle
<1>3. forwards[g] = s => g = job[b].guest
  BY <1>1 DEF IInv, Keyed
<1>4. CASE forwards[g] # s
  <2>1. forwards'[g] = forwards[g] /\ (forwards[g] # NoSlot => slot'[forwards[g]] = slot[forwards[g]])
    BY <1>1, <1>2, <1>4
  <2> QED BY <1>4, <2>1 DEF Shown
<1>5. CASE forwards[g] = s /\ ow = {}
  <2>1. forwards'[g] = NoSlot
    BY <1>1, <1>2, <1>3, <1>5
  <2> QED BY <1>3, <1>5, <2>1 DEF Shown, Table!Free
<1>6. CASE forwards[g] = s /\ ow # {}
  <2>1. forwards'[g] = s /\ slot'[s] = [rec EXCEPT !.owners = ow, !.binding = FALSE]
    BY <1>1, <1>2, <1>3, <1>6 DEF Settled
  <2>2. slot'[s].owners = ow /\ slot'[s].host = rec.host /\ slot'[s].exact = rec.exact /\ slot'[s].closer = rec.closer
    BY <2>1 DEF Fwd
  <2> QED BY <1>1, <1>3, <1>6, <2>1, <2>2 DEF Shown
<1> QED BY <1>3, <1>4, <1>5, <1>6

\* Settled with nothing changed, the forward is seen as it was.
LEMMA SettledAsIs ==
  ASSUME IInv, Apart, NEW b \in Binders, job[b] # NoJob,
         Settle(job[b].slot, job[b].guest, slot[job[b].slot].owners, slot[job[b].slot])
  PROVE  Shows
<1>1. job[b].slot \in Slots /\ slot[job[b].slot] \in Fwd
  BY DEF IInv, TypeOK, Jobs
<1>2. ASSUME NEW g \in Guests PROVE Shown(g)' = Shown(g)
  <2>1. CASE forwards[g] # job[b].slot
    BY <1>1, <2>1, SettleShown
  <2>2. CASE forwards[g] = job[b].slot /\ slot[job[b].slot].owners = {}
    <3>1. Shown(g)' = Table!Free
      BY <1>1, <2>2, SettleShown
    <3> QED BY <2>2, <3>1 DEF Shown, Table!Free
  <2>3. CASE forwards[g] = job[b].slot /\ slot[job[b].slot].owners # {}
    <3>1. Shown(g)' = [owners |-> slot[job[b].slot].owners, host |-> slot[job[b].slot].host,
                       exact |-> slot[job[b].slot].exact, bound |-> slot[job[b].slot].closer # NoTr]
      BY <1>1, <2>3, SettleShown
    <3> QED BY <1>1, <2>3, <3>1, ConstantsAssumption DEF Shown
  <2> QED BY <2>1, <2>2, <2>3
<1> QED BY <1>2, ShownKept

\* A failed bind takes the owner it was for back, or leaves the forward pending.
LEMMA FailedShows ==
  ASSUME IInv, sup # "exited", NEW p \in Procs, BindSlotFailed(p)
  PROVE  Shows
<1> DEFINE s == job[p].slot
           o == req[p].own
<1>0. /\ p \in Binders /\ job[p] # NoJob /\ o \in Owners /\ s \in Slots /\ slot[s] \in Fwd
      /\ slot[s].closer = NoTr /\ job[p].guest \in Guests
  <2>1. p \in Binders /\ pc[p] \in Binding
    BY DEF BindSlotFailed, Binders, Binding
  <2>2. job[p] # NoJob /\ req[p] # NoReq /\ job[p] \in Jobs /\ req[p] \in Requests
    BY <2>1 DEF IInv, TypeOK
  <2> QED BY <2>1, <2>2 DEF IInv, TypeOK, Jobs, Requests, JobsClaim, ClaimsHeld
<1>1. Apart
  BY DEF BindSlotFailed, Apart, Phase, sessVars, supVars, hostVars
<1>2. CASE Settle(s, job[p].guest, slot[s].owners, slot[s])
  BY <1>0, <1>1, <1>2, SettledAsIs
<1>3. CASE Settle(s, job[p].guest, slot[s].owners \ {o}, slot[s])
  <2>1. CASE forwards[job[p].guest] = s
    <3>1. ASSUME NEW g \in Guests
          PROVE  Shown(g)' = IF g = job[p].guest THEN Table!Without(Shown(g), {o}) ELSE Shown(g)
      <4>1. CASE forwards[g] # s
        BY <1>0, <1>3, <2>1, <4>1, SettleShown
      <4>2. CASE forwards[g] = s /\ slot[s].owners \ {o} = {}
        <5>1. Shown(g)' = Table!Free /\ g = job[p].guest
          BY <1>0, <1>3, <4>2, SettleShown
        <5>2. Shown(g).owners \subseteq {o}
          BY <4>2 DEF Shown
        <5> QED BY <5>1, <5>2 DEF Table!Without
      <4>3. CASE forwards[g] = s /\ slot[s].owners \ {o} # {}
        <5>1. /\ Shown(g)' = [owners |-> slot[s].owners \ {o}, host |-> slot[s].host,
                              exact |-> slot[s].exact, bound |-> slot[s].closer # NoTr]
              /\ g = job[p].guest
          BY <1>0, <1>3, <4>3, SettleShown
        <5>2. Shown(g) = [owners |-> slot[s].owners, host |-> slot[s].host,
                          exact |-> slot[s].exact, bound |-> slot[s].closer # NoTr]
          BY <1>0, <4>3, ConstantsAssumption DEF Shown
        <5> QED BY <4>3, <5>1, <5>2 DEF Table!Without
      <4> QED BY <4>1, <4>2, <4>3
    <3> QED BY <1>0, <1>1, <3>1, ShownRemove
  <2>2. CASE forwards[job[p].guest] # s
    <3>1. \A g \in Guests : Shown(g)' = Shown(g)
      BY <1>0, <1>3, <2>2, SettleShown
    <3> QED BY <1>1, <3>1, ShownKept
  <2> QED BY <2>1, <2>2
<1> QED BY <1>2, <1>3 DEF BindSlotFailed

\* The supervisor's binds fail, or restore gives up: the forwards stay pending.
LEMMA RebindFailsShows ==
  ASSUME IInv, sup # "exited", RebindFailed \/ RebindAbort \/ RebindBatch
  PROVE  Shows
<1>0. slot \in [Slots -> Fwd] /\ forwards \in [Guests -> Slots \union {NoSlot}]
  BY DEF IInv, TypeOK
<1>1. CASE RebindFailed
  <2>1. Sup \in Binders /\ job[Sup] # NoJob
    BY <1>1 DEF RebindFailed, IInv, TypeOK, Binding, Binders
  <2>2. Apart
    BY <1>1 DEF RebindFailed, FailsFast, Apart, Phase, sessVars, hostVars
  <2> QED BY <1>1, <2>1, <2>2, SettledAsIs DEF RebindFailed
<1>2. CASE RebindBatch
  <2>1. ASSUME NEW s \in Slots
        PROVE  /\ slot'[s].owners = slot[s].owners /\ slot'[s].host = slot[s].host
               /\ slot'[s].exact = slot[s].exact /\ slot'[s].closer = slot[s].closer
    BY <1>0, <1>2 DEF RebindBatch, Fwd
  <2>2. forwards' = forwards /\ Apart
    BY <1>2 DEF RebindBatch, Apart, Phase, sessVars, supVars, hostVars
  <2>3. ASSUME NEW g \in Guests PROVE Shown(g)' = Shown(g)
    BY <1>0, <2>1, <2>2 DEF Shown
  <2> QED BY <2>2, <2>3, ShownKept
<1>3. CASE RebindAbort
  <2>1. Apart
    BY <1>3 DEF RebindAbort, Apart, Phase, sessVars, hostVars
  <2>2. ASSUME NEW g \in Guests PROVE Shown(g)' = Shown(g)
    <3> DEFINE s == forwards[g]
    <3>0. s # NoSlot => s \in Slots /\ slot[s].guest = g
      BY <1>0 DEF IInv, Keyed
    <3>1. CASE s = NoSlot
      <4>1. forwards'[g] = NoSlot
        BY <1>3, <3>1 DEF RebindAbort
      <4> QED BY <3>1, <4>1 DEF Shown
    <3>2. CASE s # NoSlot /\ s \notin batch
      <4>1. forwards'[g] = s /\ slot'[s] = slot[s]
        BY <1>3, <3>0, <3>2 DEF RebindAbort
      <4> QED BY <3>2, <4>1 DEF Shown
    <3>3. CASE s # NoSlot /\ s \in batch /\ slot[s].owners = {}
      <4>1. forwards'[g] = NoSlot
        BY <1>3, <3>3 DEF RebindAbort
      <4> QED BY <3>3, <4>1 DEF Shown
    <3>4. CASE s # NoSlot /\ s \in batch /\ slot[s].owners # {}
      <4>1. forwards'[g] = s /\ slot'[s] = [slot[s] EXCEPT !.owners = slot[s].owners, !.binding = FALSE]
        BY <1>3, <3>0, <3>4 DEF RebindAbort, Settled
      <4>2. /\ slot'[s].owners = slot[s].owners /\ slot'[s].host = slot[s].host
            /\ slot'[s].exact = slot[s].exact /\ slot'[s].closer = slot[s].closer
        BY <1>0, <3>0, <3>4, <4>1 DEF Fwd
      <4> QED BY <3>4, <4>1, <4>2 DEF Shown
    <3> QED BY <3>1, <3>2, <3>3, <3>4
  <2> QED BY <2>1, <2>2, ShownKept
<1> QED BY <1>1, <1>2, <1>3

\* adopt binds the forward to the listener its bind opened, or leaves it.
LEMMA AdoptShows ==
  ASSUME HInv, AskedPorts, Apart, NEW b \in Binders, pc[b] = "bound", Adopt(job[b])
  PROVE  Shows
<1> DEFINE j == job[b]
           s == job[b].slot
           ex == slot[s].exact \/ j.exact
           rec == [slot[s] EXCEPT !.host = j.at, !.closer = j.tr, !.exact = @ \/ j.exact]
<1>0. /\ IInv /\ j # NoJob /\ j \in Jobs /\ s \in Slots /\ slot[s] \in Fwd /\ j.guest \in Guests
      /\ j.at \in HostPorts /\ j.tr \in Transports /\ j.at \in Nat /\ j.exact \in BOOLEAN /\ slot[s].exact \in BOOLEAN
  BY DEF HInv, IInv, TypeOK, Jobs, Binding, AskedPorts, Fwd
<1>a. PICK g \in Guests : g = j.guest
  BY <1>0
<1>1. CASE ~CanAdopt(j)
  <2>1. Settle(s, g, slot[s].owners, slot[s])
    BY <1>1, <1>a DEF Adopt
  <2> QED BY <1>0, <1>a, <2>1, SettledAsIs
<1>2. CASE CanAdopt(j)
  <2>1. Settle(s, g, slot[s].owners, rec) /\ forwards[g] = s /\ slot[s].owners # {}
        /\ slot[s].closer = NoTr /\ tr = j.tr
    BY <1>2, <1>a DEF Adopt, CanAdopt
  <2>2. rec \in Fwd /\ rec.host = j.at /\ rec.exact = ex /\ rec.closer = j.tr /\ ex \in BOOLEAN
    BY <1>0 DEF Fwd
  <2> HIDE DEF rec, ex
  <2>3. Shown(g)' = [owners |-> slot[s].owners, host |-> j.at, exact |-> ex, bound |-> TRUE]
    <3>1. Shown(g)' = [owners |-> slot[s].owners, host |-> rec.host, exact |-> rec.exact, bound |-> rec.closer # NoTr]
      BY <1>0, <1>a, <2>1, <2>2, SettleShown
    <3> QED BY <1>0, <2>2, <3>1, ConstantsAssumption
  <2>4. Shown(g) = [owners |-> slot[s].owners, host |-> slot[s].host, exact |-> slot[s].exact, bound |-> FALSE]
    BY <1>0, <2>1, ConstantsAssumption DEF Shown
  <2>5. \A h \in Guests : h # g => Shown(h)' = Shown(h)
    BY <1>0, <1>a, <2>1, <2>2, SettleShown
  <2>6. ex => j.at = slot[s].host
    BY <1>0 DEF ex, IInv, ExactJobs, AskedPorts
  <2>7. Phase = "serving" /\ Table!Listener(g, j.at) \in Open
    <3>1. tr # NoTr
      BY <1>0, <2>1, ConstantsAssumption
    <3>2. Phase = "serving"
      BY <1>0, <3>1 DEF Phase, IInv, SupOK
    <3>3. Opened(b) \in carried
      BY <2>1, <3>1 DEF HInv, TransportsHeld, ListenersHeld
    <3> QED BY <1>a, <3>2, <3>3 DEF Opened, Open, Table!Listener
  <2>8. Table!Bind(g, j.at, ex)
    <3>1. [h \in Guests |-> Shown(h)]' =
            [[h \in Guests |-> Shown(h)] EXCEPT ![g] =
               [owners |-> @.owners, host |-> j.at, exact |-> ex, bound |-> TRUE]]
      <4>1. \A h \in Guests : Shown(h)' = IF h = g THEN [owners |-> Shown(g).owners, host |-> j.at,
                                                         exact |-> ex, bound |-> TRUE]
                                        ELSE Shown(h)
        BY <2>3, <2>4, <2>5
      <4> QED BY <4>1
    <3>2. Shown(g) # Table!Free /\ ~Shown(g).bound /\ (Shown(g).exact => ex) /\ (ex => j.at = Shown(g).host)
      BY <1>0, <2>1, <2>4, <2>6 DEF Table!Free, ex
    <3> QED BY <1>0, <2>7, <3>1, <3>2 DEF Table!Bind, Apart, Relays, Open
  <2> QED BY <1>0, <2>2, <2>7, <2>8 DEF Shows, Table!TableNext, Table!Changes
<1> QED BY <1>1, <1>2

\* One owner is recorded on a forward, the first one with its port.
LEMMA AddShows ==
  ASSUME IInv, AskedPorts, sup # "exited", NEW p \in Procs, NEW s \in Slots, AddRecord(p, s) \/ AddBind(p, s)
  PROVE  Shows
<1> USE ConstantsAssumption
<1> DEFINE r == req[p]
<1>a. r \in Requests /\ r # NoReq
  BY DEF AddRecord, AddBind, IInv, TypeOK
<1>b. PICK g \in Guests, o \in Owners, h \in HostPorts : g = r.guest /\ o = r.own /\ h = r.pref
  BY <1>a DEF Requests, AskedPorts
<1>0. /\ slot \in [Slots -> Fwd] /\ slot[s] \in Fwd /\ forwards \in [Guests -> Slots \union {NoSlot}]
      /\ r.exact \in BOOLEAN
  BY <1>a DEF IInv, TypeOK, Requests
<1>1. Target(g, s) /\ Ready(g) /\ ~Conflict(r) /\ ~Gone(r)
  BY <1>b DEF AddRecord, AddBind
<1>2. /\ \A x \in Guests : forwards[x] = s => x = g
      /\ forwards[g] # NoSlot => forwards[g] = s
      /\ ~slot[s].binding
  BY <1>0, <1>1, TargetFacts
<1>3. Apart
  BY DEF AddRecord, AddBind, Apart, Phase, sessVars, supVars, hostVars
<1>4. PICK ex \in BOOLEAN :
        /\ \/ AddRecord(p, s) /\ ex = r.exact
           \/ AddBind(p, s) /\ ex = FALSE
        /\ ex => r.exact
  BY <1>0
<1>5. PICK f \in Fwd : f = Owned(r, s, ex) /\ OwnedBy(r, s, f)
  BY <1>a, <1>b, <1>1, OwnedFacts DEF OwnedBy
<1>6. f.host = IF forwards[g] = NoSlot THEN h ELSE slot[s].host
  BY <1>b, <1>5 DEF Owned, OwnedBy
<1>7. f.exact = IF forwards[g] = NoSlot THEN ex ELSE slot[s].exact
  BY <1>b, <1>5 DEF Owned, OwnedBy
<1>8. /\ forwards' = [forwards EXCEPT ![g] = s]
      /\ \A x \in Slots : x # s => slot'[x] = slot[x]
      /\ slot'[s].owners = f.owners /\ slot'[s].host = f.host /\ slot'[s].closer = f.closer
      /\ slot'[s].exact = (f.exact \/ ex)
  <2>1. CASE AddRecord(p, s) /\ ex = r.exact
    <3>1. slot' = [slot EXCEPT ![s] = [f EXCEPT !.exact = @ \/ ex]] /\ forwards' = [forwards EXCEPT ![g] = s]
      BY <1>b, <1>5, <2>1 DEF AddRecord
    <3>2. slot'[s] = [f EXCEPT !.exact = @ \/ ex] /\ \A x \in Slots : x # s => slot'[x] = slot[x]
      BY <1>0, <3>1
    <3> QED BY <3>1, <3>2 DEF Fwd
  <2>2. CASE AddBind(p, s) /\ ex = FALSE
    <3>1. slot' = [slot EXCEPT ![s] = [f EXCEPT !.binding = TRUE]] /\ forwards' = [forwards EXCEPT ![g] = s]
      BY <1>b, <1>5, <2>2 DEF AddBind
    <3>2. slot'[s] = [f EXCEPT !.binding = TRUE] /\ \A x \in Slots : x # s => slot'[x] = slot[x]
      BY <1>0, <3>1
    <3>3. f.exact \in BOOLEAN
      BY DEF Fwd
    <3> QED BY <2>2, <3>1, <3>2, <3>3 DEF Fwd
  <2> QED BY <1>4, <2>1, <2>2
<1>9. \A x \in Guests : x # g => Shown(x)' = Shown(x)
  <2>1. ASSUME NEW x \in Guests, x # g PROVE Shown(x)' = Shown(x)
    <3>1. forwards'[x] = forwards[x] /\ forwards[x] # s
      BY <1>0, <1>2, <1>8, <2>1
    <3> QED BY <1>0, <1>8, <3>1 DEF Shown
  <2> QED BY <2>1
<1>10. /\ o \in f.owners
       /\ Shown(g)' = [owners |-> f.owners, host |-> f.host, exact |-> f.exact \/ ex, bound |-> f.closer # NoTr]
  <2>1. o \in f.owners /\ forwards'[g] = s
    BY <1>0, <1>b, <1>5, <1>8 DEF OwnedBy
  <2> QED BY <1>8, <2>1 DEF Shown
<1>11. o \in sessions \union {Conf, TTL}
  BY <1>b, <1>1 DEF Gone, Owners
<1>12. CASE forwards[g] = NoSlot
  <2>1. Shown(g) = Table!Free
    BY <1>12 DEF Shown, Table!Free
  <2>2. f.owners = {o} /\ f.closer = NoTr /\ f.host = h /\ f.exact = ex
    BY <1>b, <1>5, <1>6, <1>7, <1>12 DEF OwnedBy
  <2>3. Shown(g)' = [owners |-> {o}, host |-> h, exact |-> ex, bound |-> FALSE]
    BY <1>10, <2>2
  <2>4. [x \in Guests |-> Shown(x)]' = [[x \in Guests |-> Shown(x)] EXCEPT ![g] =
          IF @ = Table!Free THEN [owners |-> {o}, host |-> h, exact |-> ex, bound |-> FALSE]
                            ELSE [owners |-> @.owners \union {o}, host |-> @.host,
                                  exact |-> @.exact \/ ex, bound |-> @.bound]]
    BY <1>9, <2>1, <2>3
  <2>5. Table!Add(g, o, h, ex)
    BY <1>3, <1>11, <2>1, <2>4 DEF Table!Add, Apart, Relays
  <2> QED BY <1>3, <2>5 DEF Shows, Table!TableNext, Table!Changes, Owners, Apart, Phase
<1>13. CASE forwards[g] # NoSlot
  <2>1. slot[s].owners # {} /\ forwards[g] = s /\ slot[s].exact \in BOOLEAN
    BY <1>0, <1>2, <1>13 DEF IInv, Owned1, Fwd
  <2>2. Shown(g) = [owners |-> slot[s].owners, host |-> slot[s].host, exact |-> slot[s].exact,
                    bound |-> slot[s].closer # NoTr]
    BY <1>13, <2>1 DEF Shown
  <2>3. Shown(g) # Table!Free
    BY <2>1, <2>2 DEF Table!Free
  <2>4. ex => h = slot[s].host
    BY <1>b, <1>1, <1>4, <2>1 DEF Conflict
  <2>5. f.owners = slot[s].owners \union {o} /\ f.closer = slot[s].closer /\ f.host = slot[s].host /\ f.exact = slot[s].exact
    BY <1>b, <1>5, <1>13 DEF OwnedBy
  <2>6. Shown(g)' = [owners |-> slot[s].owners \union {o}, host |-> slot[s].host,
                     exact |-> slot[s].exact \/ ex, bound |-> slot[s].closer # NoTr]
    BY <1>10, <2>5
  <2>7. [x \in Guests |-> Shown(x)]' = [[x \in Guests |-> Shown(x)] EXCEPT ![g] =
          IF @ = Table!Free THEN [owners |-> {o}, host |-> h, exact |-> ex, bound |-> FALSE]
                            ELSE [owners |-> @.owners \union {o}, host |-> @.host,
                                  exact |-> @.exact \/ ex, bound |-> @.bound]]
    <3>1. Shown(g)' = [owners |-> Shown(g).owners \union {o}, host |-> Shown(g).host,
                       exact |-> Shown(g).exact \/ ex, bound |-> Shown(g).bound]
      BY <2>2, <2>6
    <3>2. \A x \in Guests : Shown(x)' =
            IF x = g THEN [owners |-> Shown(g).owners \union {o}, host |-> Shown(g).host,
                           exact |-> Shown(g).exact \/ ex, bound |-> Shown(g).bound]
                     ELSE Shown(x)
      BY <1>9, <3>1
    <3> QED BY <2>3, <3>2
  <2>8. Table!Add(g, o, h, ex)
    BY <1>3, <1>11, <2>2, <2>4, <2>7 DEF Table!Add, Apart, Relays
  <2> QED BY <1>3, <2>8 DEF Shows, Table!TableNext, Table!Changes, Owners, Apart, Phase
<1> QED BY <1>12, <1>13

\* What the mapping of one step rests on.
TInv == HInv /\ RInv /\ AskedPorts

\* One tr.forward that opened a listener.
LEMMA BindShows ==
  ASSUME IInv, Kind = "smol", sup # "exited", NEW b \in Binders, BindOK(b)
  PROVE  Shows
<1>1. PICK g \in Guests, h \in Nat, t \in Transports : g = job[b].guest /\ h = job[b].at /\ t = job[b].tr
  BY DEF BindOK, IInv, TypeOK, Binding, Jobs
<1>2. /\ ~Busy(h) /\ UNCHANGED <<forwards, slot, sessions, relay, foreign>> /\ Phase' = Phase
      /\ carried' = carried \union {[tr |-> t, host |-> h, guest |-> g]}
  BY <1>1 DEF BindOK, Carrier, Phase, tableVars, sessVars, supVars
<1> QED BY <1>2, ListenShows

\* Handlers' steps.
LEMMA HandleShows ==
  ASSUME TInv, Kind = "smol", sup # "exited", NEW p \in Procs, Handle(p)
  PROVE  Shows
<1>0. IInv /\ HInv /\ RInv /\ AskedPorts /\ p \in Binders
  BY DEF TInv, HInv, Binders
<1>1. CASE AddGone(p) \/ AddRefused(p) \/ DownCheck(p) \/ DownStop(p)
  BY <1>1, Unseen DEF AddGone, AddRefused, DownCheck, DownStop, Apart, Phase, tableVars, sessVars, supVars, hostVars
<1>2. CASE AddAdopt(p)
  BY <1>0, <1>2, AdoptShows DEF AddAdopt, Apart, Phase, sessVars, supVars
<1>3. CASE BindBusy(p) \/ BindErr(p)
  BY <1>3, Unseen DEF BindBusy, BindErr, Apart, Phase, tableVars, sessVars, supVars, hostVars
<1>4. CASE \E s \in Slots : AddRecord(p, s) \/ AddBind(p, s)
  BY <1>0, <1>4, AddShows
<1>5. CASE BindSlotFailed(p)
  BY <1>0, <1>5, FailedShows
<1>6. CASE BindOK(p)
  BY <1>0, <1>6, BindShows
<1> QED BY <1>1, <1>2, <1>3, <1>4, <1>5, <1>6 DEF Handle, Bind

\* The supervisor's steps.
LEMMA SuperviseShows ==
  ASSUME TInv, HInv', Kind = "smol", sup # "exited", Supervise
  PROVE  Shows
<1>0. IInv /\ HInv /\ RInv /\ AskedPorts /\ Sup \in Binders
  BY DEF TInv, HInv, Binders
<1>1. CASE \/ SeesStop \/ IdleExit \/ Dial \/ DialFails \/ DialUnmanaged \/ Install \/ RetryTick \/ Announce
           \/ RebindDone \/ \E s \in Slots : RebindNext(s)
  BY <1>1, Unseen DEF SeesStop, IdleExit, Dial, DialFails, DialUnmanaged, Install, RetryTick, Announce,
       RebindDone, RebindNext, PassReady, Apart, Phase, tableVars, sessVars, supVars, hostVars
<1>2. CASE BindBusy(Sup) \/ BindErr(Sup)
  BY <1>2, Unseen DEF BindBusy, BindErr, Apart, Phase, tableVars, sessVars, supVars, hostVars
<1>3. CASE RebindAdopt
  BY <1>0, <1>3, AdoptShows DEF RebindAdopt, Apart, Phase, sessVars, supVars
<1>4. CASE BindOK(Sup)
  BY <1>0, <1>4, BindShows
<1>5. CASE RebindFailed \/ RebindAbort \/ RebindBatch
  BY <1>0, <1>5, RebindFailsShows
<1>6. CASE OnDead
  BY <1>0, <1>6, OnDeadShows
<1>7. CASE Teardown("teardown", "closing") \/ Teardown("exit", "release")
  BY <1>0, <1>7, TeardownShows
<1>8. CASE Clear \/ Exit
  BY <1>0, <1>8, EndShows
<1>9. CASE CloseOld \/ Release
  <2>1. /\ Phase' = Phase /\ carried' \subseteq carried
        /\ UNCHANGED <<forwards, slot, sessions, relay, foreign>>
    BY <1>9 DEF CloseOld, Release, CloseTransport, Phase, tableVars, sessVars
  <2> QED BY <2>1, UnlistenShows
<1>10. CASE Expire \/ \E t \in Transports : DialOK(t)
  <2>1. Apart /\ DropOwners(ExpiredTTL)
    BY <1>10 DEF Expire, DialOK, Apart, Phase, sessVars
  <2> QED BY <1>0, <2>1, DropsShow
<1> QED BY <1>1, <1>2, <1>3, <1>4, <1>5, <1>6, <1>7, <1>8, <1>9, <1>10 DEF Supervise, Pass, Bind

\* What clients and the host do.
LEMMA ClientShows ==
  ASSUME TInv, Kind = "smol", sup # "exited", Client \/ World
  PROVE  Shows
<1>0. IInv /\ HInv /\ RInv /\ AskedPorts /\ foreign \subseteq HostPorts
  BY DEF TInv, HInv, AskedPorts
<1>1. ASSUME NEW p \in Procs, NEW r, Start(p, r) PROVE Shows
  BY <1>1, Unseen DEF Start, Apart, Phase, tableVars, sessVars, supVars, hostVars
<1>2. ASSUME NEW p \in Procs, NEW g \in Guests,
             \/ \E pref \in Prefs, ex \in BOOLEAN :
                  OneShotAdd(p, g, pref, ex) \/ \E c \in Conns : SessionAdd(p, c, g, pref, ex)
             \/ \E c \in Conns, redirect \in BOOLEAN : BridgeAdd(p, c, g, redirect)
      PROVE  Shows
  BY <1>1, <1>2 DEF OneShotAdd, SessionAdd, BridgeAdd
<1>3. ASSUME NEW g \in Guests, NEW o \in Owners, Remove(g, o) PROVE Shows
  <2>1. Apart /\ forwards[g] # NoSlot /\ DropOwners(FromSlot(forwards[g], o))
    BY <1>3 DEF Remove, Apart, Phase, sessVars, supVars
  <2> QED BY <1>0, <2>1, DropsShow
<1>4. ASSUME NEW p \in Procs, DownDrop(p) PROVE Shows
  <2>1. Apart /\ DropOwners(FromAll(Conf))
    BY <1>4 DEF DownDrop, Apart, Phase, sessVars, supVars
  <2> QED BY <1>0, <2>1, DropsShow
<1>5. CASE Stop \/ \E c \in Conns : ReaderEnds(c)
  BY <1>5, Unseen DEF Stop, ReaderEnds, Apart, Phase, tableVars, sessVars, supVars, hostVars
<1>6. ASSUME NEW c \in Conns, NEW r \in BOOLEAN, OpenSession(c, r) PROVE Shows
  BY <1>0, <1>6, OpenSessionShows
<1>7. CASE LateArrives \/ (\E s \in Slots : TTLLapses(s)) \/ \E t \in Transports : TransportDies(t)
  BY <1>7, Unseen DEF LateArrives, TTLLapses, TransportDies, Apart, Phase, tableVars, sessVars, supVars, hostVars
<1>8. ASSUME NEW p \in ForeignPorts, ForeignTakes(p) \/ ForeignFrees(p) PROVE Shows
  BY <1>0, <1>8, OthersShow
<1>9. CASE World
  BY <1>7, <1>8, <1>9 DEF World
<1>10. CASE Client
  BY <1>2, <1>3, <1>4, <1>5, <1>6, <1>10 DEF Client
<1> QED BY <1>9, <1>10

\* Every step of the daemon is one of the table's, or is not seen.
LEMMA StepShows ==
  ASSUME TInv, HInv', Kind = "smol", [Next]_vars
  PROVE  Shows
<1>0. IInv /\ HInv /\ RInv
  BY DEF TInv, HInv
<1>1. CASE UNCHANGED vars
  <2>1. \A g \in Guests : Shown(g)' = Shown(g)
    BY <1>1 DEF Shown, vars, tableVars
  <2>2. UNCHANGED <<sessions, relay, carried, foreign, sup>>
    BY <1>1 DEF vars, sessVars, supVars, hostVars
  <2> QED BY <2>1, <2>2 DEF Shows, Table!tablevars, Relays, Phase
<1>2. ASSUME sup # "exited", NEW c \in Conns, CloseSession(c) PROVE Shows
  BY <1>0, <1>2, CloseSessionShows
<1>3. ASSUME sup # "exited", NEW c \in closing, CloseForward(c) PROVE Shows
  <2>1. /\ Phase' = Phase /\ carried' \subseteq carried
        /\ UNCHANGED <<forwards, slot, sessions, relay, foreign>>
    BY <1>3 DEF CloseForward, Uncarry, Phase, tableVars, sessVars, supVars
  <2> QED BY <1>3, <2>1, UnlistenShows
<1> QED BY <1>1, <1>2, <1>3, ClientShows, HandleShows, SuperviseShows DEF Next, Done

\* The daemon starts as an empty table.
LEMMA InitShows == Init => Table!TableInit /\ TInv
<1> SUFFICES ASSUME Init PROVE Table!TableInit /\ TInv
  OBVIOUS
<1>1. HInv
  BY InitHInv
<1>2. RInv
  <2>1. Relays = {}
    BY DEF Init, Relays
  <2> QED BY <1>1, <2>1 DEF Init, HInv, RInv, RelaysServed
<1>3. AskedPorts
  BY NoPort DEF Init, AskedPorts, Blank
<1>4. \A g \in Guests : Shown(g) = Table!Free
  BY DEF Init, Shown, Table!Free
<1>5. Relays = {} /\ Phase = "serving"
  BY DEF Init, Relays, Phase
<1>6. Table!TableInit
  BY <1>4, <1>5 DEF Init, Table!TableInit
<1> QED BY <1>1, <1>2, <1>3, <1>6 DEF TInv

\* On smol the daemon implements its table: whatever its handlers, its
\* supervisor, outages and late closers do between them, what its clients and
\* the host see is one owner added or gone at a time, a bound forward at an
\* open listener, and an end without listeners.
THEOREM ImplementsForwardTable ==
  ASSUME Kind = "smol"
  PROVE  Spec => IsForwardTable
<1>1. TInv /\ [Next]_vars => TInv'
  <2>1. SUFFICES ASSUME TInv, [Next]_vars PROVE TInv'
    OBVIOUS
  <2> QED BY <2>1, NextHInv, NextRInv, NextAskedPorts DEF TInv, HInv
<1>2. Spec => []TInv
  BY <1>1, InitShows, PTL DEF Spec
<1>3. TInv /\ TInv' /\ [Next]_vars => [Table!TableNext]_(Table!tablevars)
  BY StepShows DEF Shows, TInv
<1> QED BY <1>2, <1>3, InitShows, PTL DEF Spec, IsForwardTable, Table!TableSpec

=============================================================================
