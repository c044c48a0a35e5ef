----------------------------- MODULE WireProofs ------------------------------
(***************************************************************************)
(* What holds of what is carried to a machine or a hub: events reach who   *)
(* wants them, a box keeps a way in, a copy leaves no half file, a bridge  *)
(* ends with its attach, and the cache of reachability says only what was  *)
(* established.                                                            *)
(***************************************************************************)
EXTENDS MCWire, SequenceTheorems, FiniteSetTheorems, TLAPS

(***************************************************************************)
(* Subscriptions: what the session, its connection and the relay are.      *)
(***************************************************************************)
HubLines == [on : BOOLEAN, call : {"held", "abandoned", "forgotten"}]

SessionRec == [subscribed : BOOLEAN, conn : Conns \cup {0}, cur : Conns \cup {0},
               op : {"none", "opened", "resub", "install", "sub", "unsub"}]
ConnRec == [state : {"unused", "open", "broken", "sync", "drain", "closed"},
            line : {"none", "sub", "unsub"},
            worker : {"idle", "sub", "unsub", "syncsub", "syncunsub"}]

SubsShape ==
    /\ sessions \in [Clients -> SessionRec]
    /\ conns \in [Conns -> ConnRec]
    /\ up \in [tr : Nat, fresh : BOOLEAN, on : BOOLEAN, dirty : BOOLEAN,
               inflight : {"none", "open", "done"}, resyncs : Nat, slow : Nat]
    /\ upMu \in [by : Threads \cup {Nobody}, phase : {"prev", "call"}, on : BOOLEAN,
                 to : Nat, result : {"open", "ok", "err"}]
    /\ relay \in [live : Nat, dialed : Nat, subscribed : BOOLEAN, lines : Seq(HubLines)]

(* A live connection of a session is an open one, and no other session's.  *)
OneConn ==
    \A c \in Clients :
        /\ sessions[c].conn # 0 =>
              /\ conns[sessions[c].conn].state = "open"
              /\ \A d \in Clients \ {c} : sessions[d].conn # sessions[c].conn
        /\ sessions[c].op \in {"none", "sub", "unsub"} => sessions[c].conn \in {0, sessions[c].cur}

(* The thread in upMu is a worker or a reader that is at its sync. *)
AtItsSync ==
    /\ upMu.by[1] = "worker" => conns[upMu.by[2]].worker \in {"syncsub", "syncunsub"}
    /\ upMu.by[1] = "reader" => conns[upMu.by[2]].state = "sync"

(* The last thing a connection was told, read or not, is to subscribe. *)
LastWordIsSub(k, n, registered) ==
    IF k.line # "none" THEN k.line = "sub"
    ELSE IF k.worker \in {"sub", "unsub"} THEN k.worker = "sub"
    ELSE n \in registered

(* What its caller wants is what a session told its connection last. *)
ToldSo ==
    \A c \in Clients :
        sessions[c].conn # 0 /\ sessions[c].subscribed /\ sessions[c].op # "opened" =>
            LastWordIsSub(conns[sessions[c].conn], sessions[c].conn, subs)

SessionsInv == OneConn /\ AtItsSync /\ ToldSo

(* Calling: a call is on the relay now. *)
Calling == upMu.by # Nobody /\ upMu.phase = "call"

(* The transport the daemon has is the relay, or is dead; a call is made   *)
(* on the one in place when it began, unless restore has put a new one in. *)
OneRelay ==
    /\ relay.live \in {0, up.tr}
    /\ up.fresh => up.tr # 0
    /\ upMu.by # Nobody => upMu.to # 0 /\ (up.fresh \/ upMu.to = up.tr \/ relay.live = 0)

(* The line of a call that waits is the last one the hub has to read. *)
LineIsLast ==
    /\ Calling /\ upMu.result = "open" =>
          /\ relay.live # 0 /\ relay.lines # <<>>
          /\ relay.lines[Len(relay.lines)] = [on |-> upMu.on, call |-> "held"]
    /\ \A i \in DOMAIN relay.lines :
          relay.lines[i].call = "held" => i = Len(relay.lines) /\ Calling /\ upMu.result = "open"

(* An answer says what the hub holds, and nothing is unread behind it. *)
AnswerIsSo ==
    Calling /\ ~up.fresh /\ relay.live # 0 =>
        /\ upMu.result # "err"
        /\ upMu.result = "ok" => relay.lines = <<>> /\ relay.subscribed = upMu.on

(* What is believed is so when no call is on the relay. *)
BeliefIsSo ==
    ~up.fresh /\ relay.live # 0 /\ up.on /\ ~up.dirty /\ ~Calling =>
        relay.lines = <<>> /\ relay.subscribed

UpInv == OneRelay /\ LineIsLast /\ AnswerIsSo /\ BeliefIsSo

(* A client's step and a step of the daemon's own connections leave what   *)
(* the daemon and the relay hold of each other alone.                      *)
LEMMA UpFrame ==
    ASSUME UpInv, UNCHANGED <<up, upMu, relay>>
    PROVE  UpInv'
BY DEF UpInv, OneRelay, LineIsLast, AnswerIsSo, BeliefIsSo, Calling

(* The threads that can hold upMu. *)
LEMMA ThreadsAre ==
    ASSUME NEW t \in Threads
    PROVE  /\ t # Nobody
           /\ t[1] \in {"worker", "reader", "restore", "resync"}
           /\ t[1] \in {"worker", "reader"} => t[2] \in Conns
BY DEF Threads, Nobody

(* Where the session and the daemon start. *)
LEMMA SubsStarts == SubsInit => SubsShape /\ SessionsInv /\ UpInv
<1> SUFFICES ASSUME SubsInit
             PROVE  SubsShape /\ SessionsInv /\ UpInv
    OBVIOUS
<1>1. SubsShape
    BY DEF SubsInit, SubsShape, SessionRec, ConnRec, NoConn, FreeMu
<1>2. SessionsInv
    BY DEF SubsInit, SessionsInv, OneConn, AtItsSync, ToldSo, FreeMu, Nobody
<1>3. UpInv
    BY DEF SubsInit, UpInv, OneRelay, LineIsLast, AnswerIsSo, BeliefIsSo, Calling, FreeMu
<1> QED
    BY <1>1, <1>2, <1>3

(* What a session writes of its own record and of its connection's line,   *)
(* one field at a time.                                                    *)
LEMMA SessionFields ==
    ASSUME NEW s \in SessionRec
    PROVE  /\ \A b \in BOOLEAN : [s EXCEPT !.subscribed = b] \in SessionRec
           /\ \A n \in Conns \cup {0} : [s EXCEPT !.conn = n] \in SessionRec /\ [s EXCEPT !.cur = n] \in SessionRec
           /\ \A o \in {"none", "opened", "resub", "install", "sub", "unsub"} : [s EXCEPT !.op = o] \in SessionRec
BY DEF SessionRec

(* A connection's fields, one at a time. *)
LEMMA ConnFields ==
    ASSUME NEW k \in ConnRec
    PROVE  /\ \A s \in {"unused", "open", "broken", "sync", "drain", "closed"} : [k EXCEPT !.state = s] \in ConnRec
           /\ \A l \in {"none", "sub", "unsub"} : [k EXCEPT !.line = l] \in ConnRec
           /\ \A w \in {"idle", "sub", "unsub", "syncsub", "syncunsub"} : [k EXCEPT !.worker = w] \in ConnRec
BY DEF ConnRec

(* A session's own steps keep the types. *)
LEMMA ClientShape ==
    ASSUME SubsShape, NEW c \in Clients, Client(c)
    PROVE  SubsShape'
<1>1. UNCHANGED <<up, upMu, relay>>
    BY DEF Client, Connect, Resubscribe, Install, Subscribe, Unsubscribe, Called, Break, daemonSide
<1> SUFFICES /\ sessions' \in [Clients -> SessionRec]
             /\ conns' \in [Conns -> ConnRec]
    BY <1>1 DEF SubsShape
<1> DEFINE s == sessions[c]
<1>0. s \in SessionRec /\ sessions \in [Clients -> SessionRec] /\ conns \in [Conns -> ConnRec]
    BY DEF SubsShape
<1>a. s.conn \in Conns \cup {0} /\ s.cur \in Conns \cup {0}
    BY <1>0 DEF SessionRec
<1>b. ASSUME NEW r \in SessionRec PROVE [sessions EXCEPT ![c] = r] \in [Clients -> SessionRec]
    BY <1>0
<1>c. ASSUME NEW n \in Conns, NEW k \in ConnRec PROVE [conns EXCEPT ![n] = k] \in [Conns -> ConnRec]
    BY <1>0
<1>d. \A n \in Conns : conns[n] \in ConnRec
    BY <1>0
<1>2. CASE Connect(c)
    <2>1. PICK n \in Conns :
            /\ conns' = [conns EXCEPT ![n].state = "open"]
            /\ sessions' = [sessions EXCEPT ![c].op = "opened", ![c].cur = 0, ![c].conn = n]
        BY <1>2 DEF Connect
    <2>2. conns' = [conns EXCEPT ![n] = [conns[n] EXCEPT !.state = "open"]]
        BY <2>1
    <2>3. [s EXCEPT !.op = "opened"] \in SessionRec
        BY <1>0, SessionFields
    <2>4. [[s EXCEPT !.op = "opened"] EXCEPT !.cur = 0] \in SessionRec
        BY <2>3, SessionFields
    <2>5. [[[s EXCEPT !.op = "opened"] EXCEPT !.cur = 0] EXCEPT !.conn = n] \in SessionRec
        BY <2>4, SessionFields
    <2>6. sessions' = [sessions EXCEPT ![c] = [[[s EXCEPT !.op = "opened"] EXCEPT !.cur = 0] EXCEPT !.conn = n]]
        BY <1>0, <2>1 DEF SessionRec
    <2>7. sessions' \in [Clients -> SessionRec]
        BY <1>b, <2>5, <2>6
    <2>8. conns' \in [Conns -> ConnRec]
        BY <1>c, <1>d, <2>2, ConnFields
    <2> QED
        BY <2>7, <2>8
<1>3. CASE Resubscribe(c)
    <2>1. CASE s.subscribed /\ Alive(c)
        <3>1. s.conn \in Conns /\ conns' = [conns EXCEPT ![s.conn] = [conns[s.conn] EXCEPT !.line = "sub"]]
            BY <1>3, <1>a, <2>1 DEF Resubscribe, Alive, Queue
        <3>2. sessions' = [sessions EXCEPT ![c] = [s EXCEPT !.op = "resub"]]
            BY <1>3, <2>1 DEF Resubscribe
        <3> QED
            BY <3>1, <3>2, <1>0, <1>b, <1>c, <1>d, SessionFields, ConnFields
    <2>2. CASE ~(s.subscribed /\ Alive(c))
        <3>1. conns' = conns /\ sessions' = [sessions EXCEPT ![c] = [s EXCEPT !.op = "install"]]
            BY <1>3, <2>2 DEF Resubscribe
        <3> QED
            BY <3>1, <1>0, <1>b, SessionFields
    <2> QED
        BY <2>1, <2>2
<1>4. CASE Install(c)
    <2>1. conns' = conns /\ sessions' = [sessions EXCEPT ![c] = [[s EXCEPT !.op = "none"] EXCEPT !.cur = s.conn]]
        BY <1>0, <1>4 DEF Install, SessionRec
    <2>2. [s EXCEPT !.op = "none"] \in SessionRec
        BY <1>0, SessionFields
    <2>3. [[s EXCEPT !.op = "none"] EXCEPT !.cur = s.conn] \in SessionRec
        BY <1>a, <2>2, SessionFields
    <2> QED
        BY <1>0, <1>b, <2>1, <2>3
<1>5. CASE Subscribe(c)
    <2>0. [s EXCEPT !.subscribed = TRUE] \in SessionRec
        BY <1>0, SessionFields
    <2>1. CASE s.cur = 0 \/ s.cur # s.conn
        <3>1. conns' = conns /\ sessions' = [sessions EXCEPT ![c] = [s EXCEPT !.subscribed = TRUE]]
            BY <1>5, <2>1 DEF Subscribe
        <3> QED
            BY <3>1, <2>0, <1>0, <1>b
    <2>2. CASE ~(s.cur = 0 \/ s.cur # s.conn)
        <3>1. s.cur \in Conns /\ conns' = [conns EXCEPT ![s.cur] = [conns[s.cur] EXCEPT !.line = "sub"]]
            BY <1>5, <1>a, <2>2 DEF Subscribe, Queue
        <3>2. sessions' = [sessions EXCEPT ![c] = [[s EXCEPT !.subscribed = TRUE] EXCEPT !.op = "sub"]]
            BY <1>0, <1>5, <2>2 DEF Subscribe, SessionRec
        <3>3. [[s EXCEPT !.subscribed = TRUE] EXCEPT !.op = "sub"] \in SessionRec
            BY <2>0, SessionFields
        <3> QED
            BY <3>1, <3>2, <3>3, <1>b, <1>c, <1>d, ConnFields
    <2> QED
        BY <2>1, <2>2
<1>6. CASE Unsubscribe(c)
    <2>0. [s EXCEPT !.subscribed = FALSE] \in SessionRec
        BY <1>0, SessionFields
    <2>1. CASE s.cur = 0 \/ s.cur # s.conn
        <3>1. conns' = conns /\ sessions' = [sessions EXCEPT ![c] = [s EXCEPT !.subscribed = FALSE]]
            BY <1>6, <2>1 DEF Unsubscribe
        <3> QED
            BY <3>1, <2>0, <1>0, <1>b
    <2>2. CASE ~(s.cur = 0 \/ s.cur # s.conn)
        <3>1. s.cur \in Conns /\ conns' = [conns EXCEPT ![s.cur] = [conns[s.cur] EXCEPT !.line = "unsub"]]
            BY <1>6, <1>a, <2>2 DEF Unsubscribe, Queue
        <3>2. sessions' = [sessions EXCEPT ![c] = [[s EXCEPT !.subscribed = FALSE] EXCEPT !.op = "unsub"]]
            BY <1>6, <2>2 DEF Unsubscribe
        <3>3. [[s EXCEPT !.subscribed = FALSE] EXCEPT !.op = "unsub"] \in SessionRec
            BY <2>0, SessionFields
        <3> QED
            BY <3>1, <3>2, <3>3, <1>b, <1>c, <1>d, ConnFields
    <2> QED
        BY <2>1, <2>2
<1>7. CASE Called(c)
    <2>1. PICK o \in {"none", "install"} : conns' = conns /\ sessions' = [sessions EXCEPT ![c] = [s EXCEPT !.op = o]]
        BY <1>7 DEF Called
    <2> QED
        BY <2>1, <1>0, <1>b, SessionFields
<1>8. CASE Break(c)
    <2>1. s.conn \in Conns /\ conns' = [conns EXCEPT ![s.conn] = [conns[s.conn] EXCEPT !.state = "broken"]]
        BY <1>8, <1>a DEF Break, Alive
    <2>2. sessions' = [sessions EXCEPT ![c] = [s EXCEPT !.conn = 0]]
        BY <1>8 DEF Break
    <2> QED
        BY <2>1, <2>2, <1>0, <1>b, <1>c, <1>d, SessionFields, ConnFields
<1> QED
    BY <1>2, <1>3, <1>4, <1>5, <1>6, <1>7, <1>8 DEF Client

CallRec == [by : Threads \cup {Nobody}, phase : {"prev", "call"}, on : BOOLEAN,
            to : Nat, result : {"open", "ok", "err"}]
RelayRec == [live : Nat, dialed : Nat, subscribed : BOOLEAN, lines : Seq(HubLines)]

(* A line sent is the last of the lines. *)
LEMMA LineSent ==
    ASSUME NEW r \in RelayRec, NEW on \in BOOLEAN, NEW q,
           q = [r EXCEPT !.lines = Append(@, [on |-> on, call |-> "held"])]
    PROVE  /\ q \in RelayRec
           /\ q.live = r.live /\ q.subscribed = r.subscribed
           /\ q.lines # <<>> /\ Len(q.lines) = Len(r.lines) + 1
           /\ q.lines[Len(q.lines)] = [on |-> on, call |-> "held"]
           /\ \A i \in DOMAIN q.lines : i # Len(q.lines) => i \in DOMAIN r.lines /\ q.lines[i] = r.lines[i]
<1>1. r.lines \in Seq(HubLines) /\ [on |-> on, call |-> "held"] \in HubLines
    BY DEF RelayRec, HubLines
<1>2. q.lines = Append(r.lines, [on |-> on, call |-> "held"]) /\ q.live = r.live /\ q.subscribed = r.subscribed
    BY DEF RelayRec
<1>3. q.lines \in Seq(HubLines)
    BY <1>1, <1>2
<1>4. q \in RelayRec
    BY <1>3, <1>2 DEF RelayRec
<1>5. /\ q.lines # <<>> /\ Len(q.lines) = Len(r.lines) + 1
      /\ q.lines[Len(q.lines)] = [on |-> on, call |-> "held"]
      /\ \A i \in DOMAIN q.lines : i # Len(q.lines) => i \in DOMAIN r.lines /\ q.lines[i] = r.lines[i]
    BY <1>1, <1>2
<1> QED
    BY <1>2, <1>4, <1>5

(* Taking upMu to make a call, behind an earlier one or at once. *)
LEMMA HoldSends ==
    ASSUME SubsShape, UpInv, upMu.by = Nobody, up.tr # 0,
           NEW t \in Threads, NEW on \in BOOLEAN, NEW inflight, Hold(t, on, inflight),
           up'.tr = up.tr, up'.fresh \in {up.fresh, FALSE},
           inflight = "open" => up'.fresh = up.fresh /\ up'.on = up.on /\ up'.dirty = up.dirty
    PROVE  upMu' \in CallRec /\ relay' \in RelayRec /\ UpInv' /\ upMu'.by = t
<1> USE ThreadsAre
<1>0. up.tr \in Nat /\ relay \in RelayRec
    BY DEF SubsShape, RelayRec
<1>1. upMu' \in CallRec /\ upMu'.by = t /\ upMu'.to = up.tr /\ upMu'.on = on
    BY <1>0 DEF Hold, CallRec
<1>2. ~Calling
    BY DEF Calling
<1>3. \A i \in DOMAIN relay.lines : relay.lines[i].call # "held"
    BY <1>2 DEF UpInv, LineIsLast
<1>4. CASE inflight = "open" \/ up.tr # relay.live
    <2>1. relay' = relay
        BY <1>4 DEF Hold
    <2>2. OneRelay'
        BY <1>1, <2>1 DEF UpInv, OneRelay
    <2>3. Calling' /\ upMu'.result = "open" => FALSE
        BY <1>4 DEF Hold, Calling
    <2>4. LineIsLast'
        BY <1>3, <2>1, <2>3 DEF LineIsLast
    <2>5. Calling' => relay.live = 0
        BY <1>4 DEF Calling, Hold, UpInv, OneRelay
    <2>6. AnswerIsSo'
        BY <2>1, <2>5 DEF AnswerIsSo
    <2>7. BeliefIsSo'
        <3>1. CASE inflight = "open"
            BY <1>2, <2>1, <3>1 DEF BeliefIsSo, UpInv
        <3>2. CASE inflight # "open"
            <4>1. Calling'
                BY <1>1, <3>2 DEF Calling, Hold
            <4> QED
                BY <4>1 DEF BeliefIsSo
        <3> QED
            BY <3>1, <3>2
    <2> QED
        BY <1>0, <1>1, <2>1, <2>2, <2>4, <2>6, <2>7 DEF UpInv
<1>5. CASE ~(inflight = "open" \/ up.tr # relay.live)
    <2>1. relay' = [relay EXCEPT !.lines = Append(@, [on |-> on, call |-> "held"])]
        BY <1>5 DEF Hold
    <2>2. /\ relay' \in RelayRec /\ relay'.live = relay.live
          /\ relay'.lines # <<>>
          /\ relay'.lines[Len(relay'.lines)] = [on |-> on, call |-> "held"]
          /\ \A i \in DOMAIN relay'.lines : i # Len(relay'.lines) => i \in DOMAIN relay.lines /\ relay'.lines[i] = relay.lines[i]
        BY <1>0, <2>1, LineSent
    <2>3. Calling' /\ upMu'.result = "open"
        BY <1>1, <1>5 DEF Calling, Hold
    <2>4. OneRelay'
        BY <1>1, <2>2 DEF UpInv, OneRelay
    <2>5. LineIsLast'
        BY <1>1, <1>3, <1>5, <2>2, <2>3 DEF LineIsLast
    <2>6. AnswerIsSo' /\ BeliefIsSo'
        BY <2>3 DEF AnswerIsSo, BeliefIsSo
    <2> QED
        BY <1>1, <2>2, <2>4, <2>5, <2>6 DEF UpInv
<1> QED
    BY <1>4, <1>5

(* What the daemon believes goes with its record. *)
UpRec == [tr : Nat, fresh : BOOLEAN, on : BOOLEAN, dirty : BOOLEAN,
          inflight : {"none", "open", "done"}, resyncs : Nat, slow : Nat]

(* The daemon's and the hub's part of the types. *)
UpShape == up \in UpRec /\ upMu \in CallRec /\ relay \in RelayRec

(* That part of the types. *)
LEMMA UpShapeIs == SubsShape => UpShape
BY DEF SubsShape, UpShape, UpRec, CallRec, RelayRec

(* A sync that sends: a worker's, a reader's or the re-sync's. *)
LEMMA SyncSends ==
    ASSUME SubsShape, UpInv, NEW t \in Threads, NEW b \in BOOLEAN, SyncUpstream(t, b)
    PROVE  UpShape' /\ UpInv' /\ upMu'.by = t
<1>1. /\ upMu.by = Nobody /\ up.tr # 0 /\ Hold(t, Want, up.inflight) /\ Want \in BOOLEAN
      /\ up' = [up EXCEPT !.inflight = IF @ = "done" THEN "none" ELSE @]
    BY DEF SyncUpstream, InStep, Want
<1>2. up' \in UpRec /\ up'.tr = up.tr /\ up'.fresh = up.fresh /\ up'.on = up.on /\ up'.dirty = up.dirty
    BY <1>1 DEF SubsShape, UpRec
<1> QED
    BY <1>1, <1>2, HoldSends DEF UpShape

(* The calls of the daemon and what becomes of them. *)
UpMoves ==
    \/ PrevReturned \/ Returned \/ GaveUp \/ LateError \/ Resync
    \/ Restore \/ ResubscribeUpstream \/ RelayDies \/ OnDead \/ HubReads

(* Lines marked anew, none of them held, and none sent. *)
LEMMA Marked ==
    ASSUME NEW lines \in Seq(HubLines), NEW f \in [DOMAIN lines -> HubLines]
    PROVE  f \in Seq(HubLines) /\ Len(f) = Len(lines) /\ DOMAIN f = DOMAIN lines
<1>1. Len(lines) \in Nat /\ DOMAIN lines = 1..Len(lines)
    OBVIOUS
<1>2. f \in [1..Len(lines) -> HubLines]
    BY <1>1
<1>3. f \in Seq(HubLines)
    BY <1>1, <1>2, SeqDef
<1> QED
    BY <1>1, <1>2, <1>3, LenProperties

(* The daemon's record after a call's step, field by field. *)
LEMMA UpFields ==
    ASSUME NEW u \in UpRec, NEW i \in {"none", "open", "done"}, NEW r \in Nat
    PROVE  LET v == [u EXCEPT !.inflight = i, !.resyncs = r]
           IN v \in UpRec /\ v.tr = u.tr /\ v.fresh = u.fresh /\ v.dirty = u.dirty /\ v.on = u.on
BY DEF UpRec

(* And after a call that was given up. *)
LEMMA UpSlow ==
    ASSUME NEW u \in UpRec
    PROVE  LET v == [u EXCEPT !.dirty = TRUE, !.inflight = "open", !.slow = u.slow + 1]
           IN v \in UpRec /\ v.tr = u.tr /\ v.fresh = u.fresh /\ v.dirty
<1>1. u.slow + 1 \in Nat
    BY DEF UpRec
<1> QED
    BY <1>1 DEF UpRec

(* The steps of the calls keep the daemon's belief and its types. *)
LEMMA PrevReturnedKeeps ==
    ASSUME SubsShape, UpInv, PrevReturned
    PROVE  UpShape' /\ UpInv'
<1>0. up \in UpRec /\ upMu \in CallRec /\ relay \in RelayRec
    BY UpShapeIs DEF UpShape
<1>1. up' = [up EXCEPT !.inflight = "none"]
    BY DEF PrevReturned
<1>2. up' \in UpRec /\ up'.tr = up.tr /\ up'.fresh = up.fresh
    BY <1>0, <1>1 DEF UpRec
<1>3. /\ upMu' \in CallRec /\ upMu'.by = upMu.by /\ upMu'.on = upMu.on /\ upMu'.to = upMu.to
      /\ upMu'.phase = "call" /\ upMu.by # Nobody
      /\ upMu'.result = IF upMu.to # relay.live THEN "err" ELSE "open"
    BY <1>0 DEF PrevReturned, CallRec
<1>4. \A i \in DOMAIN relay.lines : relay.lines[i].call # "held"
    BY DEF UpInv, LineIsLast, PrevReturned, Calling
<1>5. Calling'
    BY <1>3 DEF Calling
<1>6. BeliefIsSo'
    BY <1>5 DEF BeliefIsSo
<1>7. CASE upMu.to # relay.live
    <2>1. relay' = relay
        BY <1>7 DEF PrevReturned
    <2>2. OneRelay'
        BY <1>2, <1>3, <2>1 DEF UpInv, OneRelay
    <2>3. LineIsLast'
        BY <1>3, <1>4, <1>7, <2>1 DEF LineIsLast
    <2>4. up.fresh \/ relay.live = 0
        BY <1>3, <1>7 DEF UpInv, OneRelay
    <2>5. AnswerIsSo'
        BY <1>2, <2>1, <2>4 DEF AnswerIsSo
    <2> QED
        BY <1>0, <1>2, <1>3, <1>6, <2>1, <2>2, <2>3, <2>5 DEF UpInv, UpShape
<1>8. CASE upMu.to = relay.live
    <2>1. relay' = [relay EXCEPT !.lines = Append(@, [on |-> upMu.on, call |-> "held"])] /\ upMu.on \in BOOLEAN
        BY <1>0, <1>8 DEF PrevReturned, CallRec
    <2>2. /\ relay' \in RelayRec /\ relay'.live = relay.live
          /\ relay'.lines # <<>>
          /\ relay'.lines[Len(relay'.lines)] = [on |-> upMu.on, call |-> "held"]
          /\ \A i \in DOMAIN relay'.lines : i # Len(relay'.lines) => i \in DOMAIN relay.lines /\ relay'.lines[i] = relay.lines[i]
        BY <1>0, <2>1, LineSent
    <2>3. OneRelay'
        BY <1>2, <1>3, <2>2 DEF UpInv, OneRelay
    <2>4. relay.live # 0
        BY <1>3, <1>8 DEF UpInv, OneRelay
    <2>5. LineIsLast'
        BY <1>3, <1>4, <1>5, <1>8, <2>2, <2>4 DEF LineIsLast
    <2>6. AnswerIsSo'
        BY <1>3, <1>8 DEF AnswerIsSo
    <2> QED
        BY <1>2, <1>3, <1>6, <2>2, <2>3, <2>5, <2>6 DEF UpInv, UpShape
<1> QED
    BY <1>7, <1>8

(* An answer, or an error, ends the call. *)
LEMMA ReturnedKeeps ==
    ASSUME SubsShape, UpInv, Returned
    PROVE  UpShape' /\ UpInv'
<1>0. up \in UpRec /\ upMu \in CallRec /\ relay \in RelayRec
    BY UpShapeIs DEF UpShape
<1>1. upMu' = FreeMu /\ relay' = relay /\ Calling /\ upMu.result # "open"
    BY DEF Returned, Calling
<1>2. /\ up' \in UpRec /\ up'.tr = up.tr /\ up'.fresh = up.fresh
      /\ up'.on = (IF upMu.result = "ok" THEN upMu.on ELSE up.on)
    BY <1>0 DEF Returned, UpRec, CallRec
<1>3. upMu' \in CallRec /\ ~Calling'
    BY <1>1 DEF FreeMu, CallRec, Calling
<1>4. OneRelay'
    BY <1>1, <1>2 DEF UpInv, OneRelay, FreeMu
<1>5. LineIsLast' /\ AnswerIsSo'
    BY <1>1, <1>3 DEF UpInv, LineIsLast, AnswerIsSo
<1>6. BeliefIsSo'
    <2> SUFFICES ASSUME ~up'.fresh, relay'.live # 0, up'.on
                 PROVE  relay'.lines = <<>> /\ relay'.subscribed
        BY DEF BeliefIsSo
    <2>1. upMu.result = "ok"
        BY <1>0, <1>1, <1>2 DEF UpInv, AnswerIsSo, CallRec
    <2> QED
        BY <1>1, <1>2, <2>1 DEF UpInv, AnswerIsSo
<1> QED
    BY <1>0, <1>1, <1>2, <1>3, <1>4, <1>5, <1>6 DEF UpInv, UpShape

(* A call that is given up leaves its line behind, held by nobody. *)
LEMMA GaveUpKeeps ==
    ASSUME SubsShape, UpInv, GaveUp
    PROVE  UpShape' /\ UpInv'
<1>0. up \in UpRec /\ upMu \in CallRec /\ relay \in RelayRec
    BY UpShapeIs DEF UpShape
<1>1. upMu' = FreeMu
    BY DEF GaveUp
<1>2. up' \in UpRec /\ up'.tr = up.tr /\ up'.fresh = up.fresh /\ up'.dirty
    <2>1. up' = [up EXCEPT !.dirty = TRUE, !.inflight = "open", !.slow = up.slow + 1]
        BY DEF GaveUp
    <2> QED
        BY <1>0, <2>1, UpSlow
<1>3. upMu' \in CallRec /\ ~Calling'
    BY <1>1 DEF FreeMu, CallRec, Calling
<1>4. AnswerIsSo' /\ BeliefIsSo'
    BY <1>2, <1>3 DEF AnswerIsSo, BeliefIsSo
<1>5. /\ relay' \in RelayRec /\ relay'.live = relay.live
      /\ \A i \in DOMAIN relay'.lines : relay'.lines[i].call # "held"
    <2>1. CASE upMu.phase = "prev"
        <3>1. relay' = relay
            BY <2>1 DEF GaveUp
        <3> QED
            BY <1>0, <2>1, <3>1 DEF UpInv, LineIsLast, Calling
    <2>2. CASE upMu.phase # "prev"
        <3> DEFINE f == [i \in DOMAIN relay.lines |->
                          IF relay.lines[i].call = "held" THEN [relay.lines[i] EXCEPT !.call = "abandoned"]
                          ELSE relay.lines[i]]
        <3>1. relay' = [relay EXCEPT !.lines = f]
            BY <2>2 DEF GaveUp
        <3>2. relay.lines \in Seq(HubLines)
            BY <1>0 DEF RelayRec
        <3>3. ASSUME NEW i \in DOMAIN relay.lines PROVE f[i] \in HubLines /\ f[i].call # "held"
            <4>1. relay.lines[i] \in HubLines
                BY <3>2
            <4>2. [relay.lines[i] EXCEPT !.call = "abandoned"] \in HubLines
                BY <4>1 DEF HubLines
            <4>3. [relay.lines[i] EXCEPT !.call = "abandoned"].call = "abandoned"
                BY <4>1 DEF HubLines
            <4> QED
                BY <4>1, <4>2, <4>3
        <3>4. f \in [DOMAIN relay.lines -> HubLines]
            BY <3>3
        <3>5. f \in Seq(HubLines) /\ DOMAIN f = DOMAIN relay.lines
            BY <3>2, <3>4, Marked
        <3> HIDE DEF f
        <3>6. relay'.lines = f /\ relay'.live = relay.live /\ relay' \in RelayRec
            BY <1>0, <3>1, <3>5 DEF RelayRec
        <3> QED
            BY <3>3, <3>5, <3>6
    <2> QED
        BY <2>1, <2>2
<1>6. OneRelay'
    BY <1>1, <1>2, <1>5 DEF UpInv, OneRelay, FreeMu
<1>7. LineIsLast'
    BY <1>3, <1>5 DEF LineIsLast
<1> QED
    BY <1>2, <1>3, <1>4, <1>5, <1>6, <1>7 DEF UpInv, UpShape

(* The abandoned call's own timeout changes no line's wish. *)
LEMMA LateErrorKeeps ==
    ASSUME SubsShape, UpInv, LateError
    PROVE  UpShape' /\ UpInv'
<1>0. up \in UpRec /\ upMu \in CallRec /\ relay \in RelayRec
    BY UpShapeIs DEF UpShape
<1>1. upMu' = upMu /\ (Calling' <=> Calling)
    BY DEF LateError, Calling
<1>2. /\ up' \in UpRec /\ up'.tr = up.tr /\ up'.fresh = up.fresh
      /\ up'.dirty = up.dirty /\ up'.on = up.on
    <2>1. up' = [up EXCEPT !.inflight = "done", !.resyncs = up.resyncs + 1]
        BY DEF LateError
    <2>2. up.resyncs + 1 \in Nat
        BY <1>0 DEF UpRec
    <2> QED
        BY <1>0, <2>1, <2>2, UpFields
<1> DEFINE f == [i \in DOMAIN relay.lines |->
                  IF relay.lines[i].call = "abandoned" THEN [relay.lines[i] EXCEPT !.call = "forgotten"]
                  ELSE relay.lines[i]]
<1>3. relay' = [relay EXCEPT !.lines = f]
    BY DEF LateError
<1>4. relay.lines \in Seq(HubLines) /\ relay.lines # <<>>
    BY <1>0 DEF RelayRec, LateError
<1>5. ASSUME NEW i \in DOMAIN relay.lines
      PROVE  /\ f[i] \in HubLines
             /\ f[i].call = "held" => relay.lines[i].call = "held"
             /\ relay.lines[i].call = "held" => f[i] = relay.lines[i]
    <2>1. relay.lines[i] \in HubLines
        BY <1>4
    <2>2. [relay.lines[i] EXCEPT !.call = "forgotten"] \in HubLines
        BY <2>1 DEF HubLines
    <2>3. [relay.lines[i] EXCEPT !.call = "forgotten"].call = "forgotten"
        BY <2>1 DEF HubLines
    <2> QED
        BY <2>1, <2>2, <2>3
<1>6. f \in [DOMAIN relay.lines -> HubLines]
    BY <1>5
<1>7. f \in Seq(HubLines) /\ Len(f) = Len(relay.lines) /\ DOMAIN f = DOMAIN relay.lines
    BY <1>4, <1>6, Marked
<1> HIDE DEF f
<1>8. relay'.lines = f /\ relay'.live = relay.live /\ relay'.subscribed = relay.subscribed /\ relay' \in RelayRec
    BY <1>0, <1>3, <1>7 DEF RelayRec
<1>9. OneRelay'
    BY <1>1, <1>2, <1>8 DEF UpInv, OneRelay
<1>10. LineIsLast'
    <2>1. ASSUME Calling', upMu'.result = "open"
          PROVE  relay'.live # 0 /\ relay'.lines # <<>> /\ relay'.lines[Len(relay'.lines)] = [on |-> upMu'.on, call |-> "held"]
        <3>1. /\ relay.live # 0
              /\ relay.lines[Len(relay.lines)] = [on |-> upMu.on, call |-> "held"]
            BY <1>1, <2>1 DEF UpInv, LineIsLast
        <3>2. Len(relay.lines) \in DOMAIN relay.lines
            BY <1>4
        <3>3. f[Len(relay.lines)] = relay.lines[Len(relay.lines)]
            BY <1>5, <3>1, <3>2
        <3>4. f # <<>>
            BY <1>4, <1>7
        <3> QED
            BY <1>1, <1>7, <1>8, <3>1, <3>3, <3>4
    <2>2. \A i \in DOMAIN relay'.lines :
              relay'.lines[i].call = "held" => i = Len(relay'.lines) /\ Calling' /\ upMu'.result = "open"
        BY <1>1, <1>5, <1>7, <1>8 DEF UpInv, LineIsLast
    <2> QED
        BY <2>1, <2>2 DEF LineIsLast
<1>11. AnswerIsSo'
    BY <1>1, <1>2, <1>4, <1>8 DEF UpInv, AnswerIsSo
<1>12. BeliefIsSo'
    BY <1>1, <1>2, <1>4, <1>8 DEF UpInv, BeliefIsSo
<1> QED
    BY <1>0, <1>1, <1>2, <1>8, <1>9, <1>10, <1>11, <1>12 DEF UpInv, UpShape

(* The re-sync finds nothing to send, or sends. *)
LEMMA ResyncKeeps ==
    ASSUME SubsShape, UpInv, Resync
    PROVE  UpShape' /\ UpInv'
<1>0. up \in UpRec /\ upMu \in CallRec /\ relay \in RelayRec
    BY UpShapeIs DEF UpShape
<1>1. CASE InStep(FALSE)
    <2>1. upMu' = upMu /\ relay' = relay /\ up' = [up EXCEPT !.resyncs = @ - 1] /\ up.resyncs > 0
        BY <1>1 DEF Resync
    <2>2. /\ up' \in UpRec /\ up'.tr = up.tr /\ up'.fresh = up.fresh
          /\ up'.dirty = up.dirty /\ up'.on = up.on
        BY <1>0, <2>1 DEF UpRec
    <2> QED
        BY <1>0, <2>1, <2>2 DEF UpShape, UpInv, OneRelay, LineIsLast, AnswerIsSo, BeliefIsSo, Calling
<1>2. CASE ~InStep(FALSE)
    <2>1. /\ upMu.by = Nobody /\ Hold(Resyncer, Want, up.inflight) /\ up.tr # 0 /\ up.resyncs > 0
          /\ up' = [up EXCEPT !.inflight = IF @ = "done" THEN "none" ELSE @, !.resyncs = @ - 1]
        BY <1>2 DEF Resync, InStep
    <2>2. /\ up' \in UpRec /\ up'.tr = up.tr /\ up'.fresh = up.fresh
          /\ up'.dirty = up.dirty /\ up'.on = up.on
        <3>1. (IF up.inflight = "done" THEN "none" ELSE up.inflight) \in {"none", "open", "done"}
            BY <1>0 DEF UpRec
        <3>2. up.resyncs - 1 \in Nat
            BY <1>0, <2>1 DEF UpRec
        <3>3. PICK i \in {"none", "open", "done"}, r \in Nat : up' = [up EXCEPT !.inflight = i, !.resyncs = r]
            BY <2>1, <3>1, <3>2
        <3> QED
            BY <1>0, <3>3, UpFields, ZenonT(40)
    <2>3. Resyncer \in Threads /\ Want \in BOOLEAN
        BY DEF Threads, Resyncer, Want
    <2> QED
        BY <2>1, <2>2, <2>3, HoldSends DEF UpShape
<1> QED
    BY <1>1, <1>2

(* A new relay starts with nothing sent and nothing believed. *)
LEMMA RestoreKeeps ==
    ASSUME SubsShape, UpInv, Restore
    PROVE  UpShape' /\ UpInv'
<1>0. up \in UpRec /\ upMu \in CallRec /\ relay \in RelayRec
    BY UpShapeIs DEF UpShape
<1>1. relay.dialed + 1 \in Nat /\ relay.dialed + 1 # 0
    BY <1>0 DEF RelayRec
<1>2. /\ upMu' = upMu /\ relay'.live = relay.dialed + 1 /\ relay'.lines = <<>>
      /\ relay' \in RelayRec
    BY <1>1 DEF Restore, RelayRec
<1>3. up' \in UpRec /\ up'.tr = relay.dialed + 1 /\ up'.fresh
    BY <1>0, <1>1 DEF Restore, UpRec
<1>4. relay.live = 0
    BY DEF UpInv, OneRelay, Restore
<1>5. ~(Calling /\ upMu.result = "open")
    BY <1>4 DEF UpInv, LineIsLast
<1>6. OneRelay'
    BY <1>1, <1>2, <1>3 DEF UpInv, OneRelay
<1>7. LineIsLast'
    BY <1>2, <1>5 DEF LineIsLast, Calling
<1>8. AnswerIsSo' /\ BeliefIsSo'
    BY <1>3 DEF AnswerIsSo, BeliefIsSo
<1> QED
    BY <1>0, <1>2, <1>3, <1>6, <1>7, <1>8 DEF UpInv, UpShape

(* The new relay is told what is wanted before anything is believed. *)
LEMMA ResubscribeKeeps ==
    ASSUME SubsShape, UpInv, ResubscribeUpstream
    PROVE  UpShape' /\ UpInv'
<1>0. up \in UpRec /\ upMu \in CallRec /\ relay \in RelayRec
    BY UpShapeIs DEF UpShape
<1>1. upMu.by = Nobody /\ up.tr # 0
    BY DEF UpInv, OneRelay, ResubscribeUpstream
<1>2. up' \in UpRec /\ up'.tr = up.tr /\ up'.fresh = FALSE /\ up'.on = FALSE
    BY <1>0 DEF ResubscribeUpstream, UpRec
<1>3. CASE Want
    <2>1. Hold(Restorer, TRUE, "none") /\ Restorer \in Threads
        BY <1>3 DEF ResubscribeUpstream, Restorer, Threads
    <2> QED
        BY <1>1, <1>2, <2>1, HoldSends DEF UpShape
<1>4. CASE ~Want
    <2>1. upMu' = upMu /\ relay' = relay
        BY <1>4 DEF ResubscribeUpstream
    <2> QED
        BY <1>0, <1>1, <1>2, <2>1 DEF UpShape, UpInv, OneRelay, LineIsLast, AnswerIsSo, BeliefIsSo, Calling
<1> QED
    BY <1>3, <1>4

(* A dead relay has no lines and holds no open call. *)
LEMMA RelayDiesKeeps ==
    ASSUME SubsShape, UpInv, RelayDies
    PROVE  UpShape' /\ UpInv'
<1>0. up \in UpRec /\ upMu \in CallRec /\ relay \in RelayRec
    BY UpShapeIs DEF UpShape
<1>1. relay' \in RelayRec /\ relay'.live = 0 /\ relay'.lines = <<>>
    <2>1. relay' = [relay EXCEPT !.live = 0, !.subscribed = FALSE, !.lines = <<>>] /\ <<>> \in Seq(HubLines)
        BY DEF RelayDies
    <2> QED
        BY <1>0, <2>1 DEF RelayRec
<1>2. /\ upMu' \in CallRec /\ upMu'.by = upMu.by /\ upMu'.to = upMu.to /\ upMu'.phase = upMu.phase
      /\ ~(Calling /\ upMu'.result = "open")
    BY <1>0 DEF RelayDies, CallRec, Calling
<1>3. up' \in UpRec /\ up'.tr = up.tr /\ up'.fresh = up.fresh
    <2>1. CASE up.inflight = "open" /\ up.resyncs < 2
        <3>1. up' = [up EXCEPT !.inflight = "done", !.resyncs = up.resyncs + 1]
            BY <2>1 DEF RelayDies
        <3>2. up.resyncs + 1 \in Nat
            BY <1>0 DEF UpRec
        <3> QED
            BY <1>0, <3>1, <3>2, UpFields
    <2>2. CASE ~(up.inflight = "open" /\ up.resyncs < 2)
        BY <1>0, <2>2 DEF RelayDies
    <2> QED
        BY <2>1, <2>2
<1>4. OneRelay'
    BY <1>1, <1>2, <1>3 DEF UpInv, OneRelay
<1>5. LineIsLast'
    BY <1>1, <1>2 DEF LineIsLast, Calling
<1>6. AnswerIsSo' /\ BeliefIsSo'
    BY <1>1 DEF AnswerIsSo, BeliefIsSo
<1> QED
    BY <1>1, <1>2, <1>3, <1>4, <1>5, <1>6 DEF UpInv, UpShape

(* The daemon sees the relay's death. *)
LEMMA OnDeadKeeps ==
    ASSUME SubsShape, UpInv, OnDead
    PROVE  UpShape' /\ UpInv'
<1>0. up \in UpRec /\ upMu \in CallRec /\ relay \in RelayRec
    BY UpShapeIs DEF UpShape
<1>1. upMu' = upMu /\ relay' = relay /\ relay.live = 0
    BY DEF OnDead
<1>2. up' \in UpRec /\ up'.tr = 0 /\ up'.fresh = up.fresh /\ ~up.fresh
    BY <1>0 DEF OnDead, UpRec
<1> QED
    BY <1>0, <1>1, <1>2 DEF UpShape, UpInv, OneRelay, LineIsLast, AnswerIsSo, BeliefIsSo, Calling

(* The hub reads the oldest line; a held one is the last. *)
LEMMA HubReadsKeeps ==
    ASSUME SubsShape, UpInv, HubReads
    PROVE  UpShape' /\ UpInv'
<1>0. up \in UpRec /\ upMu \in CallRec /\ relay \in RelayRec
    BY UpShapeIs DEF UpShape
<1> DEFINE l == Head(relay.lines)
<1>1. relay.lines \in Seq(HubLines) /\ relay.lines # <<>>
    BY <1>0 DEF RelayRec, HubReads
<1>2. /\ l = relay.lines[1] /\ l \in HubLines /\ 1 \in DOMAIN relay.lines
      /\ Tail(relay.lines) \in Seq(HubLines) /\ Len(Tail(relay.lines)) = Len(relay.lines) - 1
      /\ \A i \in DOMAIN Tail(relay.lines) : i + 1 \in DOMAIN relay.lines /\ Tail(relay.lines)[i] = relay.lines[i + 1]
    BY <1>1
<1>3. /\ relay' = [relay EXCEPT !.subscribed = l.on, !.lines = Tail(@)]
      /\ upMu' = IF l.call = "held" THEN [upMu EXCEPT !.result = "ok"] ELSE upMu
      /\ up' = IF l.call = "abandoned"
               THEN [up EXCEPT !.inflight = IF @ = "open" THEN "done" ELSE @, !.resyncs = @ + 1] ELSE up
    BY DEF HubReads
<1>4. l.on \in BOOLEAN
    BY <1>2 DEF HubLines
<1>5. relay' \in RelayRec /\ relay'.live = relay.live /\ relay'.lines = Tail(relay.lines) /\ relay'.subscribed = l.on
    BY <1>0, <1>2, <1>3, <1>4 DEF RelayRec
<1>6. /\ up' \in UpRec /\ up'.tr = up.tr /\ up'.fresh = up.fresh
      /\ up'.dirty = up.dirty /\ up'.on = up.on
    <2>1. CASE l.call = "abandoned"
        <3>1. up' = [up EXCEPT !.inflight = IF up.inflight = "open" THEN "done" ELSE up.inflight, !.resyncs = up.resyncs + 1]
            BY <1>3, <2>1
        <3>2. up.resyncs + 1 \in Nat /\ (IF up.inflight = "open" THEN "done" ELSE up.inflight) \in {"none", "open", "done"}
            BY <1>0 DEF UpRec
        <3>3. PICK i \in {"none", "open", "done"}, r \in Nat : up' = [up EXCEPT !.inflight = i, !.resyncs = r]
            BY <3>1, <3>2
        <3> QED
            BY <1>0, <3>3, UpFields, ZenonT(40)
    <2>2. CASE l.call # "abandoned"
        BY <1>0, <1>3, <2>2
    <2> QED
        BY <2>1, <2>2
<1>7. /\ upMu' \in CallRec /\ upMu'.by = upMu.by /\ upMu'.to = upMu.to /\ upMu'.phase = upMu.phase
      /\ upMu'.on = upMu.on
      /\ upMu'.result = (IF l.call = "held" THEN "ok" ELSE upMu.result)
    BY <1>0, <1>3 DEF CallRec
<1>8. Calling' <=> Calling
    BY <1>7 DEF Calling
<1>9. OneRelay'
    BY <1>5, <1>6, <1>7 DEF UpInv, OneRelay
<1>10. BeliefIsSo'
    BY <1>1, <1>5, <1>6, <1>8 DEF UpInv, BeliefIsSo
<1> HIDE DEF l
<1>11. CASE l.call = "held"
    <2>1. Len(relay.lines) = 1 /\ Calling /\ upMu.result = "open"
        BY <1>2, <1>11 DEF UpInv, LineIsLast
    <2>2. relay'.lines = <<>>
        BY <1>2, <1>5, <2>1
    <2>3. l.on = upMu.on
        BY <1>2, <2>1 DEF UpInv, LineIsLast
    <2>4. upMu'.result = "ok"
        BY <1>7, <1>11
    <2>5. LineIsLast'
        BY <2>2, <2>4 DEF LineIsLast
    <2>6. AnswerIsSo'
        BY <1>5, <1>7, <2>2, <2>3, <2>4 DEF AnswerIsSo
    <2> QED
        BY <1>5, <1>6, <1>7, <1>9, <1>10, <2>5, <2>6 DEF UpInv, UpShape
<1>12. CASE l.call # "held"
    <2>1. upMu'.result = upMu.result
        BY <1>7, <1>12
    <2>2. ASSUME Calling', upMu'.result = "open"
          PROVE  relay'.live # 0 /\ relay'.lines # <<>> /\ relay'.lines[Len(relay'.lines)] = [on |-> upMu'.on, call |-> "held"]
        <3>1. relay.live # 0 /\ relay.lines[Len(relay.lines)] = [on |-> upMu.on, call |-> "held"]
            BY <1>8, <2>1, <2>2 DEF UpInv, LineIsLast
        <3>2. Len(relay.lines) # 1
            BY <1>2, <1>12, <3>1
        <3>3. PICK n \in Nat : n = Len(relay.lines)
            BY <1>1
        <3>4. n >= 1
            BY <1>1, <1>2, <3>3
        <3>a. n # 1
            BY <3>2, <3>3
        <3>5. n > 1 /\ n - 1 + 1 = n /\ n - 1 # 0 /\ n - 1 \in 1..(n - 1)
            BY <3>4, <3>a
        <3>6. n - 1 \in DOMAIN Tail(relay.lines)
            BY <1>2, <3>3, <3>5
        <3>7. Tail(relay.lines)[n - 1] = relay.lines[n]
            BY <1>2, <3>5, <3>6
        <3>8. Len(Tail(relay.lines)) = n - 1 /\ Tail(relay.lines) # <<>>
            BY <1>2, <3>3, <3>5, EmptySeq
        <3> QED
            BY <1>5, <1>7, <3>1, <3>3, <3>7, <3>8
    <2>3. \A i \in DOMAIN relay'.lines :
              relay'.lines[i].call = "held" => i = Len(relay'.lines) /\ Calling' /\ upMu'.result = "open"
        <3> SUFFICES ASSUME NEW i \in DOMAIN relay'.lines, relay'.lines[i].call = "held"
                     PROVE  i = Len(relay'.lines) /\ Calling' /\ upMu'.result = "open"
            OBVIOUS
        <3>1. i + 1 \in DOMAIN relay.lines /\ relay.lines[i + 1].call = "held" /\ i \in Nat
            BY <1>2, <1>5
        <3>2. i + 1 = Len(relay.lines) /\ Calling /\ upMu.result = "open"
            BY <3>1 DEF UpInv, LineIsLast
        <3> QED
            BY <1>1, <1>2, <1>5, <1>8, <2>1, <3>1, <3>2
    <2>4. LineIsLast'
        BY <2>2, <2>3 DEF LineIsLast
    <2>5. AnswerIsSo'
        BY <1>0, <1>1, <1>5, <1>6, <1>8, <2>1 DEF UpInv, AnswerIsSo, CallRec
    <2> QED
        BY <1>5, <1>6, <1>7, <1>9, <1>10, <2>4, <2>5 DEF UpInv, UpShape
<1> QED
    BY <1>11, <1>12

(* One session turns: the others have their own connections still.         *)
LEMMA SessionTurns ==
    ASSUME SubsShape, OneConn, ToldSo, NEW c \in Clients, NEW s,
           sessions' = [sessions EXCEPT ![c] = s], subs' = subs,
           \A d \in Clients \ {c} : sessions[d].conn # 0 => conns'[sessions[d].conn] = conns[sessions[d].conn],
           s.conn # 0 => /\ conns'[s.conn].state = "open"
                         /\ \A d \in Clients \ {c} : sessions[d].conn # s.conn,
           s.op \in {"none", "sub", "unsub"} => s.conn \in {0, s.cur},
           s.conn # 0 /\ s.subscribed /\ s.op # "opened" => LastWordIsSub(conns'[s.conn], s.conn, subs')
    PROVE  OneConn' /\ ToldSo'
<1>1. sessions'[c] = s /\ \A d \in Clients \ {c} : sessions'[d] = sessions[d]
    BY DEF SubsShape
<1>2. OneConn'
    <2> SUFFICES ASSUME NEW d \in Clients
                 PROVE  /\ sessions'[d].conn # 0 =>
                              /\ conns'[sessions'[d].conn].state = "open"
                              /\ \A e \in Clients \ {d} : sessions'[e].conn # sessions'[d].conn
                        /\ sessions'[d].op \in {"none", "sub", "unsub"} => sessions'[d].conn \in {0, sessions'[d].cur}
        BY DEF OneConn
    <2>1. CASE d = c
        BY <1>1, <2>1
    <2>2. CASE d # c
        BY <1>1, <2>2 DEF OneConn
    <2> QED
        BY <2>1, <2>2
<1>3. ToldSo'
    <2> SUFFICES ASSUME NEW d \in Clients, sessions'[d].conn # 0, sessions'[d].subscribed, sessions'[d].op # "opened"
                 PROVE  LastWordIsSub(conns'[sessions'[d].conn], sessions'[d].conn, subs')
        BY DEF ToldSo
    <2>1. CASE d = c
        BY <1>1, <2>1
    <2>2. CASE d # c
        <3>1. LastWordIsSub(conns[sessions[d].conn], sessions[d].conn, subs) /\ sessions'[d] = sessions[d]
            BY <1>1, <2>2 DEF ToldSo
        <3>2. conns'[sessions[d].conn] = conns[sessions[d].conn]
            BY <1>1, <2>2
        <3> QED
            BY <3>1, <3>2 DEF LastWordIsSub
    <2> QED
        BY <2>1, <2>2
<1> QED
    BY <1>2, <1>3

(* A step of a session keeps what its connection was told in step.         *)
LEMMA ClientKeeps ==
    ASSUME SubsShape, SessionsInv, NEW c \in Clients, Client(c)
    PROVE  SessionsInv'
<1> DEFINE s == sessions[c]
<1>0. /\ s \in SessionRec /\ sessions \in [Clients -> SessionRec] /\ conns \in [Conns -> ConnRec]
      /\ upMu.by \in Threads \cup {Nobody}
    BY DEF SubsShape
<1>a. s.conn \in Conns \cup {0} /\ s.cur \in Conns \cup {0} /\ \A d \in Clients : sessions[d].conn \in Conns \cup {0}
    BY <1>0 DEF SessionRec
<1>b. OneConn /\ ToldSo /\ AtItsSync
    BY DEF SessionsInv
<1>c. upMu' = upMu /\ subs' = subs
    BY DEF Client, Connect, Resubscribe, Install, Subscribe, Unsubscribe, Called, Break, daemonSide
<1>d. /\ upMu.by[1] = "worker" => upMu.by[2] \in Conns
      /\ upMu.by[1] = "reader" => upMu.by[2] \in Conns
    BY <1>0, ThreadsAre DEF Nobody
<1>e. 0 \notin Conns
    BY DEF Conns
<1>2. CASE Connect(c)
    <2>1. PICK n \in Conns :
            /\ conns[n].state = "unused"
            /\ conns' = [conns EXCEPT ![n].state = "open"]
            /\ sessions' = [sessions EXCEPT ![c].op = "opened", ![c].cur = 0, ![c].conn = n]
        BY <1>2 DEF Connect
    <2>2. PICK t : /\ sessions' = [sessions EXCEPT ![c] = t]
                   /\ t.conn = n /\ t.op = "opened"
        <3> DEFINE t == [[[s EXCEPT !.op = "opened"] EXCEPT !.cur = 0] EXCEPT !.conn = n]
        <3>1. sessions' = [sessions EXCEPT ![c] = t]
            BY <1>0, <2>1 DEF SessionRec
        <3>2. t.conn = n /\ t.op = "opened"
            BY <1>0 DEF SessionRec
        <3> QED
            BY <3>1, <3>2
    <2>3. conns'[n].state = "open" /\ conns'[n].worker = conns[n].worker /\ \A m \in Conns \ {n} : conns'[m] = conns[m]
        BY <1>0, <2>1 DEF ConnRec
    <2>4. \A d \in Clients : sessions[d].conn # n
        BY <1>b, <1>e, <2>1 DEF OneConn
    <2>5. OneConn' /\ ToldSo'
        BY <1>a, <1>b, <1>c, <2>2, <2>3, <2>4, SessionTurns
    <2>6. AtItsSync'
        BY <1>b, <1>c, <1>d, <2>1, <2>3 DEF AtItsSync
    <2> QED
        BY <2>5, <2>6 DEF SessionsInv
<1>3. CASE Resubscribe(c)
    <2>1. CASE s.subscribed /\ Alive(c)
        <3>1. s.conn \in Conns /\ conns' = [conns EXCEPT ![s.conn].line = "sub"]
            BY <1>3, <1>a, <2>1 DEF Resubscribe, Alive, Queue
        <3>2. sessions' = [sessions EXCEPT ![c] = [s EXCEPT !.op = "resub"]]
            BY <1>3, <2>1 DEF Resubscribe
        <3>3. [s EXCEPT !.op = "resub"].op = "resub" /\ [s EXCEPT !.op = "resub"].conn = s.conn
            BY <1>0 DEF SessionRec
        <3>4. /\ conns'[s.conn].line = "sub" /\ conns'[s.conn].worker = conns[s.conn].worker
              /\ conns'[s.conn].state = conns[s.conn].state
              /\ \A m \in Conns \ {s.conn} : conns'[m] = conns[m]
            BY <1>0, <3>1 DEF ConnRec
        <3>5. LastWordIsSub(conns'[s.conn], s.conn, subs')
            BY <3>4 DEF LastWordIsSub
        <3>6. conns[s.conn].state = "open" /\ \A d \in Clients \ {c} : sessions[d].conn # s.conn
            BY <1>b, <1>e, <3>1 DEF OneConn
        <3>7. OneConn' /\ ToldSo'
            BY <1>a, <1>b, <1>c, <3>2, <3>3, <3>4, <3>5, <3>6, SessionTurns DEF LastWordIsSub
        <3>8. AtItsSync'
            BY <1>b, <1>c, <1>d, <3>4 DEF AtItsSync
        <3> QED
            BY <3>7, <3>8 DEF SessionsInv
    <2>2. CASE ~(s.subscribed /\ Alive(c))
        <3>1. conns' = conns /\ sessions' = [sessions EXCEPT ![c] = [s EXCEPT !.op = "install"]]
            BY <1>3, <2>2 DEF Resubscribe
        <3>2. /\ [s EXCEPT !.op = "install"].op = "install" /\ [s EXCEPT !.op = "install"].conn = s.conn
              /\ [s EXCEPT !.op = "install"].subscribed = s.subscribed
            BY <1>0 DEF SessionRec
        <3>3. ~(s.conn # 0 /\ s.subscribed)
            BY <2>2 DEF Alive
        <3>6. s.conn # 0 => conns[s.conn].state = "open" /\ \A d \in Clients \ {c} : sessions[d].conn # s.conn
            BY <1>b DEF OneConn
        <3>7. OneConn' /\ ToldSo'
            BY <1>b, <1>c, <3>1, <3>2, <3>3, <3>6, SessionTurns
        <3> QED
            BY <1>b, <1>c, <3>1, <3>7 DEF SessionsInv, AtItsSync
    <2> QED
        BY <2>1, <2>2
<1>4. CASE Install(c)
    <2> DEFINE t == [[s EXCEPT !.op = "none"] EXCEPT !.cur = s.conn]
    <2>1. conns' = conns /\ sessions' = [sessions EXCEPT ![c] = t]
        BY <1>0, <1>4 DEF Install, SessionRec
    <2>2. t.op = "none" /\ t.cur = s.conn /\ t.conn = s.conn /\ t.subscribed = s.subscribed
        BY <1>0 DEF SessionRec
    <2> HIDE DEF t
    <2>3. s.conn # 0 => conns[s.conn].state = "open" /\ \A d \in Clients \ {c} : sessions[d].conn # s.conn
        BY <1>b DEF OneConn
    <2>4. s.conn # 0 /\ s.subscribed => LastWordIsSub(conns[s.conn], s.conn, subs)
        BY <1>4, <1>b DEF ToldSo, Install
    <2>5. s.conn # 0 /\ s.subscribed => LastWordIsSub(conns'[s.conn], s.conn, subs')
        BY <1>c, <2>1, <2>4 DEF LastWordIsSub
    <2>7. OneConn' /\ ToldSo'
        BY <1>b, <1>c, <2>1, <2>2, <2>3, <2>5, SessionTurns DEF LastWordIsSub
    <2> QED
        BY <1>b, <1>c, <2>1, <2>7 DEF SessionsInv, AtItsSync
<1>5. CASE Subscribe(c)
    <2>0. s.conn \in {0, s.cur}
        BY <1>5, <1>b DEF Subscribe, OneConn
    <2>1. CASE s.cur = 0 \/ s.cur # s.conn
        <3> DEFINE t == [s EXCEPT !.subscribed = TRUE]
        <3>1. conns' = conns /\ sessions' = [sessions EXCEPT ![c] = t]
            BY <1>5, <2>1 DEF Subscribe
        <3>2. t.conn = 0 /\ t.op = "none"
            BY <1>0, <1>5, <2>0, <2>1 DEF SessionRec, Subscribe
        <3> HIDE DEF t
        <3>3. OneConn' /\ ToldSo'
            BY <1>b, <1>c, <3>1, <3>2, SessionTurns
        <3> QED
            BY <1>b, <1>c, <3>1, <3>3 DEF SessionsInv, AtItsSync
    <2>2. CASE ~(s.cur = 0 \/ s.cur # s.conn)
        <3> DEFINE t == [[s EXCEPT !.subscribed = TRUE] EXCEPT !.op = "sub"]
        <3>1. s.conn \in Conns /\ conns' = [conns EXCEPT ![s.conn].line = "sub"]
            BY <1>5, <1>a, <2>2 DEF Subscribe, Queue
        <3>2. sessions' = [sessions EXCEPT ![c] = t]
            BY <1>0, <1>5, <2>2 DEF Subscribe, SessionRec
        <3>3. t.conn = s.conn /\ t.cur = s.cur /\ t.op = "sub"
            BY <1>0 DEF SessionRec
        <3> HIDE DEF t
        <3>4. /\ conns'[s.conn].line = "sub" /\ conns'[s.conn].worker = conns[s.conn].worker
              /\ conns'[s.conn].state = conns[s.conn].state
              /\ \A m \in Conns \ {s.conn} : conns'[m] = conns[m]
            BY <1>0, <3>1 DEF ConnRec
        <3>5. LastWordIsSub(conns'[s.conn], s.conn, subs')
            BY <3>4 DEF LastWordIsSub
        <3>6. conns[s.conn].state = "open" /\ \A d \in Clients \ {c} : sessions[d].conn # s.conn
            BY <1>b, <1>e, <3>1 DEF OneConn
        <3>7. OneConn' /\ ToldSo'
            BY <1>a, <1>b, <1>c, <2>0, <3>2, <3>3, <3>4, <3>5, <3>6, SessionTurns, ZenonT(40) DEF LastWordIsSub
        <3>8. AtItsSync'
            BY <1>b, <1>c, <1>d, <3>4 DEF AtItsSync
        <3> QED
            BY <3>7, <3>8 DEF SessionsInv
    <2> QED
        BY <2>1, <2>2
<1>6. CASE Unsubscribe(c)
    <2>0. s.conn \in {0, s.cur}
        BY <1>6, <1>b DEF Unsubscribe, OneConn
    <2>1. CASE s.cur = 0 \/ s.cur # s.conn
        <3> DEFINE t == [s EXCEPT !.subscribed = FALSE]
        <3>1. conns' = conns /\ sessions' = [sessions EXCEPT ![c] = t]
            BY <1>6, <2>1 DEF Unsubscribe
        <3>2. t.conn = 0 /\ t.op = "none"
            BY <1>0, <1>6, <2>0, <2>1 DEF SessionRec, Unsubscribe
        <3> HIDE DEF t
        <3>3. OneConn' /\ ToldSo'
            BY <1>b, <1>c, <3>1, <3>2, SessionTurns
        <3> QED
            BY <1>b, <1>c, <3>1, <3>3 DEF SessionsInv, AtItsSync
    <2>2. CASE ~(s.cur = 0 \/ s.cur # s.conn)
        <3> DEFINE t == [[s EXCEPT !.subscribed = FALSE] EXCEPT !.op = "unsub"]
        <3>1. s.conn \in Conns /\ conns' = [conns EXCEPT ![s.conn].line = "unsub"]
            BY <1>6, <1>a, <2>2 DEF Unsubscribe, Queue
        <3>2. sessions' = [sessions EXCEPT ![c] = t]
            BY <1>6, <2>2 DEF Unsubscribe
        <3>3. t.conn = s.conn /\ t.cur = s.cur /\ t.op = "unsub" /\ ~t.subscribed
            BY <1>0 DEF SessionRec
        <3> HIDE DEF t
        <3>4. /\ conns'[s.conn].worker = conns[s.conn].worker
              /\ conns'[s.conn].state = conns[s.conn].state
              /\ \A m \in Conns \ {s.conn} : conns'[m] = conns[m]
            BY <1>0, <3>1 DEF ConnRec
        <3>6. conns[s.conn].state = "open" /\ \A d \in Clients \ {c} : sessions[d].conn # s.conn
            BY <1>b, <1>e, <3>1 DEF OneConn
        <3>7. OneConn' /\ ToldSo'
            BY <1>a, <1>b, <1>c, <2>0, <3>2, <3>3, <3>4, <3>6, SessionTurns, ZenonT(40)
        <3>8. AtItsSync'
            BY <1>b, <1>c, <1>d, <3>4 DEF AtItsSync
        <3> QED
            BY <3>7, <3>8 DEF SessionsInv
    <2> QED
        BY <2>1, <2>2
<1>7. CASE Called(c)
    <2>1. /\ conns' = conns /\ s.op \in {"resub", "sub", "unsub"}
          /\ sessions' = [sessions EXCEPT ![c] = [s EXCEPT !.op = IF s.op = "resub" THEN "install" ELSE "none"]]
        BY <1>7 DEF Called
    <2> DEFINE t == [s EXCEPT !.op = IF s.op = "resub" THEN "install" ELSE "none"]
    <2>2. /\ t.conn = s.conn /\ t.cur = s.cur /\ t.subscribed = s.subscribed
          /\ t.op = (IF s.op = "resub" THEN "install" ELSE "none")
        BY <1>0 DEF SessionRec
    <2>a. sessions' = [sessions EXCEPT ![c] = t]
        BY <2>1
    <2> HIDE DEF t
    <2>3. s.conn # 0 => conns[s.conn].state = "open" /\ \A d \in Clients \ {c} : sessions[d].conn # s.conn
        BY <1>b DEF OneConn
    <2>4. s.conn # 0 /\ s.subscribed => LastWordIsSub(conns[s.conn], s.conn, subs)
        BY <2>1, <1>b DEF ToldSo
    <2>5. s.conn # 0 /\ s.subscribed => LastWordIsSub(conns'[s.conn], s.conn, subs')
        BY <1>c, <2>1, <2>4 DEF LastWordIsSub
    <2>6. t.op \in {"none", "sub", "unsub"} => t.conn \in {0, t.cur}
        BY <1>b, <2>1, <2>2 DEF OneConn
    <2>7. OneConn' /\ ToldSo'
        <3>1. t.conn # 0 => conns'[t.conn].state = "open" /\ \A d \in Clients \ {c} : sessions[d].conn # t.conn
            BY <2>1, <2>2, <2>3
        <3>2. t.conn # 0 /\ t.subscribed => LastWordIsSub(conns'[t.conn], t.conn, subs')
            BY <2>2, <2>5
        <3> QED
            BY <1>b, <1>c, <2>1, <2>6, <2>a, <3>1, <3>2, SessionTurns
    <2> QED
        BY <1>b, <1>c, <2>1, <2>7 DEF SessionsInv, AtItsSync
<1>8. CASE Break(c)
    <2> DEFINE t == [s EXCEPT !.conn = 0]
    <2>1. s.conn \in Conns /\ conns' = [conns EXCEPT ![s.conn].state = "broken"]
        BY <1>8, <1>a DEF Break, Alive
    <2>2. sessions' = [sessions EXCEPT ![c] = t]
        BY <1>8 DEF Break
    <2>3. t.conn = 0
        BY <1>0 DEF SessionRec
    <2> HIDE DEF t
    <2>4. /\ conns'[s.conn].worker = conns[s.conn].worker
          /\ \A m \in Conns \ {s.conn} : conns'[m] = conns[m]
        BY <1>0, <2>1 DEF ConnRec
    <2>6. conns[s.conn].state = "open" /\ \A d \in Clients \ {c} : sessions[d].conn # s.conn
        BY <1>b, <1>e, <2>1 DEF OneConn
    <2>7. OneConn' /\ ToldSo'
        BY <1>a, <1>b, <1>c, <2>2, <2>3, <2>4, <2>6, SessionTurns
    <2>8. AtItsSync'
        BY <1>b, <1>c, <1>d, <2>4, <2>6 DEF AtItsSync
    <2> QED
        BY <2>7, <2>8 DEF SessionsInv
<1> QED
    BY <1>2, <1>3, <1>4, <1>5, <1>6, <1>7, <1>8 DEF Client

(* A connection turns on the daemon's side.                                *)
LEMMA ConnTurns ==
    ASSUME SubsShape, OneConn, ToldSo, sessions' = sessions,
           NEW n \in Conns, NEW k \in ConnRec, conns' = [conns EXCEPT ![n] = k],
           \A m \in Conns \ {n} : m \in subs' <=> m \in subs,
           conns[n].state = "open" =>
              k.state = "open" /\ (LastWordIsSub(conns[n], n, subs) => LastWordIsSub(k, n, subs'))
    PROVE  OneConn' /\ ToldSo' /\ conns' \in [Conns -> ConnRec]
<1>0. conns \in [Conns -> ConnRec] /\ \A c \in Clients : sessions[c].conn \in Conns \cup {0}
    BY DEF SubsShape, SessionRec
<1>1. conns' \in [Conns -> ConnRec] /\ conns'[n] = k /\ \A m \in Conns \ {n} : conns'[m] = conns[m]
    BY <1>0
<1>2. OneConn'
    BY <1>0, <1>1 DEF OneConn
<1>3. ToldSo'
    <2> SUFFICES ASSUME NEW c \in Clients, sessions[c].conn # 0, sessions[c].subscribed, sessions[c].op # "opened"
                 PROVE  LastWordIsSub(conns'[sessions[c].conn], sessions[c].conn, subs')
        BY DEF ToldSo
    <2>1. LastWordIsSub(conns[sessions[c].conn], sessions[c].conn, subs) /\ sessions[c].conn \in Conns
        BY <1>0 DEF ToldSo
    <2>2. CASE sessions[c].conn = n
        BY <1>1, <2>1, <2>2 DEF OneConn
    <2>3. CASE sessions[c].conn # n
        BY <1>1, <2>1, <2>3 DEF LastWordIsSub
    <2> QED
        BY <2>2, <2>3
<1> QED
    BY <1>1, <1>2, <1>3

(* The thread that gives upMu back goes on. *)
LEMMA FinishKeeps ==
    ASSUME SubsShape, SessionsInv, sessions' = sessions, subs' = subs, upMu' = FreeMu,
           upMu.by # Nobody, Finish(upMu.by)
    PROVE  SessionsInv' /\ conns' \in [Conns -> ConnRec]
<1>0. upMu.by \in Threads /\ OneConn /\ ToldSo /\ AtItsSync /\ conns \in [Conns -> ConnRec]
    BY DEF SubsShape, SessionsInv
<1>1. AtItsSync'
    BY DEF AtItsSync, FreeMu, Nobody
<1>2. OneConn' /\ ToldSo' /\ conns' \in [Conns -> ConnRec]
    <2>1. CASE upMu.by[1] = "worker"
        <3> DEFINE n == upMu.by[2]
        <3>1. n \in Conns /\ conns' = [conns EXCEPT ![n] = [conns[n] EXCEPT !.worker = "idle"]]
            BY <1>0, <2>1, ThreadsAre DEF Finish
        <3>2. conns[n] \in ConnRec /\ conns[n].worker \in {"syncsub", "syncunsub"}
            BY <1>0, <2>1, <3>1 DEF AtItsSync
        <3> DEFINE k == [conns[n] EXCEPT !.worker = "idle"]
        <3>3. k \in ConnRec /\ k.state = conns[n].state /\ k.line = conns[n].line /\ k.worker = "idle"
            BY <3>2 DEF ConnRec
        <3>4. LastWordIsSub(conns[n], n, subs) => LastWordIsSub(k, n, subs')
            BY <3>2, <3>3 DEF LastWordIsSub
        <3> HIDE DEF k, n
        <3>5. conns' = [conns EXCEPT ![n] = k]
            BY <3>1 DEF k, n
        <3> QED
            BY <1>0, <3>1, <3>3, <3>4, <3>5, ConnTurns
    <2>2. CASE upMu.by[1] = "reader"
        <3> DEFINE n == upMu.by[2]
        <3>1. n \in Conns /\ conns' = [conns EXCEPT ![n] = [conns[n] EXCEPT !.state = "drain"]]
            BY <1>0, <2>2, ThreadsAre DEF Finish
        <3>2. conns[n] \in ConnRec /\ conns[n].state = "sync"
            BY <1>0, <2>2, <3>1 DEF AtItsSync
        <3> DEFINE k == [conns[n] EXCEPT !.state = "drain"]
        <3>3. k \in ConnRec
            BY <3>2 DEF ConnRec
        <3> HIDE DEF k, n
        <3>5. conns' = [conns EXCEPT ![n] = k]
            BY <3>1 DEF k, n
        <3> QED
            BY <1>0, <3>1, <3>2, <3>3, <3>5, ConnTurns
    <2>3. CASE upMu.by[1] \notin {"worker", "reader"}
        <3>1. conns' = conns
            BY <2>3 DEF Finish
        <3> QED
            BY <1>0, <3>1 DEF OneConn, ToldSo
    <2> QED
        BY <2>1, <2>2, <2>3
<1> QED
    BY <1>1, <1>2 DEF SessionsInv

(* What the calls do to the sessions' side: nothing, or a thread goes on.  *)
LEMMA CallsKeepSessions ==
    ASSUME SubsShape, SessionsInv, UpMoves
    PROVE  SessionsInv' /\ conns' \in [Conns -> ConnRec]
<1>0. sessions' = sessions /\ subs' = subs
    BY DEF UpMoves, PrevReturned, Returned, GaveUp, LateError, Resync, Restore, ResubscribeUpstream,
           RelayDies, OnDead, HubReads
<1>1. CASE Returned \/ GaveUp
    BY <1>0, <1>1, FinishKeeps DEF Returned, GaveUp
<1>2. CASE \/ PrevReturned \/ LateError \/ Resync \/ Restore \/ ResubscribeUpstream
           \/ RelayDies \/ OnDead \/ HubReads
    <2>1. conns' = conns
        BY <1>2 DEF PrevReturned, LateError, Resync, Restore, ResubscribeUpstream, RelayDies, OnDead, HubReads
    <2>2. upMu \in CallRec
        BY UpShapeIs DEF UpShape
    <2>3. upMu'.by = upMu.by \/ upMu'.by \in {Resyncer, Restorer}
        <3>1. CASE PrevReturned
            BY <2>2, <3>1 DEF PrevReturned, CallRec
        <3>2. CASE RelayDies
            BY <2>2, <3>2 DEF RelayDies, CallRec
        <3>3. CASE HubReads
            <4>1. upMu' = [upMu EXCEPT !.result = "ok"] \/ upMu' = upMu
                BY <3>3 DEF HubReads
            <4>2. [upMu EXCEPT !.result = "ok"].by = upMu.by
                BY <2>2 DEF CallRec
            <4> QED
                BY <4>1, <4>2
        <3>4. CASE Resync \/ ResubscribeUpstream
            <4>1. ASSUME NEW t, NEW on, NEW i, Hold(t, on, i) PROVE upMu'.by = t
                BY <4>1 DEF Hold
            <4>2. upMu' = upMu \/ Hold(Resyncer, Want, up.inflight) \/ Hold(Restorer, TRUE, "none")
                BY <3>4 DEF Resync, ResubscribeUpstream
            <4> QED
                BY <4>1, <4>2
        <3>5. CASE LateError \/ Restore \/ OnDead
            BY <3>5 DEF LateError, Restore, OnDead
        <3> QED
            BY <1>2, <3>1, <3>2, <3>3, <3>4, <3>5
    <2>4. AtItsSync'
        BY <2>1, <2>3 DEF SessionsInv, AtItsSync, Resyncer, Restorer
    <2>5. OneConn' /\ ToldSo'
        BY <1>0, <2>1 DEF SessionsInv, OneConn, ToldSo
    <2> QED
        BY <2>1, <2>4, <2>5 DEF SessionsInv, SubsShape
<1> QED
    BY <1>1, <1>2 DEF UpMoves

(* A step of a connection's worker or reader.                              *)
LEMMA ServeKeeps ==
    ASSUME SubsShape, SessionsInv, UpInv, NEW n \in Conns, Serve(n)
    PROVE  SubsShape' /\ SessionsInv' /\ UpInv'
<1>0. /\ OneConn /\ ToldSo /\ AtItsSync /\ conns \in [Conns -> ConnRec] /\ conns[n] \in ConnRec
      /\ upMu.by \in Threads \cup {Nobody}
    BY DEF SubsShape, SessionsInv
<1>a. sessions' = sessions
    BY DEF Serve, Take, Register, WorkerSync, ReaderEnds, ReaderSync, CloseSession
<1>b. /\ upMu.by[1] = "worker" => upMu.by[2] \in Conns
      /\ upMu.by[1] = "reader" => upMu.by[2] \in Conns
    BY <1>0, ThreadsAre DEF Nobody
<1>c. SubsShape => UpShape /\ sessions \in [Clients -> SessionRec]
    BY UpShapeIs DEF SubsShape
<1>d. UpShape' /\ sessions' \in [Clients -> SessionRec] /\ conns' \in [Conns -> ConnRec] => SubsShape'
    BY DEF SubsShape, UpShape, UpRec, CallRec, RelayRec
(* A step that leaves upMu, the daemon's record and the relay alone.       *)
<1>e. ASSUME NEW k \in ConnRec, conns' = [conns EXCEPT ![n] = k], UNCHANGED <<up, upMu, relay>>,
             \A m \in Conns \ {n} : m \in subs' <=> m \in subs,
             conns[n].state = "open" =>
                k.state = "open" /\ (LastWordIsSub(conns[n], n, subs) => LastWordIsSub(k, n, subs')),
             upMu.by[1] = "worker" /\ upMu.by[2] = n => k.worker \in {"syncsub", "syncunsub"},
             upMu.by[1] = "reader" /\ upMu.by[2] = n => k.state = "sync"
      PROVE  SubsShape' /\ SessionsInv' /\ UpInv'
    <2>1. OneConn' /\ ToldSo' /\ conns' \in [Conns -> ConnRec]
        BY <1>0, <1>a, <1>e, ConnTurns
    <2>2. conns'[n] = k /\ \A m \in Conns \ {n} : conns'[m] = conns[m]
        BY <1>0, <1>e
    <2>3. AtItsSync'
        BY <1>0, <1>b, <1>e, <2>2 DEF AtItsSync
    <2>4. UpInv'
        BY <1>e, UpFrame
    <2>5. UpShape'
        BY <1>c, <1>e DEF UpShape
    <2> QED
        BY <1>a, <1>c, <1>d, <2>1, <2>3, <2>4, <2>5 DEF SessionsInv
(* A step that takes upMu to send. *)
<1>f. ASSUME NEW w \in {"worker", "reader"}, NEW b \in BOOLEAN, SyncUpstream(<<w, n>>, b), conns' = conns, subs' = subs,
             w = "worker" => conns[n].worker \in {"syncsub", "syncunsub"},
             w = "reader" => conns[n].state = "sync"
      PROVE  SubsShape' /\ SessionsInv' /\ UpInv'
    <2>1. <<w, n>> \in Threads
        BY DEF Threads
    <2>2. UpShape' /\ UpInv' /\ upMu'.by = <<w, n>>
        BY <1>f, <2>1, SyncSends
    <2>3. AtItsSync'
        BY <1>f, <2>2 DEF AtItsSync
    <2>4. OneConn' /\ ToldSo'
        BY <1>0, <1>a, <1>f DEF OneConn, ToldSo
    <2> QED
        BY <1>0, <1>a, <1>c, <1>d, <1>f, <2>2, <2>3, <2>4 DEF SessionsInv
<1>1. CASE Take(n)
    <2> DEFINE k == [[conns[n] EXCEPT !.line = "none"] EXCEPT !.worker = conns[n].line]
    <2>1. /\ conns' = [conns EXCEPT ![n] = k] /\ UNCHANGED <<up, upMu, relay, subs>>
          /\ conns[n].worker = "idle" /\ conns[n].line # "none"
        <3>1. conns' = [conns EXCEPT ![n].line = "none", ![n].worker = conns[n].line]
            BY <1>1 DEF Take
        <3>2. conns' = [conns EXCEPT ![n] = k]
            BY <1>0, <3>1 DEF ConnRec
        <3> QED
            BY <1>1, <3>2 DEF Take, daemonSide
    <2>3. conns[n].line \in {"sub", "unsub"}
        BY <1>0, <2>1 DEF ConnRec
    <2>2. k \in ConnRec /\ k.state = conns[n].state /\ k.line = "none" /\ k.worker = conns[n].line
        BY <1>0, <2>3 DEF ConnRec
    <2> HIDE DEF k
    <2>4. LastWordIsSub(conns[n], n, subs) => LastWordIsSub(k, n, subs')
        BY <2>1, <2>2, <2>3 DEF LastWordIsSub
    <2> QED
        BY <1>0, <1>e, <2>1, <2>2, <2>4 DEF AtItsSync
<1>2. CASE Register(n)
    <2> DEFINE k == [conns[n] EXCEPT !.worker = IF conns[n].worker = "sub" THEN "syncsub" ELSE "syncunsub"]
    <2>1. /\ conns' = [conns EXCEPT ![n] = k] /\ UNCHANGED <<up, upMu, relay>>
          /\ conns[n].worker \in {"sub", "unsub"}
          /\ subs' = (IF conns[n].worker = "sub" THEN subs \cup {n} ELSE subs \ {n})
        BY <1>2 DEF Register
    <2>2. /\ k \in ConnRec /\ k.state = conns[n].state /\ k.line = conns[n].line
          /\ k.worker \in {"syncsub", "syncunsub"}
        BY <1>0 DEF ConnRec
    <2> HIDE DEF k
    <2>3. \A m \in Conns \ {n} : m \in subs' <=> m \in subs
        BY <2>1
    <2>4. LastWordIsSub(conns[n], n, subs) => LastWordIsSub(k, n, subs')
        BY <2>1, <2>2 DEF LastWordIsSub
    <2> QED
        BY <1>0, <1>e, <2>1, <2>2, <2>3, <2>4 DEF AtItsSync
<1>3. CASE WorkerSync(n)
    <2>0. subs' = subs /\ conns[n].worker \in {"syncsub", "syncunsub"}
        BY <1>3 DEF WorkerSync
    <2>1. CASE InStep(conns[n].worker = "syncsub")
        <3> DEFINE k == [conns[n] EXCEPT !.worker = "idle"]
        <3>1. conns' = [conns EXCEPT ![n] = k] /\ UNCHANGED <<up, upMu, relay>> /\ upMu.by = Nobody
            BY <1>3, <2>1 DEF WorkerSync, Finish
        <3>2. k \in ConnRec /\ k.state = conns[n].state /\ k.line = conns[n].line /\ k.worker = "idle"
            BY <1>0 DEF ConnRec
        <3> HIDE DEF k
        <3>3. LastWordIsSub(conns[n], n, subs) => LastWordIsSub(k, n, subs')
            BY <2>0, <3>2 DEF LastWordIsSub
        <3>4. upMu.by[1] \notin {"worker", "reader"}
            BY <3>1 DEF Nobody
        <3> QED
            BY <1>e, <2>0, <3>1, <3>2, <3>3, <3>4
    <2>2. CASE ~InStep(conns[n].worker = "syncsub")
        <3>1. SyncUpstream(<<"worker", n>>, conns[n].worker = "syncsub") /\ conns' = conns
            BY <1>3, <2>2 DEF WorkerSync
        <3>2. (conns[n].worker = "syncsub") \in BOOLEAN
            OBVIOUS
        <3> QED
            BY <1>f, <2>0, <3>1, <3>2
    <2> QED
        BY <2>1, <2>2
<1>4. CASE ReaderEnds(n)
    <2> DEFINE k == [[conns[n] EXCEPT !.state = "sync"] EXCEPT !.line = "none"]
    <2>1. /\ conns' = [conns EXCEPT ![n] = k] /\ UNCHANGED <<up, upMu, relay>> /\ subs' = subs \ {n}
          /\ conns[n].state = "broken"
        BY <1>0, <1>4 DEF ReaderEnds, ConnRec
    <2>2. k \in ConnRec /\ k.state = "sync" /\ k.worker = conns[n].worker
        BY <1>0 DEF ConnRec
    <2> HIDE DEF k
    <2> QED
        BY <1>0, <1>e, <2>1, <2>2 DEF AtItsSync
<1>5. CASE ReaderSync(n)
    <2>0. subs' = subs /\ conns[n].state = "sync"
        BY <1>5 DEF ReaderSync
    <2>1. CASE InStep(FALSE)
        <3> DEFINE k == [conns[n] EXCEPT !.state = "drain"]
        <3>1. conns' = [conns EXCEPT ![n] = k] /\ UNCHANGED <<up, upMu, relay>> /\ upMu.by = Nobody
            BY <1>5, <2>1 DEF ReaderSync, Finish
        <3>2. k \in ConnRec
            BY <1>0 DEF ConnRec
        <3> HIDE DEF k
        <3>4. upMu.by[1] \notin {"worker", "reader"}
            BY <3>1 DEF Nobody
        <3> QED
            BY <1>e, <2>0, <3>1, <3>2, <3>4
    <2>2. CASE ~InStep(FALSE)
        <3>1. SyncUpstream(<<"reader", n>>, FALSE) /\ conns' = conns
            BY <1>5, <2>2 DEF ReaderSync
        <3> QED
            BY <1>f, <2>0, <3>1
    <2> QED
        BY <2>1, <2>2
<1>6. CASE CloseSession(n)
    <2> DEFINE k == [conns[n] EXCEPT !.state = "closed"]
    <2>1. /\ conns' = [conns EXCEPT ![n] = k] /\ UNCHANGED <<up, upMu, relay>> /\ subs' = subs \ {n}
          /\ conns[n].state = "drain"
        BY <1>6 DEF CloseSession
    <2>2. k \in ConnRec /\ k.worker = conns[n].worker
        BY <1>0 DEF ConnRec
    <2> HIDE DEF k
    <2> QED
        BY <1>0, <1>e, <2>1, <2>2 DEF AtItsSync
<1> QED
    BY <1>1, <1>2, <1>3, <1>4, <1>5, <1>6 DEF Serve

(* The calls keep what the daemon believes.                                *)
LEMMA CallsKeepUp ==
    ASSUME SubsShape, UpInv, UpMoves
    PROVE  UpShape' /\ UpInv'
BY PrevReturnedKeeps, ReturnedKeeps, GaveUpKeeps, LateErrorKeeps, ResyncKeeps, RestoreKeeps,
   ResubscribeKeeps, RelayDiesKeeps, OnDeadKeeps, HubReadsKeeps DEF UpMoves

(* Every step keeps the sessions, the connections and the upstream as they are due. *)
LEMMA SubsSteps ==
    SubsShape /\ SessionsInv /\ UpInv /\ [SubsNext]_uvars => SubsShape' /\ SessionsInv' /\ UpInv'
<1> SUFFICES ASSUME SubsShape, SessionsInv, UpInv, [SubsNext]_uvars
             PROVE  SubsShape' /\ SessionsInv' /\ UpInv'
    OBVIOUS
<1>1. ASSUME NEW c \in Clients, Client(c) PROVE SubsShape' /\ SessionsInv' /\ UpInv'
    <2>1. UNCHANGED <<up, upMu, relay>>
        BY <1>1 DEF Client, Connect, Resubscribe, Install, Subscribe, Unsubscribe, Called, Break, daemonSide
    <2> QED
        BY <1>1, <2>1, ClientShape, ClientKeeps, UpFrame
<1>2. ASSUME NEW n \in Conns, Serve(n) PROVE SubsShape' /\ SessionsInv' /\ UpInv'
    BY <1>2, ServeKeeps
<1>3. CASE UpMoves
    <2>1. UpShape' /\ UpInv' /\ SessionsInv' /\ conns' \in [Conns -> ConnRec]
        BY <1>3, CallsKeepUp, CallsKeepSessions
    <2>2. sessions' = sessions
        BY <1>3 DEF UpMoves, PrevReturned, Returned, GaveUp, LateError, Resync, Restore, ResubscribeUpstream,
                    RelayDies, OnDead, HubReads
    <2> QED
        BY <2>1, <2>2 DEF SubsShape, UpShape, UpRec, CallRec, RelayRec
<1>4. CASE UNCHANGED uvars
    BY <1>4 DEF uvars, SubsShape, SessionsInv, OneConn, AtItsSync, ToldSo, UpInv, OneRelay, LineIsLast,
                AnswerIsSo, BeliefIsSo, Calling
<1> QED
    BY <1>1, <1>2, <1>3, <1>4 DEF SubsNext, UpMoves

(***************************************************************************)
(* EventsReach: whoever wants the hub's events is registered for them or   *)
(* its subscribe is on its way, and what a daemon believes its relay has   *)
(* told the hub is so, through every reconnect, timeout, late answer and   *)
(* dead relay.                                                             *)
(***************************************************************************)
THEOREM WhoWantsEventsHearsThem == SubsSpec => []EventsReach
<1> DEFINE Inv == SubsShape /\ SessionsInv /\ UpInv
<1>1. SubsInit => Inv
    BY SubsStarts
<1>2. Inv /\ [SubsNext]_uvars => Inv'
    BY SubsSteps
<1>3. Inv => EventsReach
    <2> SUFFICES ASSUME SubsShape, SessionsInv, UpInv
                 PROVE  NeverLost /\ BelievedIsSo
        BY DEF EventsReach
    <2>1. NeverLost
        BY DEF NeverLost, SessionsInv, ToldSo, LastWordIsSub
    <2>2. BelievedIsSo
        BY DEF BelievedIsSo, Quiet, UpInv, BeliefIsSo, Calling
    <2> QED
        BY <2>1, <2>2
<1> QED
    BY <1>1, <1>2, <1>3, PTL DEF SubsSpec

-----------------------------------------------------------------------------

(***************************************************************************)
(* BoxAccess: the login's keys file holds the host's key, or the command   *)
(* that writes into it now is about to put it there.                       *)
(***************************************************************************)
Filling(fd) == \E r \in Runners : step[r] = "fill" /\ work[r].fd = fd
LoginHolds == "own" \in keysOf[login] \/ Filling("live")

(* What a writer rewrites has the host's key, and so has the file it       *)
(* renames, or will have.                                                  *)
WritesOwn == \A r \in Runners : step[r] \in {"open", "fill", "mv"} => "own" \in work[r].lines
TmpHolds == tmp # Absent => "own" \in tmp \/ Filling("tmp")

(* The box takes keys alone, and the user is made for a login that is the  *)
(* user.                                                                   *)
KeysOnly == ~takes /\ \A r \in Runners : step[r] \in {"ensure", "copy", "verify"} => login = "dev"

(* A box being pinned, or pinned, lets the login's user in by its key.     *)
Pinning == dropin # "none" \/ sshd # "none" \/ \E r \in Runners : step[r] \in {"guard", "firewall", "dropin", "reload"}
PinsLogin ==
    /\ dropin \in {"none", login} /\ sshd \in {"none", login}
    /\ Pinning => login = "dev" /\ user /\ LoginHolds

(* Some way in: the login's, or the other user's while nothing is pinned.  *)
WayOpen == \/ Lets(login) /\ LoginHolds
           \/ \E u \in Users : u # login /\ Accepts(u)

BoxInv == BoxTypeOK /\ WritesOwn /\ TmpHolds /\ KeysOnly /\ PinsLogin /\ WayOpen

(* The types, part by part. *)
LEMMA BoxTypes ==
    ASSUME BoxTypeOK
    PROVE  /\ login \in Users /\ user \in BOOLEAN
           /\ keysOf \in [Users -> Files] /\ tmp \in Files
           /\ step \in [Runners -> Steps] /\ work \in [Runners -> Works]
BY DEF BoxTypeOK

(* A command moves on, and writes nothing on the box.                      *)
LEMMA RunnerMoves ==
    ASSUME BoxInv, NEW r \in Runners, NEW t \in Steps, NEW w \in Works, UNCHANGED box,
           step' = [step EXCEPT ![r] = t], work' = [work EXCEPT ![r] = w],
           step[r] # "fill", t # "fill",
           t \in {"open", "mv"} => "own" \in w.lines,
           t \in {"ensure", "copy", "verify"} => login = "dev",
           t \in {"guard", "firewall", "dropin", "reload"} => login = "dev" /\ user /\ LoginHolds
    PROVE  BoxInv'
<1>0. /\ step \in [Runners -> Steps] /\ work \in [Runners -> Works]
      /\ UNCHANGED <<login, takes, user, keysOf, tmp, dropin, sshd>>
    BY BoxTypes DEF BoxInv, box
<1>1. /\ step'[r] = t /\ work'[r] = w
      /\ \A q \in Runners \ {r} : step'[q] = step[q] /\ work'[q] = work[q]
      /\ step' \in [Runners -> Steps] /\ work' \in [Runners -> Works]
    BY <1>0
<1>2. BoxTypeOK'
    BY <1>0, <1>1 DEF BoxInv, BoxTypeOK
<1>3. \A fd : Filling(fd)' <=> Filling(fd)
    BY <1>1 DEF Filling
<1>4. LoginHolds' <=> LoginHolds
    BY <1>0, <1>3 DEF LoginHolds
<1>5. WritesOwn' /\ TmpHolds' /\ KeysOnly'
    BY <1>0, <1>1, <1>3 DEF BoxInv, WritesOwn, TmpHolds, KeysOnly
<1>6. PinsLogin'
    BY <1>0, <1>1, <1>4 DEF BoxInv, PinsLogin, Pinning
<1>7. WayOpen'
    BY <1>0, <1>4 DEF BoxInv, WayOpen, Lets, Accepts
<1> QED
    BY <1>2, <1>5, <1>6, <1>7 DEF BoxInv

(* The same, when the command gives up, and when its work stays.           *)
LEMMA RunnerQuits ==
    ASSUME BoxInv, NEW r \in Runners, UNCHANGED box, Quit(r), step[r] # "fill"
    PROVE  BoxInv'
<1>1. NoWork \in Works /\ "idle" \in Steps
    BY DEF NoWork, Works, Jobs, Keys, Steps
<1> QED
    BY <1>1, RunnerMoves DEF Quit

(* A command that goes on to its next step with its work as it is. *)
LEMMA RunnerSteps ==
    ASSUME BoxInv, NEW r \in Runners, UNCHANGED box, NEW from, NEW t \in Steps, To(r, from, t), UNCHANGED work,
           from # "fill", t \notin {"open", "fill", "mv"},
           t \in {"ensure", "copy", "verify"} => login = "dev",
           t \in {"guard", "firewall", "dropin", "reload"} => login = "dev" /\ user /\ LoginHolds
    PROVE  BoxInv'
<1>1. work \in [Runners -> Works]
    BY BoxTypes DEF BoxInv
<1>2. work' = [work EXCEPT ![r] = work[r]] /\ work[r] \in Works
    BY <1>1
<1> QED
    BY <1>2, RunnerMoves DEF To

(* Who enters a box that takes keys alone has its key in the login's file. *)
LEMMA EntersByKey ==
    ASSUME BoxInv, Enters(login)
    PROVE  LoginHolds /\ Lets(login) /\ "own" \in keysOf[login] /\ (login # "root" => login = "dev" /\ user)
BY BoxTypes DEF BoxInv, Enters, Accepts, Lets, LoginHolds, KeysOnly, Users

(* A login that lets in does so whoever else is pinned. *)
LEMMA Frozen ==
    ASSUME BoxInv, UNCHANGED <<login, takes, dropin, sshd>>, user => user', user' \in BOOLEAN,
           keysOf' \in [Users -> Files], tmp' \in Files, step' \in [Runners -> Steps], work' \in [Runners -> Works],
           WritesOwn', TmpHolds', LoginHolds => LoginHolds',
           \A u \in Users : u # login => keysOf'[u] = keysOf[u],
           \A r \in Runners : /\ step'[r] \in {"ensure", "copy", "verify"} => login = "dev"
                              /\ step'[r] \in {"guard", "firewall", "dropin", "reload"} =>
                                    login = "dev" /\ user' /\ LoginHolds'
    PROVE  BoxInv'
<1>1. BoxTypeOK'
    BY DEF BoxInv, BoxTypeOK
<1>2. KeysOnly'
    BY DEF BoxInv, KeysOnly
<1>3. PinsLogin'
    BY DEF BoxInv, PinsLogin, Pinning
<1>4. WayOpen'
    <2>1. CASE Lets(login) /\ LoginHolds
        BY <2>1 DEF WayOpen, Lets
    <2>2. CASE \E u \in Users : u # login /\ Accepts(u)
        BY <2>2 DEF WayOpen, Accepts, Lets
    <2> QED
        BY <2>1, <2>2 DEF BoxInv, WayOpen
<1> QED
    BY <1>1, <1>2, <1>3, <1>4 DEF BoxInv

(* The steps that only move the command on. *)
LEMMA CommandKeeps ==
    ASSUME BoxInv, NEW r \in Runners,
           \/ \E j \in Jobs, key \in {"own", "other"}, h \in BOOLEAN : Issue(r, j, key, h)
           \/ Reach(r) \/ Verify(r) \/ Shape(r) \/ ReadKeys(r) \/ Whoami(r) \/ Guard(r) \/ Firewall(r) \/ Abort(r)
    PROVE  BoxInv'
<1>0. /\ step \in [Runners -> Steps] /\ work \in [Runners -> Works] /\ login \in Users /\ keysOf \in [Users -> Files]
      /\ work[r] \in Works
    BY BoxTypes DEF BoxInv
<1>a. PinsLogin /\ WritesOwn /\ KeysOnly
    BY DEF BoxInv
<1>1. CASE \E j \in Jobs, key \in {"own", "other"}, h \in BOOLEAN : Issue(r, j, key, h)
    <2>1. PICK j \in Jobs, key \in {"own", "other"}, h \in BOOLEAN : Issue(r, j, key, h)
        BY <1>1
    <2>2. PICK t \in {"reach", "whoami", "read"} : To(r, "idle", t)
        BY <2>1 DEF Issue
    <2>3. [NoWork EXCEPT !.job = j, !.key = key, !.harden = h] \in Works
        BY DEF NoWork, Works, Keys
    <2>4. UNCHANGED box /\ work' = [work EXCEPT ![r] = [NoWork EXCEPT !.job = j, !.key = key, !.harden = h]]
        BY <2>1 DEF Issue
    <2>5. t \in Steps
        BY DEF Steps
    <2> QED
        BY <2>2, <2>3, <2>4, <2>5, RunnerMoves DEF To
<1>2. CASE Reach(r)
    <2>1. CASE login = "root" \/ ~(Accepts(login) \/ Accepts("root"))
        BY <1>2, <2>1, RunnerQuits DEF Reach
    <2>2. CASE ~(login = "root" \/ ~(Accepts(login) \/ Accepts("root")))
        <3>1. PICK t \in {"shape", "ensure"} : To(r, "reach", t) /\ UNCHANGED work
            BY <1>2, <2>2 DEF Reach
        <3>2. login = "dev" /\ t \in Steps
            BY <1>0, <2>2 DEF Users, Steps
        <3> QED
            BY <1>2, <3>1, <3>2, RunnerSteps DEF Reach
    <2> QED
        BY <2>1, <2>2
<1>3. CASE Verify(r)
    <2>1. CASE Accepts("dev")
        <3>1. To(r, "verify", "shape") /\ UNCHANGED work /\ "shape" \in Steps
            BY <1>3, <2>1 DEF Verify, Steps
        <3> QED
            BY <1>3, <3>1, RunnerSteps DEF Verify
    <2>2. CASE ~Accepts("dev")
        BY <1>3, <2>2, RunnerQuits DEF Verify
    <2> QED
        BY <2>1, <2>2
<1>4. CASE Shape(r)
    <2>1. PICK t \in {"read", "whoami"} : To(r, "shape", t) /\ UNCHANGED work
        BY <1>4 DEF Shape
    <2>2. t \in Steps
        BY DEF Steps
    <2> QED
        BY <1>4, <2>1, <2>2, RunnerSteps DEF Shape
<1>5. CASE ReadKeys(r)
    <2> DEFINE lines == keysOf[login]
               w == work[r]
    <2>1. CASE Quit(r)
        BY <1>5, <2>1, RunnerQuits DEF ReadKeys
    <2>2. CASE ~Quit(r)
        <3>1. /\ lines # Absent /\ ~(w.job = "rm" /\ Protected(w, lines))
              /\ To(r, "read", "open") /\ work' = [work EXCEPT ![r].lines = Rewritten(w, lines)]
              /\ Enters(login) /\ UNCHANGED box
            BY <1>5, <2>2 DEF ReadKeys
        <3>2. lines \in SUBSET Keys /\ "own" \in lines /\ w.key \in Keys
            BY <1>0, <3>1, EntersByKey DEF Files, Works
        <3>3. Rewritten(w, lines) \in SUBSET Keys /\ "own" \in Rewritten(w, lines)
            BY <3>1, <3>2 DEF Rewritten, Protected, Keys
        <3>4. work' = [work EXCEPT ![r] = [work[r] EXCEPT !.lines = Rewritten(w, lines)]]
            BY <3>1
        <3> HIDE DEF lines
        <3>5. PICK ls \in SUBSET Keys : "own" \in ls /\ work' = [work EXCEPT ![r] = [work[r] EXCEPT !.lines = ls]]
            BY <3>3, <3>4
        <3>6. [work[r] EXCEPT !.lines = ls] \in Works /\ [work[r] EXCEPT !.lines = ls].lines = ls
            BY <1>0 DEF Works
        <3>7. "open" \in Steps
            BY DEF Steps
        <3> QED
            BY <3>1, <3>5, <3>6, <3>7, RunnerMoves DEF To
    <2> QED
        BY <2>1, <2>2
<1>6. CASE Whoami(r)
    <2>1. CASE login = "root"
        BY <1>6, <2>1, RunnerQuits DEF Whoami
    <2>2. CASE login # "root"
        <3>1. To(r, "whoami", "guard") /\ UNCHANGED work /\ "guard" \in Steps /\ UNCHANGED box
            BY <1>6, <2>2 DEF Whoami, Steps
        <3>2. login = "dev" /\ user /\ LoginHolds
            BY <1>6, <2>2, EntersByKey DEF Whoami
        <3> QED
            BY <3>1, <3>2, RunnerSteps
    <2> QED
        BY <2>1, <2>2
<1>7. CASE Guard(r)
    <2>1. CASE Empty(keysOf[login])
        BY <1>7, <2>1, RunnerQuits DEF Guard
    <2>2. CASE ~Empty(keysOf[login])
        <3>1. To(r, "guard", "firewall") /\ UNCHANGED work /\ "firewall" \in Steps /\ UNCHANGED box
            BY <1>7, <2>2 DEF Guard, Steps
        <3>2. login = "dev" /\ user /\ LoginHolds
            BY <1>7, <1>a DEF Guard, PinsLogin, Pinning
        <3> QED
            BY <3>1, <3>2, RunnerSteps
    <2> QED
        BY <2>1, <2>2
<1>8. CASE Firewall(r)
    <2>1. To(r, "firewall", "dropin") /\ UNCHANGED work /\ "dropin" \in Steps /\ UNCHANGED box
        BY <1>8 DEF Firewall, Steps
    <2>2. login = "dev" /\ user /\ LoginHolds
        BY <1>a, <2>1 DEF PinsLogin, Pinning, To
    <2> QED
        BY <2>1, <2>2, RunnerSteps
<1>9. CASE Abort(r)
    BY <1>9, RunnerQuits DEF Abort
<1> QED
    BY <1>1, <1>2, <1>3, <1>4, <1>5, <1>6, <1>7, <1>8, <1>9

(* The user made, and root's keys copied to it. *)
LEMMA UserKeeps ==
    ASSUME BoxInv, NEW r \in Runners, EnsureUser(r) \/ CopyKeys(r)
    PROVE  BoxInv'
<1>0. /\ step \in [Runners -> Steps] /\ work \in [Runners -> Works] /\ login \in Users /\ keysOf \in [Users -> Files]
      /\ tmp \in Files /\ user \in BOOLEAN /\ "root" \in Users /\ "dev" \in Users
    BY BoxTypes DEF BoxInv, Users
<1>a. PinsLogin /\ WritesOwn /\ KeysOnly /\ TmpHolds
    BY DEF BoxInv
<1>1. PICK from \in {"ensure", "copy"}, t \in {"copy", "verify"} :
          step[r] = from /\ step' = [step EXCEPT ![r] = t]
    BY DEF EnsureUser, CopyKeys, To
<1>2. UNCHANGED <<login, takes, tmp, dropin, sshd, work>>
    BY DEF EnsureUser, CopyKeys
<1>3. login = "dev"
    BY <1>1, <1>a DEF KeysOnly
<1>4. /\ step'[r] = t /\ step'[r] \in {"copy", "verify"} /\ \A q \in Runners \ {r} : step'[q] = step[q]
      /\ step' \in [Runners -> Steps]
    BY <1>0, <1>1 DEF Steps
<1>5. \A fd : Filling(fd)' <=> Filling(fd)
    BY <1>1, <1>2, <1>4 DEF Filling
<1>6. user' \in BOOLEAN /\ (user => user')
    BY <1>0 DEF EnsureUser, CopyKeys
<1>7. /\ keysOf' \in [Users -> Files] /\ \A u \in Users : u # login => keysOf'[u] = keysOf[u]
      /\ "own" \in keysOf[login] => keysOf' = keysOf
    <2>1. CASE keysOf' = keysOf
        BY <1>0, <2>1
    <2>2. CASE keysOf' # keysOf
        <3>1. Empty(keysOf["dev"]) /\ keysOf' = [keysOf EXCEPT !["dev"] = keysOf["root"]]
            BY <2>2 DEF EnsureUser, CopyKeys
        <3>2. "own" \notin keysOf["dev"]
            BY <3>1 DEF Empty, Absent
        <3> QED
            BY <1>0, <1>3, <3>1, <3>2
    <2> QED
        BY <2>1, <2>2
<1>8. LoginHolds => LoginHolds'
    BY <1>2, <1>5, <1>7 DEF LoginHolds
<1>9. WritesOwn' /\ TmpHolds'
    BY <1>2, <1>4, <1>5, <1>a DEF WritesOwn, TmpHolds
<1>10. \A q \in Runners : /\ step'[q] \in {"ensure", "copy", "verify"} => login = "dev"
                          /\ step'[q] \in {"guard", "firewall", "dropin", "reload"} =>
                                login = "dev" /\ user' /\ LoginHolds'
    BY <1>3, <1>4, <1>6, <1>8, <1>a DEF PinsLogin, Pinning
<1> QED
    BY <1>0, <1>2, <1>4, <1>6, <1>7, <1>8, <1>9, <1>10, Frozen

(* A writer opens the temporary file, fills what it opened, and renames.   *)
LEMMA WriterKeeps ==
    ASSUME BoxInv, Drops = FALSE, NEW r \in Runners, OpenTmp(r) \/ Fill(r) \/ Mv(r)
    PROVE  BoxInv'
<1>0. /\ step \in [Runners -> Steps] /\ work \in [Runners -> Works] /\ login \in Users /\ keysOf \in [Users -> Files]
      /\ tmp \in Files /\ user \in BOOLEAN /\ work[r] \in Works
    BY BoxTypes DEF BoxInv
<1>a. PinsLogin /\ WritesOwn /\ KeysOnly /\ TmpHolds
    BY DEF BoxInv
<1>b. UNCHANGED <<login, takes, user, dropin, sshd>>
    BY DEF OpenTmp, Fill, Mv
<1>1. CASE OpenTmp(r)
    <2> DEFINE w == [work[r] EXCEPT !.fd = "tmp"]
    <2>1. /\ step[r] = "open" /\ step' = [step EXCEPT ![r] = "fill"] /\ keysOf' = keysOf /\ tmp' = {}
          /\ work' = [work EXCEPT ![r] = w]
        BY <1>1 DEF OpenTmp, To
    <2>2. w \in Works /\ w.fd = "tmp" /\ w.lines = work[r].lines
        BY <1>0 DEF Works
    <2> HIDE DEF w
    <2>3. /\ step' \in [Runners -> Steps] /\ work' \in [Runners -> Works] /\ tmp' \in Files
          /\ step'[r] = "fill" /\ work'[r] = w
          /\ \A q \in Runners \ {r} : step'[q] = step[q] /\ work'[q] = work[q]
        BY <1>0, <2>1, <2>2 DEF Steps, Files
    <2>4. WritesOwn'
        BY <1>a, <2>1, <2>2, <2>3 DEF WritesOwn
    <2>5. TmpHolds'
        BY <2>2, <2>3 DEF TmpHolds, Filling
    <2>6. LoginHolds => LoginHolds'
        BY <1>b, <2>1, <2>3 DEF LoginHolds, Filling
    <2>7. \A q \in Runners : /\ step'[q] \in {"ensure", "copy", "verify"} => login = "dev"
                             /\ step'[q] \in {"guard", "firewall", "dropin", "reload"} =>
                                   login = "dev" /\ user' /\ LoginHolds'
        BY <1>a, <1>b, <2>3, <2>6 DEF PinsLogin, Pinning, KeysOnly
    <2> QED
        BY <1>0, <1>b, <2>1, <2>3, <2>4, <2>5, <2>6, <2>7, Frozen
<1>2. CASE Fill(r)
    <2>1. step[r] = "fill" /\ step' = [step EXCEPT ![r] = "mv"] /\ work' = work
        BY <1>2 DEF Fill, To
    <2>2. /\ step' \in [Runners -> Steps] /\ step'[r] = "mv"
          /\ \A q \in Runners \ {r} : step'[q] = step[q]
        BY <1>0, <2>1 DEF Steps
    <2>3. "own" \in work[r].lines /\ work[r].lines \in SUBSET Keys
        BY <1>0, <1>a, <2>1 DEF WritesOwn, Works
    <2>4. WritesOwn'
        BY <1>a, <2>1, <2>2 DEF WritesOwn
    <2>5. ASSUME NEW file \in Files, NEW f \in {work[r].lines \cup rest : rest \in SUBSET (file \ Absent)}
          PROVE  f \in Files /\ "own" \in f
        <3>1. file \ Absent \in SUBSET Keys
            BY DEF Files, Absent
        <3> QED
            BY <2>3, <2>5, <3>1 DEF Files
    <2>6. CASE work[r].fd = "tmp"
        <3>1. keysOf' = keysOf /\ tmp' \in {work[r].lines \cup rest : rest \in SUBSET (tmp \ Absent)}
            BY <1>2, <2>6 DEF Fill
        <3>2. tmp' \in Files /\ "own" \in tmp'
            BY <1>0, <2>5, <3>1
        <3>3. TmpHolds'
            BY <3>2 DEF TmpHolds
        <3>4. LoginHolds => LoginHolds'
            BY <1>b, <2>1, <2>2, <2>6, <3>1 DEF LoginHolds, Filling
        <3>5. \A q \in Runners : /\ step'[q] \in {"ensure", "copy", "verify"} => login = "dev"
                                 /\ step'[q] \in {"guard", "firewall", "dropin", "reload"} =>
                                       login = "dev" /\ user' /\ LoginHolds'
            BY <1>a, <1>b, <2>2, <3>4 DEF PinsLogin, Pinning, KeysOnly
        <3> QED
            BY <1>0, <1>b, <2>1, <2>2, <2>4, <3>1, <3>2, <3>3, <3>4, <3>5, Frozen
    <2>7. CASE work[r].fd = "live"
        <3>1. PICK f \in {work[r].lines \cup rest : rest \in SUBSET (keysOf[login] \ Absent)} :
                  tmp' = tmp /\ keysOf' = [keysOf EXCEPT ![login] = f]
            BY <1>2, <2>7 DEF Fill
        <3>2. f \in Files /\ "own" \in f
            BY <1>0, <2>5
        <3>3. /\ keysOf' \in [Users -> Files] /\ keysOf'[login] = f
              /\ \A u \in Users : u # login => keysOf'[u] = keysOf[u]
            BY <1>0, <3>1, <3>2
        <3>4. LoginHolds'
            BY <1>b, <3>2, <3>3 DEF LoginHolds
        <3>5. TmpHolds'
            BY <1>a, <2>1, <2>2, <2>7, <3>1 DEF TmpHolds, Filling
        <3>6. \A q \in Runners : /\ step'[q] \in {"ensure", "copy", "verify"} => login = "dev"
                                 /\ step'[q] \in {"guard", "firewall", "dropin", "reload"} =>
                                       login = "dev" /\ user' /\ LoginHolds'
            BY <1>a, <1>b, <2>2, <3>4 DEF PinsLogin, Pinning, KeysOnly
        <3> QED
            BY <1>0, <1>b, <2>1, <2>2, <2>4, <3>1, <3>3, <3>4, <3>5, <3>6, Frozen
    <2>8. CASE work[r].fd \notin {"tmp", "live"}
        <3>1. keysOf' = keysOf /\ tmp' = tmp
            BY <1>2, <2>8 DEF Fill
        <3>2. \A fd \in {"tmp", "live"} : Filling(fd)' <=> Filling(fd)
            BY <2>1, <2>2, <2>8 DEF Filling
        <3>3. TmpHolds' /\ (LoginHolds => LoginHolds')
            BY <1>a, <1>b, <3>1, <3>2 DEF TmpHolds, LoginHolds
        <3>4. \A q \in Runners : /\ step'[q] \in {"ensure", "copy", "verify"} => login = "dev"
                                 /\ step'[q] \in {"guard", "firewall", "dropin", "reload"} =>
                                       login = "dev" /\ user' /\ LoginHolds'
            BY <1>a, <1>b, <2>2, <3>3 DEF PinsLogin, Pinning, KeysOnly
        <3> QED
            BY <1>0, <1>b, <2>1, <2>2, <2>4, <3>1, <3>3, <3>4, Frozen
    <2> QED
        BY <2>6, <2>7, <2>8
<1>3. CASE Mv(r)
    <2>0. step[r] = "mv"
        BY <1>3 DEF Mv
    <2>1. CASE tmp = Absent
        BY <1>3, <2>0, <2>1, RunnerQuits DEF Mv, box
    <2>2. CASE tmp # Absent
        <3> DEFINE moved(fd) == CASE fd = "tmp" -> "live" [] fd = "live" -> "gone" [] OTHER -> fd
                   left == [q \in Runners |-> [work[q] EXCEPT !.fd = moved(work[q].fd)]]
        <3>1. /\ keysOf' = [keysOf EXCEPT ![login] = tmp] /\ tmp' = Absent
              /\ \E t \in {"whoami", "idle"}, w \in {NoWork, [left[r] EXCEPT !.fd = "none"]} :
                    step' = [step EXCEPT ![r] = t] /\ work' = [left EXCEPT ![r] = w]
            BY <1>3, <2>2 DEF Mv
        <3>2. ASSUME NEW q \in Runners
              PROVE  /\ left[q] \in Works /\ left[q].lines = work[q].lines
                     /\ work[q].fd = "tmp" => left[q].fd = "live"
            <4>1. work[q] \in Works /\ work[q].fd \in {"none", "tmp", "live", "gone"}
                BY <1>0 DEF Works
            <4>2. moved(work[q].fd) \in {"none", "tmp", "live", "gone"} /\ (work[q].fd = "tmp" => moved(work[q].fd) = "live")
                BY <4>1
            <4> HIDE DEF moved
            <4>3. left[q] = [work[q] EXCEPT !.fd = moved(work[q].fd)]
                OBVIOUS
            <4> QED
                BY <4>1, <4>2, <4>3 DEF Works
        <3>3. left \in [Runners -> Works]
            BY <3>2
        <3>4. NoWork \in Works /\ [left[r] EXCEPT !.fd = "none"] \in Works
            BY <3>2, ZenonT(40) DEF NoWork, Works, Jobs, Keys
        <3> HIDE DEF left
        <3>5. PICK t \in {"whoami", "idle"}, w \in Works : step' = [step EXCEPT ![r] = t] /\ work' = [left EXCEPT ![r] = w]
            BY <3>1, <3>4
        <3>6. /\ step' \in [Runners -> Steps] /\ work' \in [Runners -> Works] /\ step'[r] = t
              /\ \A q \in Runners \ {r} : step'[q] = step[q] /\ work'[q] = left[q]
            BY <1>0, <3>3, <3>5 DEF Steps
        <3>7. /\ keysOf' \in [Users -> Files] /\ keysOf'[login] = tmp /\ tmp' \in Files
              /\ \A u \in Users : u # login => keysOf'[u] = keysOf[u]
            BY <1>0, <3>1 DEF Files
        <3>8. LoginHolds'
            <4>1. CASE "own" \in tmp
                BY <1>b, <3>7, <4>1 DEF LoginHolds
            <4>2. CASE Filling("tmp")
                <5>1. PICK q \in Runners : step[q] = "fill" /\ work[q].fd = "tmp"
                    BY <4>2 DEF Filling
                <5>2. q # r
                    BY <2>0, <5>1
                <5>3. step'[q] = "fill" /\ work'[q].fd = "live"
                    BY <3>2, <3>6, <5>1, <5>2
                <5> QED
                    BY <5>3 DEF LoginHolds, Filling
            <4> QED
                BY <1>a, <2>2, <4>1, <4>2 DEF TmpHolds
        <3>9. WritesOwn' /\ TmpHolds'
            BY <1>a, <3>1, <3>2, <3>6 DEF WritesOwn, TmpHolds
        <3>10. \A q \in Runners : /\ step'[q] \in {"ensure", "copy", "verify"} => login = "dev"
                                  /\ step'[q] \in {"guard", "firewall", "dropin", "reload"} =>
                                        login = "dev" /\ user' /\ LoginHolds'
            BY <1>a, <1>b, <3>6, <3>8 DEF PinsLogin, Pinning, KeysOnly
        <3> QED
            BY <1>0, <1>b, <3>6, <3>7, <3>8, <3>9, <3>10, Frozen
    <2> QED
        BY <2>1, <2>2
<1> QED
    BY <1>1, <1>2, <1>3

(* sshd's file is written, read again, or taken back.                      *)
LEMMA PinKeeps ==
    ASSUME BoxInv, Restart \/ \E r \in Runners : DropIn(r) \/ Reload(r)
    PROVE  BoxInv'
<1>0. /\ step \in [Runners -> Steps] /\ work \in [Runners -> Works] /\ login \in Users
    BY BoxTypes DEF BoxInv
<1>a. PinsLogin /\ WritesOwn /\ KeysOnly /\ TmpHolds
    BY DEF BoxInv
<1>b. UNCHANGED <<login, takes, user, keysOf, tmp>>
    BY DEF DropIn, Reload, Restart
<1>c. NoWork \in Works /\ "idle" \in Steps /\ "reload" \in Steps
    BY DEF NoWork, Works, Jobs, Keys, Steps
<1>1. Pinning \/ Restart
    BY DEF DropIn, Reload, Pinning, To
<1>2. Restart => Pinning \/ dropin = sshd
    BY <1>a DEF PinsLogin, Pinning
<1>3. login = "dev" /\ user /\ LoginHolds
    BY <1>1, <1>2, <1>a DEF PinsLogin, Restart
<1>4. dropin' \in {"none", login} /\ sshd' \in {"none", login}
    BY <1>a DEF PinsLogin, DropIn, Reload, Restart
<1>5. /\ step' \in [Runners -> Steps] /\ work' \in [Runners -> Works]
      /\ \A q \in Runners : \/ step'[q] = step[q] /\ work'[q] = work[q]
                            \/ step[q] # "fill" /\ step'[q] \in {"idle", "reload"}
    <2>1. CASE \E r \in Runners : DropIn(r)
        <3>1. PICK r \in Runners : DropIn(r)
            BY <2>1
        <3> QED
            BY <1>0, <1>c, <3>1 DEF DropIn, To
    <2>2. CASE \E r \in Runners : Reload(r)
        <3>1. PICK r \in Runners : Reload(r)
            BY <2>2
        <3> QED
            BY <1>0, <1>c, <3>1 DEF Reload, Quit
    <2>3. CASE Restart
        BY <1>0, <2>3 DEF Restart
    <2> QED
        BY <2>1, <2>2, <2>3
<1>6. \A fd : Filling(fd)' <=> Filling(fd)
    BY <1>5 DEF Filling
<1>7. LoginHolds'
    BY <1>3, <1>6, <1>b DEF LoginHolds
<1>8. BoxTypeOK'
    BY <1>0, <1>4, <1>5, <1>b DEF BoxInv, BoxTypeOK, Users
<1>9. WritesOwn' /\ TmpHolds'
    BY <1>5, <1>6, <1>a, <1>b DEF WritesOwn, TmpHolds
<1>10. KeysOnly' /\ PinsLogin'
    BY <1>3, <1>4, <1>5, <1>7, <1>a, <1>b DEF KeysOnly, PinsLogin
<1>11. WayOpen'
    BY <1>3, <1>4, <1>7, <1>b DEF WayOpen, Lets
<1> QED
    BY <1>8, <1>9, <1>10, <1>11 DEF BoxInv

(***************************************************************************)
(* WayIn: a box that takes keys alone, and that this host's key could      *)
(* enter, stays one it can enter, whatever any number of setups, key edits *)
(* and lockdowns do at once, stop half way through or meet a reboot in.    *)
(* That no connection is cut while it feeds a key file is assumed: one     *)
(* that is leaves half the keys, or none.                                  *)
(***************************************************************************)
THEOREM TheBoxKeepsAWayIn ==
    ASSUME Passwords = {FALSE}, Drops = FALSE
    PROVE  BoxSpec => []WayIn
<1>1. BoxInit => BoxInv
    <2> SUFFICES ASSUME BoxInit PROVE BoxInv
        OBVIOUS
    <2>1. /\ step = [q \in Runners |-> "idle"] /\ work = [q \in Runners |-> NoWork] /\ takes = FALSE
          /\ tmp = Absent /\ dropin = "none" /\ sshd = "none"
        BY DEF BoxInit
    <2>2. BoxTypeOK
        <3>1. NoWork \in Works /\ "idle" \in Steps
            BY DEF NoWork, Works, Jobs, Keys, Steps
        <3>2. tmp \in Files
            BY <2>1 DEF Files
        <3> QED
            BY <2>1, <3>1, <3>2 DEF BoxInit, BoxTypeOK
    <2>3. WritesOwn /\ TmpHolds /\ KeysOnly /\ PinsLogin
        BY <2>1 DEF WritesOwn, TmpHolds, KeysOnly, PinsLogin, Pinning
    <2>4. WayOpen
        BY <2>1 DEF BoxInit, WayOpen, LoginHolds, Accepts
    <2> QED
        BY <2>2, <2>3, <2>4 DEF BoxInv
<1>2. BoxInv /\ [BoxNext]_bvars => BoxInv'
    <2> SUFFICES ASSUME BoxInv, [BoxNext]_bvars PROVE BoxInv'
        OBVIOUS
    <2>1. ASSUME NEW r \in Runners, Shaping(r) PROVE BoxInv'
        <3>1. CASE \/ \E j \in Jobs, key \in {"own", "other"}, h \in BOOLEAN : Issue(r, j, key, h)
                   \/ Reach(r) \/ Verify(r) \/ Shape(r) \/ ReadKeys(r) \/ Whoami(r) \/ Guard(r) \/ Firewall(r) \/ Abort(r)
            BY <3>1, CommandKeeps
        <3>2. CASE EnsureUser(r) \/ CopyKeys(r)
            BY <3>2, UserKeeps
        <3>3. CASE OpenTmp(r) \/ Fill(r) \/ Mv(r)
            BY <3>3, WriterKeeps
        <3>4. CASE DropIn(r) \/ Reload(r)
            BY <3>4, PinKeeps
        <3> QED
            BY <2>1, <3>1, <3>2, <3>3, <3>4 DEF Shaping
    <2>2. CASE Restart
        BY <2>2, PinKeeps
    <2>3. CASE UNCHANGED bvars
        BY <2>3 DEF bvars, BoxInv, BoxTypeOK, WritesOwn, TmpHolds, KeysOnly, PinsLogin, Pinning, WayOpen,
                    LoginHolds, Filling, Lets, Accepts
    <2> QED
        BY <2>1, <2>2, <2>3 DEF BoxNext
<1>3. BoxInv => WayIn
    BY BoxTypes DEF BoxInv, WayIn, WayOpen, LoginHolds, Filling, Writing, Accepts
<1> QED
    BY <1>1, <1>2, <1>3, PTL DEF BoxSpec

-----------------------------------------------------------------------------

(***************************************************************************)
(* What a copy leaves (CopyFiles): the types, but for what is archived.    *)
(***************************************************************************)
Places == [Paths -> [kind : {"none", "file", "dir", "link"}, by : {"nobody", "user", "other", "copy"}]]
Points == {"pack", "send", "mktemp", "upload", "tar", "pull", "stream", "unstage", "check", "clear", "place",
           "received", "done"}
CopyJobs == [dir : {"in", "out"}, via : {"direct", "stage", "stream", "hub"}, tree : Trees, force : BOOLEAN,
             at : Points, got : Nat, whole : BOOLEAN, n : Nat, named : BOOLEAN, signal : BOOLEAN,
             outcome : {"none", "ok", "refused", "failed"}]
CopyShape ==
    /\ job \in CopyJobs /\ job.n <= job.got /\ job.got <= Len(job.tree)
    /\ dest \in Places /\ checked \in Places
    /\ stage \in [there : BOOLEAN, stuck : BOOLEAN]

(* Each way has its own steps, and nothing is placed before the last.      *)
OnItsWay ==
    /\ job.at \in {"pack", "mktemp", "upload"} => job.dir = "in"
    /\ job.at \in {"tar", "pull", "stream"} => job.dir = "out"
    /\ job.at \in {"pack", "mktemp"} => ~job.named
    /\ job.dir = "in" /\ job.at \in {"send", "received"} => ~job.named
    /\ job.n # 0 => job.at \in {"place", "unstage", "done"}
    /\ job.at = "clear" => job.force
    /\ job.at \notin {"unstage", "done"} => job.outcome = "none"
    /\ job.at = "unstage" /\ job.dir = "in" => job.outcome # "none"
    /\ job.at = "unstage" /\ job.outcome = "none" => job.n = 0

(* Only a whole archive is checked, and only then is anything placed.      *)
WholeFirst ==
    /\ job.at \in {"check", "clear", "place"} => job.whole
    /\ job.at \in {"mktemp", "upload"} /\ job.via = "hub" => job.whole
    /\ job.at = "unstage" /\ job.outcome = "none" /\ job.via # "hub" => job.whole
    /\ \A p \in Paths : dest[p].by = "copy" =>
          /\ job.whole
          /\ job.at = "place" \/ (job.at \in {"unstage", "done"} /\ job.outcome \in {"ok", "failed"})

(* What is placed without -f met no conflict.                              *)
ClearedWay ==
    /\ ~job.force => \A p \in Paths : checked[p].kind \in {"file", "link"} => dest[p] = checked[p]
    /\ job.at = "place" /\ ~job.force => Conflicts(job, checked) = {}

(* The stage is gone once the way has led past its removal.                *)
PastStage ==
    job.named /\ (job.at = "done" \/ (job.dir = "out" /\ job.at \in {"send", "received", "check", "clear", "place"}))
        => ~stage.there \/ stage.stuck

CopyInv == CopyShape /\ OnItsWay /\ WholeFirst /\ ClearedWay /\ PastStage

(* The command at another point, and over. *)
LEMMA Jumps ==
    ASSUME job \in CopyJobs, NEW a \in Points
    PROVE  LET j == [job EXCEPT !.at = a]
           IN /\ j \in CopyJobs /\ j.at = a /\ j.dir = job.dir /\ j.via = job.via /\ j.tree = job.tree
              /\ j.force = job.force /\ j.got = job.got /\ j.whole = job.whole /\ j.n = job.n /\ j.named = job.named
              /\ j.signal = job.signal /\ j.outcome = job.outcome
BY DEF CopyJobs

(* A copy that ends keeps all but where it is and how it ended. *)
LEMMA Overs ==
    ASSUME job \in CopyJobs, NEW o \in {"ok", "refused", "failed"}, Over(o)
    PROVE  /\ job' \in CopyJobs /\ job'.outcome = o
           /\ job'.at = IF job.named /\ job.dir = "in" THEN "unstage" ELSE "done"
           /\ job'.dir = job.dir /\ job'.via = job.via /\ job'.tree = job.tree
           /\ job'.force = job.force /\ job'.got = job.got /\ job'.whole = job.whole /\ job'.n = job.n
           /\ job'.named = job.named /\ job'.signal = job.signal
<1> DEFINE a == IF job.named /\ job.dir = "in" THEN "unstage" ELSE "done"
           j == [job EXCEPT !.outcome = o]
<1>1. /\ j \in CopyJobs /\ j.at = job.at /\ j.dir = job.dir /\ j.via = job.via /\ j.tree = job.tree
      /\ j.force = job.force /\ j.got = job.got /\ j.whole = job.whole /\ j.n = job.n /\ j.named = job.named
      /\ j.signal = job.signal /\ j.outcome = o
    BY DEF CopyJobs
<1>2. job' = [j EXCEPT !.at = a] /\ a \in Points
    BY DEF Over, Points
<1> HIDE DEF j, a
<1>3. /\ job' \in CopyJobs /\ job'.outcome = j.outcome /\ job'.at = a
      /\ job'.dir = j.dir /\ job'.via = j.via /\ job'.tree = j.tree
      /\ job'.force = j.force /\ job'.got = j.got /\ job'.whole = j.whole /\ job'.n = j.n
      /\ job'.named = j.named /\ job'.signal = j.signal
    BY <1>1, <1>2 DEF CopyJobs
<1> QED
    BY <1>1, <1>3 DEF a

(* A command that ends before it placed anything, or goes on from one of   *)
(* these points to the next, keeps the account.                            *)
LEMMA EndsWell ==
    ASSUME CopyInv, NEW o \in {"ok", "refused", "failed"}, Over(o), UNCHANGED dest,
           stage' \in [there : BOOLEAN, stuck : BOOLEAN], stage' = stage \/ ~job.named,
           checked' = checked \/ checked' = dest, job.at \notin {"unstage", "done", "tar", "pull", "stream"},
           job.at # "place" => o # "ok", o = "refused" => job.at # "place"
    PROVE  CopyInv'
<1>0. CopyShape /\ OnItsWay /\ WholeFirst /\ ClearedWay /\ PastStage /\ job \in CopyJobs
    BY DEF CopyInv, CopyShape
<1>1. /\ job' \in CopyJobs /\ job'.outcome = o
      /\ job'.at = IF job.named /\ job.dir = "in" THEN "unstage" ELSE "done"
      /\ job'.dir = job.dir /\ job'.via = job.via /\ job'.tree = job.tree
      /\ job'.force = job.force /\ job'.got = job.got /\ job'.whole = job.whole /\ job'.n = job.n
      /\ job'.named = job.named /\ job'.signal = job.signal
    BY <1>0, Overs
<1>2. CopyShape'
    BY <1>0, <1>1 DEF CopyShape
<1>3. OnItsWay'
    BY <1>0, <1>1 DEF OnItsWay
<1>4. WholeFirst'
    BY <1>0, <1>1 DEF WholeFirst
<1>5. ClearedWay'
    BY <1>0, <1>1 DEF ClearedWay
<1>6. PastStage'
    BY <1>0, <1>1 DEF PastStage, OnItsWay, CopyJobs, Points
<1> QED
    BY <1>2, <1>3, <1>4, <1>5, <1>6 DEF CopyInv

(* A step that leaves the destination alone and ends nothing.              *)
LEMMA GoesWell ==
    ASSUME CopyInv, job' \in CopyJobs, job'.n = job.n, job'.got \in Nat, job.n <= job'.got,
           job'.got <= Len(job.tree), job'.tree = job.tree,
           job'.dir = job.dir, job'.force = job.force, job'.outcome = job.outcome,
           stage' \in [there : BOOLEAN, stuck : BOOLEAN], UNCHANGED <<dest, checked>>,
           job.outcome = "none", job.n = 0, job.at \notin {"check", "clear", "place", "done"}, job'.at \notin {"clear", "place", "done"},
           job'.at \in {"pack", "mktemp", "upload"} => job.dir = "in",
           job'.at \in {"tar", "pull", "stream", "unstage"} => job.dir = "out",
           job'.at \in {"pack", "mktemp"} \/ (job.dir = "in" /\ job'.at \in {"send", "received"}) => ~job'.named,
           job'.at \in {"check"} \/ (job'.via = "hub" /\ job'.at \in {"mktemp", "upload"})
               \/ (job'.at = "unstage" /\ job'.via # "hub") => job'.whole,
           job.dir = "out" /\ job'.named /\ job'.at \in {"send", "received", "check"} => ~stage'.there \/ stage'.stuck
    PROVE  CopyInv'
<1>0. CopyShape /\ OnItsWay /\ WholeFirst /\ ClearedWay /\ PastStage /\ job \in CopyJobs
    BY DEF CopyInv, CopyShape
<1>1. CopyShape'
    BY <1>0 DEF CopyShape
<1>2. OnItsWay'
    BY <1>0 DEF OnItsWay
<1>3. \A p \in Paths : dest[p].by # "copy"
    BY <1>0 DEF WholeFirst
<1>4. WholeFirst'
    BY <1>3 DEF WholeFirst
<1>5. ClearedWay'
    BY <1>0 DEF ClearedWay
<1>6. PastStage'
    BY <1>0 DEF PastStage, CopyJobs
<1> QED
    BY <1>1, <1>2, <1>4, <1>5, <1>6 DEF CopyInv

(* cp-out that fails before its stage is removed.                          *)
LEMMA FailsWell ==
    ASSUME CopyInv, job' \in CopyJobs, job'.n = job.n, job'.got = job.got, job'.tree = job.tree, job'.dir = job.dir, job'.force = job.force,
           job'.outcome = "failed", stage' \in [there : BOOLEAN, stuck : BOOLEAN], UNCHANGED <<dest, checked>>,
           job.at \in {"tar", "pull", "stream"}, job'.at = "unstage" \/ (job'.at = "done" /\ ~job'.named)
    PROVE  CopyInv'
<1>0. CopyShape /\ OnItsWay /\ WholeFirst /\ ClearedWay /\ PastStage /\ job \in CopyJobs
    BY DEF CopyInv, CopyShape
<1>1. CopyShape'
    BY <1>0 DEF CopyShape
<1>2. OnItsWay'
    BY <1>0 DEF OnItsWay
<1>3. \A p \in Paths : dest[p].by # "copy"
    BY <1>0 DEF WholeFirst
<1>4. WholeFirst'
    BY <1>3 DEF WholeFirst
<1>5. ClearedWay'
    BY <1>0 DEF ClearedWay
<1>6. PastStage'
    BY <1>0 DEF PastStage
<1> QED
    BY <1>1, <1>2, <1>4, <1>5, <1>6 DEF CopyInv

(* Getting the archive there.                                              *)
LEMMA Transfers ==
    ASSUME CopyInv,
           \/ Unpackable \/ PackForGuest \/ PackForHub \/ SendIn \/ SendOut \/ Spooled \/ Fetched
           \/ Mktemp \/ Upload \/ TarInGuest \/ Pull \/ Stream \/ Unstage
    PROVE  CopyInv'
<1>0. CopyShape /\ OnItsWay /\ WholeFirst /\ ClearedWay /\ PastStage /\ job \in CopyJobs
      /\ stage \in [there : BOOLEAN, stuck : BOOLEAN]
    BY DEF CopyInv, CopyShape
<1>1. job.at \notin {"unstage", "done", "place"} => job.outcome = "none" /\ job.n = 0
    BY <1>0 DEF OnItsWay, CopyJobs, Points
<1>2. Len(job.tree) \in Nat
    BY <1>0, CopyAssumption DEF CopyJobs
<1>3. ASSUME NEW a \in Points, ProceedsTo(a)
      PROVE  /\ job' \in CopyJobs /\ job'.at = a /\ job'.dir = job.dir /\ job'.via = job.via /\ job'.tree = job.tree
             /\ job'.force = job.force /\ job'.got = job.got /\ job'.whole = job.whole /\ job'.n = job.n
             /\ job'.named = job.named /\ job'.outcome = job.outcome
    BY <1>0, <1>3, Jumps DEF ProceedsTo
<1>4. CASE Unpackable
    BY <1>0, <1>4, EndsWell DEF Unpackable, Untouched
<1>5. CASE PackForGuest
    <2>1. job.at = "pack" /\ job.via # "hub" /\ ProceedsTo("mktemp") /\ Untouched /\ "mktemp" \in Points
        BY <1>5 DEF PackForGuest, Archived, Points
    <2> QED
        BY <1>0, <1>1, <1>3, <2>1, GoesWell DEF Untouched, OnItsWay, CopyShape, CopyJobs
<1>6. CASE PackForHub
    <2>1. job.at = "pack" /\ ProceedsTo("send") /\ Untouched /\ "send" \in Points
        BY <1>6 DEF PackForHub, Archived, Points
    <2> QED
        BY <1>0, <1>1, <1>3, <2>1, GoesWell DEF Untouched, OnItsWay, CopyShape, CopyJobs
<1>7. CASE Arrives
    <2>1. PICK k \in 0..Len(job.tree), w \in BOOLEAN : job' = [job EXCEPT !.got = k, !.whole = w, !.at = "received"]
        BY <1>7 DEF Arrives
    <2>2. job.at = "send" /\ Untouched
        BY <1>7 DEF Arrives
    <2>3. k \in Nat /\ k <= Len(job.tree)
        BY <1>2
    <2>4. /\ job' \in CopyJobs /\ job'.at = "received" /\ job'.got = k /\ job'.tree = job.tree /\ job'.dir = job.dir /\ job'.force = job.force
          /\ job'.n = job.n /\ job'.named = job.named /\ job'.outcome = job.outcome
        <3>1. [job EXCEPT !.got = k] \in CopyJobs
            BY <1>0, <2>3 DEF CopyJobs
        <3>2. [job EXCEPT !.got = k, !.whole = w] \in CopyJobs
            BY <3>1 DEF CopyJobs
        <3>3. job' \in CopyJobs
            BY <2>1, <3>2 DEF CopyJobs, Points
        <3> QED
            BY <1>0, <2>1, <3>3 DEF CopyJobs
    <2> QED
        BY <1>0, <1>1, <2>2, <2>3, <2>4, GoesWell DEF Untouched, OnItsWay, PastStage
<1>8. CASE Spooled
    <2>1. job.at = "received" /\ job.dir = "in" /\ Untouched /\ "mktemp" \in Points
        BY <1>8 DEF Spooled, Points
    <2>2. CASE Complete(job) /\ ProceedsTo("mktemp")
        BY <1>0, <1>1, <1>3, <2>1, <2>2, GoesWell DEF Untouched, OnItsWay, CopyShape, CopyJobs, Complete
    <2>3. CASE Over("failed")
        BY <1>0, <2>1, <2>3, EndsWell DEF Untouched
    <2> QED
        BY <1>8, <2>2, <2>3 DEF Spooled
<1>9. CASE Fetched
    <2>1. job.at = "received" /\ job.dir = "out" /\ Untouched /\ "check" \in Points
        BY <1>9 DEF Fetched, Points
    <2>2. CASE Complete(job) /\ ProceedsTo("check")
        BY <1>0, <1>1, <1>3, <2>1, <2>2, GoesWell DEF Untouched, OnItsWay, CopyShape, CopyJobs, Complete, PastStage
    <2>3. CASE Over("failed")
        BY <1>0, <2>1, <2>3, EndsWell DEF Untouched
    <2> QED
        BY <1>9, <2>2, <2>3 DEF Fetched
<1>10. CASE Mktemp
    <2>1. job.at = "mktemp" /\ UNCHANGED <<dest, checked>> /\ job.dir = "in" /\ (job.via = "hub" => job.whole) /\ ~job.named
        BY <1>0, <1>10 DEF Mktemp, OnItsWay, WholeFirst
    <2>2. CASE stage' = [stage EXCEPT !.there = TRUE] /\ job' = [job EXCEPT !.named = TRUE, !.at = "upload"]
        <3>1. [job EXCEPT !.named = TRUE] \in CopyJobs
            BY <1>0 DEF CopyJobs
        <3>2. /\ job' \in CopyJobs /\ job'.at = "upload" /\ job'.named /\ job'.tree = job.tree /\ job'.dir = job.dir /\ job'.force = job.force
              /\ job'.n = job.n /\ job'.got = job.got /\ job'.whole = job.whole /\ job'.via = job.via
              /\ job'.outcome = job.outcome
            BY <1>0, <2>2, <3>1 DEF CopyJobs, Points
        <3>3. stage' \in [there : BOOLEAN, stuck : BOOLEAN] /\ job.got \in Nat /\ job.n <= job.got /\ job.got <= Len(job.tree)
            BY <1>0, <2>2 DEF CopyJobs, CopyShape
        <3> QED
            BY <1>0, <1>1, <2>1, <3>2, <3>3, GoesWell
    <2>3. CASE stage' \in {stage, [stage EXCEPT !.there = TRUE]} /\ Over("failed")
        <3>1. stage' \in [there : BOOLEAN, stuck : BOOLEAN]
            BY <1>0, <2>3
        <3> QED
            BY <2>1, <2>3, <3>1, EndsWell
    <2> QED
        BY <1>10, <2>2, <2>3 DEF Mktemp
<1>11. CASE Upload
    <2>1. job.at = "upload" /\ Untouched /\ job.dir = "in" /\ (job.via = "hub" => job.whole)
        BY <1>0, <1>11 DEF Upload, OnItsWay, WholeFirst
    <2>2. CASE job' = [job EXCEPT !.at = "check", !.got = IF job.via = "hub" THEN @ ELSE Len(job.tree),
                                  !.whole = job.via # "hub" \/ @]
        <3> DEFINE k == IF job.via = "hub" THEN job.got ELSE Len(job.tree)
        <3>1. k \in Nat /\ k <= Len(job.tree)
            BY <1>0, <1>2 DEF CopyJobs, CopyShape
        <3>2. job' = [job EXCEPT !.at = "check", !.got = k, !.whole = TRUE]
            BY <1>0, <2>1, <2>2 DEF CopyJobs
        <3> HIDE DEF k
        <3>3. [job EXCEPT !.at = "check"] \in CopyJobs
            BY <1>0 DEF CopyJobs, Points
        <3>4. [job EXCEPT !.at = "check", !.got = k] \in CopyJobs
            BY <3>1, <3>3 DEF CopyJobs
        <3>5. /\ job' \in CopyJobs /\ job'.at = "check" /\ job'.named = job.named /\ job'.tree = job.tree /\ job'.dir = job.dir
              /\ job'.force = job.force /\ job'.n = job.n /\ job'.got = k /\ job'.whole
              /\ job'.outcome = job.outcome
            BY <1>0, <3>2, <3>4 DEF CopyJobs
        <3> QED
            BY <1>0, <1>1, <2>1, <3>1, <3>5, GoesWell DEF Untouched
    <2>3. CASE Over("failed")
        BY <1>0, <2>1, <2>3, EndsWell DEF Untouched
    <2> QED
        BY <1>11, <2>2, <2>3 DEF Upload
<1>12. CASE TarInGuest
    <2>1. /\ job.at = "tar" /\ UNCHANGED <<dest, checked>> /\ job.dir = "out" /\ stage' \in {stage, [stage EXCEPT !.there = TRUE]}
          /\ job' = [job EXCEPT !.named = TRUE, !.at = "pull"]
             \/ job' = [job EXCEPT !.named = TRUE, !.at = "unstage", !.outcome = "failed"]
        BY <1>0, <1>12 DEF TarInGuest, OnItsWay
    <2>2. stage' \in [there : BOOLEAN, stuck : BOOLEAN] /\ job.got \in Nat /\ job.n <= job.got /\ job.got <= Len(job.tree)
        BY <1>0, <2>1 DEF CopyJobs, CopyShape
    <2>3. [job EXCEPT !.named = TRUE] \in CopyJobs
        BY <1>0 DEF CopyJobs
    <2>4. CASE job' = [job EXCEPT !.named = TRUE, !.at = "pull"]
        <3>1. /\ job' \in CopyJobs /\ job'.at = "pull" /\ job'.named /\ job'.tree = job.tree /\ job'.dir = job.dir /\ job'.force = job.force
              /\ job'.n = job.n /\ job'.got = job.got /\ job'.outcome = job.outcome
            BY <1>0, <2>3, <2>4 DEF CopyJobs, Points
        <3> QED
            BY <1>1, <2>1, <2>2, <3>1, GoesWell
    <2>5. CASE job' = [job EXCEPT !.named = TRUE, !.at = "unstage", !.outcome = "failed"]
        <3>1. [job EXCEPT !.named = TRUE, !.at = "unstage"] \in CopyJobs
            BY <2>3 DEF CopyJobs, Points
        <3>2. /\ job' \in CopyJobs /\ job'.at = "unstage" /\ job'.tree = job.tree /\ job'.dir = job.dir /\ job'.force = job.force
              /\ job'.n = job.n /\ job'.got = job.got /\ job'.outcome = "failed"
            BY <1>0, <2>5, <3>1 DEF CopyJobs
        <3> QED
            BY <2>1, <2>2, <3>2, FailsWell
    <2> QED
        BY <2>1, <2>4, <2>5
(* What the guest's or the stream's archive brings. *)
<1>13. ASSUME NEW a \in {"unstage", "check"}, job' = [job EXCEPT !.at = a, !.got = Len(job.tree), !.whole = TRUE],
              job.at \in {"pull", "stream"}, Untouched, a = "check" => ~job.named
       PROVE  CopyInv'
    <2>1. job.dir = "out"
        BY <1>0, <1>13 DEF OnItsWay
    <2>2. [job EXCEPT !.at = a] \in CopyJobs
        BY <1>0 DEF CopyJobs, Points
    <2>3. [job EXCEPT !.at = a, !.got = Len(job.tree)] \in CopyJobs
        BY <1>2, <2>2 DEF CopyJobs
    <2>4. /\ job' \in CopyJobs /\ job'.at = a /\ job'.named = job.named /\ job'.tree = job.tree /\ job'.dir = job.dir
          /\ job'.force = job.force /\ job'.n = job.n /\ job'.got = Len(job.tree) /\ job'.whole
          /\ job'.outcome = job.outcome
        BY <1>0, <1>13, <2>3 DEF CopyJobs
    <2> QED
        BY <1>0, <1>1, <1>2, <1>13, <2>1, <2>4, GoesWell DEF Untouched
<1>14. ASSUME NEW a \in {"unstage", "done"}, job' = [job EXCEPT !.at = a, !.outcome = "failed"],
              job.at \in {"pull", "stream"}, Untouched, a = "done" => ~job.named
       PROVE  CopyInv'
    <2>1. [job EXCEPT !.at = a] \in CopyJobs
        BY <1>0 DEF CopyJobs, Points
    <2>2. /\ job' \in CopyJobs /\ job'.at = a /\ job'.named = job.named /\ job'.tree = job.tree /\ job'.dir = job.dir
          /\ job'.force = job.force /\ job'.n = job.n /\ job'.got = job.got /\ job'.outcome = "failed"
        BY <1>0, <1>14, <2>1 DEF CopyJobs
    <2> QED
        BY <1>0, <1>14, <2>2, FailsWell DEF Untouched
<1>15. CASE Pull
    <2>1. job.at = "pull" /\ Untouched /\ "stream" \in Points
        BY <1>15 DEF Pull, Points
    <2>2. CASE ProceedsTo("stream")
        BY <1>0, <1>1, <1>3, <2>1, <2>2, GoesWell DEF Untouched, OnItsWay, CopyShape, CopyJobs
    <2> QED
        BY <1>13, <1>14, <1>15, <2>1, <2>2 DEF Pull
<1>16. CASE Stream
    BY <1>13, <1>14, <1>16 DEF Stream
<1>17. CASE Unstage
    <2> DEFINE a == IF job.outcome # "none" THEN "done" ELSE IF job.via = "hub" THEN "send" ELSE "check"
    <2>1. job.at = "unstage" /\ UNCHANGED <<dest, checked>> /\ ProceedsTo(a) /\ a \in Points
        BY <1>17 DEF Unstage, Points
    <2>2. /\ stage' \in [there : BOOLEAN, stuck : BOOLEAN] /\ (~stage'.there \/ stage'.stuck)
        BY <1>0, <1>17 DEF Unstage, Fresh
    <2>3. /\ job' \in CopyJobs /\ job'.at = a /\ job'.tree = job.tree /\ job'.dir = job.dir /\ job'.via = job.via
          /\ job'.force = job.force /\ job'.got = job.got /\ job'.whole = job.whole /\ job'.n = job.n
          /\ job'.named = job.named /\ job'.outcome = job.outcome
        BY <1>3, <2>1
    <2>4. CASE job.outcome = "none"
        <3>1. job.dir = "out" /\ job.n = 0 /\ (a = "check" => job.whole) /\ a \in {"check", "send"}
            BY <1>0, <2>1, <2>4 DEF OnItsWay, WholeFirst, CopyJobs
        <3>2. job.got \in Nat /\ job.n <= job.got /\ job.got <= Len(job.tree)
            BY <1>0 DEF CopyShape, CopyJobs
        <3> HIDE DEF a
        <3> QED
            BY <1>0, <2>1, <2>2, <2>3, <2>4, <3>1, <3>2, GoesWell
    <2>5. CASE job.outcome # "none"
        <3>1. a = "done"
            BY <2>5
        <3> HIDE DEF a
        <3>2. CopyShape'
            BY <1>0, <2>1, <2>2, <2>3 DEF CopyShape
        <3>3. OnItsWay'
            BY <1>0, <2>3, <3>1 DEF OnItsWay
        <3>4. WholeFirst'
            BY <1>0, <2>1, <2>3, <3>1 DEF WholeFirst
        <3>5. ClearedWay'
            BY <1>0, <2>1, <2>3, <3>1 DEF ClearedWay
        <3>6. PastStage'
            BY <2>2 DEF PastStage
        <3> QED
            BY <3>2, <3>3, <3>4, <3>5, <3>6 DEF CopyInv
    <2> QED
        BY <2>4, <2>5
<1> QED
    BY <1>4, <1>5, <1>6, <1>7, <1>8, <1>9, <1>10, <1>11, <1>12, <1>15, <1>16, <1>17 DEF SendIn, SendOut

(* One entry placed is one place of the destination changed, and without   *)
(* -f not one where something was that it may not replace.                 *)
LEMMA Puts ==
    ASSUME CopyShape, NEW e, NEW put, put = GuestPuts(e) \/ put = HostPuts(e), put # Failed, e.kind \in {"file", "dir", "link"},
           NEW old \in Places, ~job.force => ~Conflict(e, old),
           ~job.force => \A p \in Paths : old[p].kind \in {"file", "link"} => dest[p] = old[p]
    PROVE  /\ put \in Places
           /\ ~job.force => \A p \in Paths : old[p].kind \in {"file", "link"} => put[p] = old[p]
<1>1. put = dest \/ put = Put(e)
    BY DEF GuestPuts, HostPuts
<1>2. dest \in Places
    BY DEF CopyShape
<1>3. CASE put = dest
    BY <1>2, <1>3
<1>4. CASE put = Put(e)
    <2>1. put = [dest EXCEPT ![e.path] = [kind |-> e.kind, by |-> "copy"]]
        BY <1>4 DEF Put
    <2>2. put \in Places
        BY <1>2, <2>1 DEF Places
    <2>3. ASSUME ~job.force, NEW p \in Paths, old[p].kind \in {"file", "link"} PROVE put[p] = old[p]
        <3>1. old[p].kind # "none" /\ old[p].kind # "dir" /\ dest[p] = old[p]
            BY <2>3
        <3>2. p # e.path
            BY <2>3, <3>1 DEF Conflict
        <3> QED
            BY <1>2, <2>1, <3>1, <3>2 DEF Places
    <2> QED
        BY <2>2, <2>3
<1> QED
    BY <1>1, <1>3, <1>4

(* Placing it.                                                             *)
LEMMA Placings ==
    ASSUME CopyInv, Signal \/ Interrupted \/ CheckDest \/ ClearDest \/ Place \/ Outsider
    PROVE  CopyInv'
<1>0. CopyShape /\ OnItsWay /\ WholeFirst /\ ClearedWay /\ PastStage /\ job \in CopyJobs
      /\ stage \in [there : BOOLEAN, stuck : BOOLEAN] /\ dest \in Places /\ checked \in Places
    BY DEF CopyInv, CopyShape
<1>1. job.at \notin {"unstage", "done", "place"} => job.outcome = "none" /\ job.n = 0
    BY <1>0 DEF OnItsWay, CopyJobs, Points
<1>2. CASE Signal
    <2>1. job' = [job EXCEPT !.signal = TRUE] /\ Untouched
        BY <1>2 DEF Signal
    <2>2. /\ job' \in CopyJobs /\ job'.at = job.at /\ job'.dir = job.dir /\ job'.via = job.via /\ job'.tree = job.tree
          /\ job'.force = job.force /\ job'.got = job.got /\ job'.whole = job.whole /\ job'.n = job.n
          /\ job'.named = job.named /\ job'.outcome = job.outcome
        BY <1>0, <2>1 DEF CopyJobs
    <2>3. Conflicts(job', checked) = Conflicts(job, checked)
        BY <2>2 DEF Conflicts, Sent
    <2>4. CopyShape'
        BY <1>0, <2>1, <2>2 DEF CopyShape, Untouched
    <2>5. OnItsWay'
        BY <1>0, <2>1, <2>2 DEF OnItsWay
    <2>6. WholeFirst'
        BY <1>0, <2>1, <2>2 DEF WholeFirst, Untouched
    <2>7. ClearedWay'
        BY <1>0, <2>1, <2>2, <2>3 DEF ClearedWay, Untouched
    <2>8. PastStage'
        BY <1>0, <2>1, <2>2 DEF PastStage, Untouched
    <2> QED
        BY <2>4, <2>5, <2>6, <2>7, <2>8 DEF CopyInv
<1>3. CASE Interrupted
    BY <1>0, <1>3, EndsWell DEF Interrupted, Untouched
<1>4. CASE CheckDest
    <2>1. job.at = "check" /\ UNCHANGED <<dest, stage>> /\ job.whole
        BY <1>0, <1>4 DEF CheckDest, WholeFirst
    <2>2. CASE Over("refused") /\ UNCHANGED checked
        BY <1>0, <2>1, <2>2, EndsWell
    <2>3. CASE /\ Conflicts(job, dest) = {} \/ job.force
               /\ checked' = dest
               /\ ProceedsTo(IF job.dir = "in" /\ Conflicts(job, dest) # {} THEN "clear" ELSE "place")
        <3>1. PICK a \in {"clear", "place"} : ProceedsTo(a) /\ (a = "clear" => job.force)
            BY <1>0, <2>3 DEF CopyJobs
        <3>2. /\ job' \in CopyJobs /\ job'.at = a /\ job'.dir = job.dir /\ job'.via = job.via /\ job'.tree = job.tree
              /\ job'.force = job.force /\ job'.got = job.got /\ job'.whole = job.whole /\ job'.n = job.n
              /\ job'.named = job.named /\ job'.outcome = job.outcome
            <4>1. a \in Points
                BY DEF Points
            <4> QED
                BY <1>0, <3>1, <4>1, Jumps DEF ProceedsTo
        <3>3. Conflicts(job', checked') = Conflicts(job, dest)
            BY <2>3, <3>2 DEF Conflicts, Sent
        <3>4. CopyShape'
            BY <1>0, <2>1, <2>3, <3>2 DEF CopyShape
        <3>5. OnItsWay'
            BY <1>0, <1>1, <2>1, <3>1, <3>2 DEF OnItsWay
        <3>6. WholeFirst'
            BY <1>0, <2>1, <3>2 DEF WholeFirst
        <3>7. ClearedWay'
            BY <1>0, <2>1, <2>3, <3>2, <3>3 DEF ClearedWay
        <3>8. PastStage'
            BY <1>0, <2>1, <3>2 DEF PastStage
        <3> QED
            BY <3>4, <3>5, <3>6, <3>7, <3>8 DEF CopyInv
    <2> QED
        BY <1>4, <2>2, <2>3 DEF CheckDest
<1>5. CASE ClearDest
    <2>1. job.at = "clear" /\ ProceedsTo("place") /\ UNCHANGED <<checked, stage>> /\ job.force /\ job.whole
        BY <1>0, <1>5 DEF ClearDest, OnItsWay, WholeFirst
    <2>2. /\ job' \in CopyJobs /\ job'.at = "place" /\ job'.dir = job.dir /\ job'.via = job.via /\ job'.tree = job.tree
          /\ job'.force = job.force /\ job'.got = job.got /\ job'.whole = job.whole /\ job'.n = job.n
          /\ job'.named = job.named /\ job'.outcome = job.outcome
        <3>1. "place" \in Points
            BY DEF Points
        <3> QED
            BY <1>0, <2>1, <3>1, Jumps DEF ProceedsTo
    <2>3. PICK gone : dest' = [p \in Paths |-> IF p \in gone THEN Vacant ELSE dest[p]]
        <3>1. PICK went : dest' = [p \in Paths |-> IF p \in went \/ "top" \in went THEN Vacant ELSE dest[p]]
            BY <1>5 DEF ClearDest
        <3> DEFINE gone == {p \in Paths : p \in went \/ "top" \in went}
        <3> QED
            BY <3>1
    <2>4. dest' \in Places
        <3>1. Vacant \in [kind : {"none", "file", "dir", "link"}, by : {"nobody", "user", "other", "copy"}]
            BY DEF Vacant
        <3> QED
            BY <1>0, <2>3, <3>1 DEF Places
    <2>5. CopyShape'
        BY <1>0, <2>1, <2>2, <2>4 DEF CopyShape
    <2>6. OnItsWay'
        BY <1>0, <1>1, <2>1, <2>2 DEF OnItsWay
    <2>7. WholeFirst'
        BY <2>1, <2>2 DEF WholeFirst
    <2>8. ClearedWay'
        BY <2>1, <2>2 DEF ClearedWay
    <2>9. PastStage'
        BY <1>0, <2>1, <2>2 DEF PastStage
    <2> QED
        BY <2>5, <2>6, <2>7, <2>8, <2>9 DEF CopyInv
<1>6. CASE Place
    <2>1. job.at = "place" /\ UNCHANGED <<checked, stage>> /\ job.whole /\ job.outcome = "none"
        BY <1>0, <1>6 DEF Place, WholeFirst, OnItsWay
    <2>2. CASE \E o \in {"ok", "failed"} : Over(o) /\ UNCHANGED dest
        BY <1>0, <2>1, <2>2, EndsWell
    <2>3. ASSUME job.n # job.got, NEW put,
                 put = GuestPuts(Sent(job)[job.n + 1]) \/ put = HostPuts(Sent(job)[job.n + 1]), put # Failed,
                 dest' = put, job' = [job EXCEPT !.n = @ + 1]
          PROVE  CopyInv'
        <3> DEFINE e == Sent(job)[job.n + 1]
        <3>1. job.n \in Nat /\ job.got \in Nat /\ job.n + 1 \in 1..job.got
            BY <1>0, <2>3 DEF CopyJobs, CopyShape
        <3>2. /\ job' \in CopyJobs /\ job'.at = "place" /\ job'.dir = job.dir /\ job'.via = job.via /\ job'.tree = job.tree
              /\ job'.force = job.force /\ job'.got = job.got /\ job'.whole = job.whole /\ job'.n = job.n + 1
              /\ job'.named = job.named /\ job'.outcome = job.outcome
            <4>1. job.n + 1 \in Nat /\ job' = [job EXCEPT !.n = job.n + 1]
                BY <2>3, <3>1
            <4> DEFINE k == job.n + 1
            <4> HIDE DEF k
            <4>2. job' \in CopyJobs
                BY <1>0, <4>1 DEF CopyJobs
            <4> QED
                BY <1>0, <2>1, <4>1, <4>2 DEF CopyJobs
        <3>3. Conflicts(job', checked) = Conflicts(job, checked)
            BY <3>2 DEF Conflicts, Sent
        <3>4. ~job.force => ~Conflict(e, checked)
            BY <1>0, <2>1, <3>1 DEF ClearedWay, Conflicts
        <3>5. e.kind \in {"file", "dir", "link"}
            <4>1. job.tree \in Seq([path : Paths, kind : {"file", "dir", "link"}]) /\ job.got <= Len(job.tree)
                BY <1>0, CopyAssumption DEF CopyShape, CopyJobs, Paths
            <4>2. e = job.tree[job.n + 1] /\ job.n + 1 \in 1..Len(job.tree)
                BY <3>1, <4>1 DEF Sent
            <4>3. job.tree[job.n + 1] \in [path : Paths, kind : {"file", "dir", "link"}]
                BY <4>1, <4>2, ElementOfSeq
            <4> QED
                BY <4>2, <4>3
        <3> HIDE DEF e
        <3>6. /\ put \in Places
              /\ ~job.force => \A p \in Paths : checked[p].kind \in {"file", "link"} => put[p] = checked[p]
            BY <1>0, <2>3, <3>4, <3>5, Puts DEF ClearedWay, e
        <3>7. CopyShape'
            BY <1>0, <2>1, <2>3, <3>1, <3>2, <3>6 DEF CopyShape
        <3>8. OnItsWay'
            BY <1>0, <2>1, <3>2 DEF OnItsWay
        <3>9. WholeFirst'
            BY <2>1, <3>2 DEF WholeFirst
        <3>10. ClearedWay'
            BY <1>0, <2>1, <2>3, <3>2, <3>3, <3>6 DEF ClearedWay
        <3>11. PastStage'
            BY <1>0, <2>1, <3>2 DEF PastStage
        <3> QED
            BY <3>7, <3>8, <3>9, <3>10, <3>11 DEF CopyInv
    <2> QED
        BY <1>6, <2>2, <2>3 DEF Place
<1>7. CASE Outsider
    <2>1. UNCHANGED <<job, checked, stage>>
        BY <1>7 DEF Outsider
    <2>2. PICK p \in Paths : dest[p].kind = "none" /\ dest' = [dest EXCEPT ![p] = [kind |-> "file", by |-> "other"]]
        BY <1>7 DEF Outsider
    <2>3. dest' \in Places /\ dest'[p].by = "other" /\ \A q \in Paths \ {p} : dest'[q] = dest[q]
        BY <1>0, <2>2 DEF Places
    <2>4. CopyShape'
        BY <1>0, <2>1, <2>3 DEF CopyShape
    <2>5. OnItsWay'
        BY <1>0, <2>1 DEF OnItsWay
    <2>6. WholeFirst'
        BY <1>0, <2>1, <2>3 DEF WholeFirst
    <2>7. ClearedWay'
        BY <1>0, <2>1, <2>2, <2>3 DEF ClearedWay
    <2>8. PastStage'
        BY <1>0, <2>1 DEF PastStage
    <2> QED
        BY <2>4, <2>5, <2>6, <2>7, <2>8 DEF CopyInv
<1> QED
    BY <1>2, <1>3, <1>4, <1>5, <1>6, <1>7

(* Where a copy starts. *)
LEMMA CopyStarts == CopyInit => CopyInv
<1> SUFFICES ASSUME CopyInit PROVE CopyInv
    OBVIOUS
<1>1. PICK w \in Ways, t \in Trees, f \in BOOLEAN :
          job = [dir |-> w[1], via |-> w[2], tree |-> t, force |-> f,
                 at |-> CASE w[1] = "in" -> "pack" [] w = <<"out", "stream">> -> "stream" [] OTHER -> "tar",
                 got |-> 0, whole |-> FALSE, n |-> 0, named |-> FALSE, signal |-> FALSE, outcome |-> "none"]
    BY DEF CopyInit
<1>2. w[1] \in {"in", "out"} /\ w[2] \in {"direct", "stage", "stream", "hub"}
    BY CopyAssumption
<1>3. PICK a \in {"pack", "stream", "tar"} : /\ job.at = a /\ (a = "pack" <=> w[1] = "in")
                                            /\ job = [dir |-> w[1], via |-> w[2], tree |-> t, force |-> f, at |-> a,
                 got |-> 0, whole |-> FALSE, n |-> 0, named |-> FALSE, signal |-> FALSE, outcome |-> "none"]
    <2> DEFINE a == CASE w[1] = "in" -> "pack" [] w = <<"out", "stream">> -> "stream" [] OTHER -> "tar"
    <2>1. a \in {"pack", "stream", "tar"} /\ (a = "pack" <=> w[1] = "in")
        OBVIOUS
    <2> QED
        BY <1>1, <2>1
<1>4. job \in CopyJobs /\ job.n = 0 /\ job.got = 0 /\ ~job.named /\ job.outcome = "none"
      /\ job.at = a /\ (a = "pack" <=> job.dir = "in") /\ (job.dir = "out" <=> a # "pack")
    BY <1>2, <1>3 DEF CopyJobs, Points
<1>5. Len(job.tree) \in Nat
    BY <1>4, CopyAssumption DEF CopyJobs
<1>6. dest \in Places /\ \A p \in Paths : dest[p].by # "copy"
    <2>1. dest \in [Paths -> {Vacant} \cup [kind : {"file", "dir", "link"}, by : {"user"}]]
        BY DEF CopyInit
    <2>2. \A x \in {Vacant} \cup [kind : {"file", "dir", "link"}, by : {"user"}] :
              x \in [kind : {"none", "file", "dir", "link"}, by : {"nobody", "user", "other", "copy"}] /\ x.by # "copy"
        BY DEF Vacant
    <2> QED
        BY <2>1, <2>2 DEF Places
<1>7. checked \in Places /\ (\A p \in Paths : checked[p].kind = "none") /\ stage = [there |-> FALSE, stuck |-> FALSE]
    BY DEF CopyInit, Unchecked, Vacant, Places
<1>8. CopyShape
    BY <1>4, <1>5, <1>6, <1>7 DEF CopyShape
<1>9. OnItsWay
    BY <1>3, <1>4 DEF OnItsWay
<1>10. WholeFirst
    BY <1>3, <1>4, <1>6 DEF WholeFirst
<1>11. ClearedWay
    BY <1>3, <1>4, <1>7 DEF ClearedWay
<1>12. PastStage
    BY <1>4 DEF PastStage
<1> QED
    BY <1>8, <1>9, <1>10, <1>11, <1>12 DEF CopyInv

(* Every step keeps a copy on its way. *)
LEMMA CopySteps == CopyInv /\ [CopyNext]_yvars => CopyInv'
<1> SUFFICES ASSUME CopyInv, [CopyNext]_yvars PROVE CopyInv'
    OBVIOUS
<1>1. CASE UNCHANGED yvars
    BY <1>1 DEF yvars, CopyInv, CopyShape, OnItsWay, WholeFirst, ClearedWay, PastStage, Conflicts, Sent
<1> QED
    BY <1>1, Transfers, Placings DEF CopyNext

(***************************************************************************)
(* However a copy ends, over whichever way, and whatever else writes there *)
(* meanwhile: without -f it replaces nothing that was there when it looked,*)
(* a refused one has written nothing, only a whole archive is placed, and  *)
(* the stage in the guest is gone unless its removal failed.               *)
(***************************************************************************)
THEOREM CopiesLeaveNoHalf == CopySpec => []NoHalfCopy
<1>1. CopyInv => NoHalfCopy
    <2> SUFFICES ASSUME CopyInv PROVE NoHalfCopy
        OBVIOUS
    <2>0. CopyShape /\ OnItsWay /\ WholeFirst /\ ClearedWay /\ PastStage
        BY DEF CopyInv
    <2>1. NothingReplaced
        BY <2>0 DEF NothingReplaced, ClearedWay, WholeFirst, OnItsWay
    <2>2. WholeOnly
        BY <2>0 DEF WholeOnly, WholeFirst
    <2>3. StageGone
        BY <2>0 DEF StageGone, PastStage
    <2> QED
        BY <2>1, <2>2, <2>3 DEF NoHalfCopy
<1> QED
    BY CopyStarts, CopySteps, <1>1, PTL DEF CopySpec

-----------------------------------------------------------------------------

(***************************************************************************)
(* The bridge an attach opens (AttachBridge).                              *)
(***************************************************************************)
(* The types; the counters are natural numbers whatever bounds them. *)
Types ==
    /\ kind \in [of : {"hub", "remote"}, boot : BOOLEAN, booted : BOOLEAN]
    /\ target \in [runs : BOOLEAN, unfit : BOOLEAN, stops : Nat]
    /\ att \in {"start", "wait", "boot", "on", "over"}
    /\ open \in [at : {"none", "dialing"} \cup Results, tries : Nat]
    /\ late \in [at : {"none", "first", "pause", "dial", "ended"}, released : BOOLEAN]
    /\ held \in [own : BOOLEAN, late : BOOLEAN, new : BOOLEAN]
    /\ asked \in [up : BOOLEAN, stopped : BOOLEAN]

(* Who takes what an open brings: the attach while it waits, the late      *)
(* holder once it has let go.                                              *)
OneTaker ==
    /\ att \in {"start", "wait", "boot"} => late = [at |-> "none", released |-> FALSE]
    /\ att = "start" => open.at = "none"
    /\ open.at = "dialing" => att = "wait" \/ late.at \in {"first", "dial"}
    /\ held.new => open.at = "ok" /\ (att = "wait" \/ late.at \in {"first", "dial"})
    /\ late.at \in {"first", "dial"} => open.at # "none"
    /\ late.at = "pause" => open.at \notin {"none", "dialing", "ok"}
    /\ att \in {"boot", "on", "over"} => open.at # "none"

(* What is kept is kept for an attach that goes on. *)
KeptForIt ==
    /\ held.own => att = "on"
    /\ held.late => att = "on" /\ late.at = "ended"
    /\ att = "over" /\ late.at # "none" => late.released
    /\ late.released => att = "over"

(* The saved forwards follow a bridge that a stopped machine refused. *)
ForwardsToo ==
    /\ kind.booted => asked.up
    /\ held.late /\ asked.stopped => asked.up

BridgeInv == Types /\ OneTaker /\ KeptForIt /\ ForwardsToo

(* An attach starts without a session. *)
LEMMA BridgeStarts == BridgeInit => BridgeInv
<1> SUFFICES ASSUME BridgeInit PROVE BridgeInv
  OBVIOUS
<1>1. Types
  <2>1. kind \in [of : {"hub", "remote"}, boot : BOOLEAN, booted : BOOLEAN]
    BY DEF BridgeInit
  <2>2. target \in [runs : BOOLEAN, unfit : BOOLEAN, stops : Nat]
    BY DEF BridgeInit
  <2> QED  BY <2>1, <2>2 DEF BridgeInit, Types
<1>2. OneTaker /\ KeptForIt /\ ForwardsToo
  BY DEF BridgeInit, OneTaker, KeptForIt, ForwardsToo
<1> QED  BY <1>1, <1>2 DEF BridgeInv

(* Every step accounts for the session it opens or leaves. *)
LEMMA BridgeStep == BridgeInv /\ [BridgeNext]_bridgevars => BridgeInv'
<1> SUFFICES ASSUME BridgeInv, [BridgeNext]_bridgevars PROVE BridgeInv'
  OBVIOUS
<1> USE DEF BridgeInv, Types, OneTaker, KeptForIt, ForwardsToo, Results, Ended, Dialed
<1>1. CASE DialFirst
  BY <1>1 DEF DialFirst
<1>2. CASE Dialing
  <2>1. PICK r \in Results : open' = [open EXCEPT !.at = r] /\ (r # "ok" => UNCHANGED held)
    BY <1>2 DEF Dialing
  <2>2. open.at = "dialing" /\ UNCHANGED <<kind, target, att, late>>
    BY <1>2 DEF Dialing
  <2>3. asked' \in [up : BOOLEAN, stopped : BOOLEAN] /\ asked'.up = asked.up
    BY <1>2 DEF Dialing
  <2>4. held' \in [own : BOOLEAN, late : BOOLEAN, new : BOOLEAN] /\ held'.own = held.own /\ held'.late = held.late
    BY <1>2 DEF Dialing
  <2> QED  BY <2>1, <2>2, <2>3, <2>4
<1>3. CASE Opened
  BY <1>3 DEF Opened
<1>4. CASE Refused
  BY <1>4 DEF Refused
<1>5. CASE Boot
  <2>1. CASE att' = "wait"
    <3>1. /\ kind' = [kind EXCEPT !.booted = TRUE] /\ target' = [target EXCEPT !.runs = TRUE]
          /\ asked' = [asked EXCEPT !.up = TRUE] /\ open' = [open EXCEPT !.at = "dialing"]
          /\ att = "boot" /\ UNCHANGED <<late, held>>
      BY <1>5, <2>1 DEF Boot
    <3>2. /\ target' \in [runs : BOOLEAN, unfit : BOOLEAN, stops : Nat]
          /\ kind' \in [of : {"hub", "remote"}, boot : BOOLEAN, booted : BOOLEAN]
          /\ open' \in [at : {"none", "dialing"} \cup Results, tries : Nat] /\ open'.at = "dialing"
          /\ asked' \in [up : BOOLEAN, stopped : BOOLEAN] /\ asked'.up
      BY <3>1
    <3>3. late.at = "none" /\ ~late.released /\ ~held.new /\ ~held.own /\ ~held.late
      BY <3>1
    <3>4. UNCHANGED <<late, held>>
      BY <3>1
    <3> QED  BY <2>1, <3>2, <3>3, <3>4
  <2>2. CASE att' = "over"
    BY <1>5, <2>2 DEF Boot
  <2> QED  BY <1>5, <2>1, <2>2 DEF Boot
<1>6. CASE WaitedEnough
  BY <1>6 DEF WaitedEnough
<1>7. CASE LateLands
  <2>1. UNCHANGED <<kind, target, att, open>> /\ Ended("ok") /\ late.at \in {"first", "dial"} /\ late' = [late EXCEPT !.at = "ended"]
    BY <1>7 DEF LateLands, Adopted
  <2>2. /\ held' \in [own : BOOLEAN, late : BOOLEAN, new : BOOLEAN] /\ ~held'.new /\ held'.own = held.own
        /\ held'.late => ~late.released
    BY <1>7 DEF LateLands, Adopted, Adopt
  <2>3. /\ asked' = [asked EXCEPT !.up = asked.up \/ (asked.stopped /\ ~kind.booted)]
    BY <1>7 DEF LateLands, Adopted
  <2>4. /\ asked' \in [up : BOOLEAN, stopped : BOOLEAN] /\ (kind.booted => asked'.up)
        /\ (asked'.stopped => asked'.up)
    BY <2>3
  <2> QED  BY <2>1, <2>2, <2>4
<1>8. CASE LateFails
  BY <1>8 DEF LateFails
<1>9. CASE Retry
  BY <1>9 DEF Retry
<1>10. CASE Release
  BY <1>10, ZenonT(40) DEF Release
<1>11. CASE BoxStops \/ HubStarts
  <2>1. CASE BoxStops
    <3>1. target.stops + 1 \in Nat
      OBVIOUS
    <3>2. target' \in [runs : BOOLEAN, unfit : BOOLEAN, stops : Nat]
      BY <2>1, <3>1 DEF BoxStops
    <3> QED  BY <2>1, <3>2 DEF BoxStops
  <2>2. CASE HubStarts
    <3>1. target' \in [runs : BOOLEAN, unfit : BOOLEAN, stops : Nat]
      BY <2>2 DEF HubStarts
    <3> QED  BY <2>2, <3>1 DEF HubStarts
  <2> QED  BY <1>11, <2>1, <2>2
<1>12. CASE UNCHANGED bridgevars
  BY <1>12 DEF bridgevars
<1> QED  BY <1>1, <1>2, <1>3, <1>4, <1>5, <1>6, <1>7, <1>8, <1>9, <1>10, <1>11, <1>12 DEF BridgeNext

(* lateBridge: an attach may end before, while or after its bridge comes,  *)
(* at any of its retries; once both are over no session is left, and a     *)
(* late bridge brought the saved forwards a stopped machine had refused.   *)
THEOREM BridgesEnd == BridgeSpec => []NoneOutlives
<1>1. BridgeInv => NoneOutlives
  BY DEF BridgeInv, Types, OneTaker, KeptForIt, ForwardsToo, NoneOutlives
<1> QED  BY <1>1, BridgeStarts, BridgeStep, PTL DEF BridgeSpec

-----------------------------------------------------------------------------

(***************************************************************************)
(* The cache of reachability (Reach): a rewrite without a lock may lose    *)
(* news, and never invents any.                                            *)
(***************************************************************************)
ProbePlaces == {"out", "queued", "check", "resolve", "dial", "keep", "carry", "rename"}
Probes == [at : ProbePlaces, dialled : Times, entry : Entries]
Talks == [box : Boxes, at : {"out", "carry", "rename"}, entry : Entries]

(* A state and its time are those of a test, and so is a timeout. *)
Tested(b, e) ==
    /\ e.state # "?" => <<b, e.state, e.verified>> \in tests
    /\ e.state = "?" /\ e.how = "probe" => <<b, "?", Never>> \in tests

(* So is the time since which it held. *)
Since(b, e) == e.state # "?" => <<b, e.state, e.since>> \in tests

(* What is held to be written was tested; once carried over, since too. *)
Held ==
    /\ \A r \in Rounds, b \in Boxes :
          /\ probe[r][b].at \in {"keep", "carry", "rename"} => Tested(b, probe[r][b].entry)
          /\ probe[r][b].at = "rename" => Since(b, probe[r][b].entry)
    /\ talk.at \in {"carry", "rename"} => Tested(talk.box, talk.entry)
    /\ talk.at = "rename" => Since(talk.box, talk.entry)

Written == \A b \in Boxes : Tested(b, cache[b]) /\ Since(b, cache[b])

ReachInv == ReachTypeOK /\ Held /\ Written

(* A box's bound is a number. *)
LEMMA BoundType == \A b \in Boxes : Bound(b) \in Int
<1> SUFFICES ASSUME NEW b \in Boxes PROVE Bound(b) \in Int
  OBVIOUS
<1>1. Patience[b] \in Int /\ Deadline \in Int /\ DialBound \in Int
  BY ReachAssumption
<1>2. \E x \in {Patience[b], Deadline} : \A y \in {Patience[b], Deadline} : x <= y
  BY <1>1
<1>3. Min({Patience[b], Deadline}) \in {Patience[b], Deadline}
  BY <1>2 DEF Min
<1> QED  BY <1>1, <1>3 DEF Bound

(* The entries that are made. *)
LEMMA EntryTypes ==
  /\ NoFile \in Entries
  /\ \A s \in {"?", "reachable", "unreachable"}, h \in {"none", "master", "probe", "command"}, v \in Times :
        Entry(s, h, v) \in Entries
  BY DEF Entries, Entry, NoFile, Times, Never

(* Carrying since over keeps an entry's types and takes its state from the new test. *)
LEMMA CarriedTypes ==
  ASSUME NEW old \in Entries, NEW e \in Entries
  PROVE  /\ Carried(old, e) \in Entries
         /\ Carried(old, e).state = e.state /\ Carried(old, e).how = e.how
         /\ Carried(old, e).verified = e.verified
         /\ Carried(old, e).since = IF old.state = e.state /\ old.since # Never THEN old.since ELSE e.verified
  BY DEF Carried, Entries

(* Carrying since over keeps what was tested. *)
LEMMA CarriedHolds ==
  ASSUME NEW b \in Boxes, NEW old \in Entries, NEW e \in Entries,
         Tested(b, old), Since(b, old), Tested(b, e)
  PROVE  Tested(b, Carried(old, e)) /\ Since(b, Carried(old, e))
  BY CarriedTypes DEF Tested, Since

(* The time of day is a time. *)
LEMMA NowType == ReachTypeOK => now \in Times /\ now \in Int /\ Never \in Times
  BY ReachAssumption DEF ReachTypeOK, Times

(* Nothing is cached at first. *)
LEMMA ReachInitInv == ReachInit => ReachInv
<1> SUFFICES ASSUME ReachInit PROVE ReachInv
  OBVIOUS
<1>1. NoProbe \in Probes
  BY EntryTypes DEF NoProbe, Probes, ProbePlaces, Times
<1>2. (CHOOSE b \in Boxes : TRUE) \in Boxes
  BY ReachAssumption
<1>3. talk \in Talks /\ talk.at = "out"
  BY <1>2, EntryTypes DEF ReachInit, NoTalk, Talks
<1>4. ReachTypeOK
  BY <1>1, <1>3, EntryTypes, ReachAssumption DEF ReachInit, ReachTypeOK, Probes, ProbePlaces, Talks
<1>5. Held /\ Written
  BY <1>3 DEF ReachInit, Held, Written, Tested, Since, NoProbe, NoFile, Entry
<1> QED  BY <1>4, <1>5 DEF ReachInv

(* A step of one probe leaves the others: what it must show. *)
LEMMA ProbeStep ==
  ASSUME ReachInv, NEW r \in Rounds, NEW b \in Boxes, NEW p \in Probes,
         probe' = [probe EXCEPT ![r][b] = p],
         UNCHANGED <<line, master, now, cache, began, talk, events>>,
         tests \subseteq tests',
         p.at \in {"keep", "carry", "rename"} => Tested(b, p.entry)',
         p.at = "rename" => Since(b, p.entry)'
  PROVE  ReachInv'
<1> USE DEF ReachInv
<1>1. probe' \in [Rounds -> [Boxes -> Probes]]
  BY DEF ReachTypeOK, Probes, ProbePlaces
<1>2. ReachTypeOK'
  BY <1>1 DEF ReachTypeOK, Probes, ProbePlaces
<1>3. Written'
  BY DEF Written, Tested, Since
<1>4. probe'[r][b] = p /\ \A s \in Rounds, d \in Boxes : <<s, d>> # <<r, b>> => probe'[s][d] = probe[s][d]
  BY DEF ReachTypeOK
<1>5. Held'
  BY <1>4, SMTT(30) DEF Held, Tested, Since
<1> QED  BY <1>2, <1>3, <1>5

(* A step that moves a probe and keeps what it holds. *)
LEMMA ProbesAt == ReachTypeOK => \A r \in Rounds, b \in Boxes : probe[r][b] \in Probes
  BY DEF ReachTypeOK, Probes, ProbePlaces

(* Every step writes only what a test showed. *)
LEMMA ReachStep == ReachInv /\ [ReachNext]_rvars => ReachInv'
<1> SUFFICES ASSUME ReachInv, [ReachNext]_rvars PROVE ReachInv'
  OBVIOUS
<1>a. ReachTypeOK /\ Held /\ Written
  BY DEF ReachInv
<1>b. now \in Times /\ now \in Int /\ Never \in Times
  BY <1>a, NowType
<1>c. NoProbe \in Probes /\ NoProbe.at = "out"
  BY EntryTypes, <1>b DEF NoProbe, Probes, ProbePlaces
<1>d. ASSUME NEW r \in Rounds, NEW b \in Boxes, Abandons(r, b), tests \subseteq tests',
             UNCHANGED <<line, master, now, cache, began, talk, events>>
      PROVE  ReachInv'
  BY <1>c, <1>d, ProbeStep DEF Abandons
<1>e. ASSUME NEW r \in Rounds, NEW b \in Boxes, NEW e \in Entries, Holds(r, b, e), Tested(b, e)',
             tests \subseteq tests', UNCHANGED <<line, master, now, cache, began, talk, events>>
      PROVE  ReachInv'
  <2> DEFINE p == [at |-> "keep", dialled |-> Never, entry |-> e]
  <2>1. p \in Probes /\ p.at = "keep" /\ p.entry = e
    BY <1>b DEF Probes, ProbePlaces
  <2> HIDE DEF p
  <2>2. probe' = [probe EXCEPT ![r][b] = p]
    BY <1>e DEF Holds, p
  <2> QED  BY <1>e, <2>1, <2>2, ProbeStep
<1>f. ASSUME NEW r \in Rounds, NEW b \in Boxes, NEW at \in {"check", "resolve", "carry"}, Goes(r, b, at),
             at = "carry" => probe[r][b].at = "keep",
             UNCHANGED <<line, master, now, cache, began, talk, tests, events>>
      PROVE  ReachInv'
  <2>0. PICK p : p = [probe[r][b] EXCEPT !.at = at]
    OBVIOUS
  <2>1. probe[r][b] \in Probes
    BY <1>a, ProbesAt
  <2>2. p \in Probes /\ p.at = at /\ p.entry = probe[r][b].entry
    BY <2>0, <2>1 DEF Probes, ProbePlaces
  <2>3. probe' = [probe EXCEPT ![r][b] = p]
    BY <1>f, <2>0 DEF Goes
  <2>4. p.at = "carry" => Tested(b, p.entry)'
    BY <1>a, <1>f, <2>2 DEF Held, Tested
  <2> QED  BY <1>f, <2>2, <2>3, <2>4, ProbeStep
<1>1. ASSUME NEW r \in Rounds, Look(r) PROVE ReachInv'
  <2>1. PICK bs \in SUBSET Boxes : probe' = [probe EXCEPT ![r] =
            [b \in Boxes |-> IF b \in bs THEN [NoProbe EXCEPT !.at = "queued"] ELSE NoProbe]]
    BY <1>1 DEF Look
  <2>2. [NoProbe EXCEPT !.at = "queued"] \in Probes /\ [NoProbe EXCEPT !.at = "queued"].at = "queued"
    BY <1>c DEF Probes, ProbePlaces
  <2> DEFINE ps == [b \in Boxes |-> IF b \in bs THEN [NoProbe EXCEPT !.at = "queued"] ELSE NoProbe]
  <2>3. ps \in [Boxes -> Probes] /\ \A b \in Boxes : ps[b].at \in {"out", "queued"}
    BY <2>2, <1>c
  <2> HIDE DEF ps
  <2>4. probe' = [probe EXCEPT ![r] = ps]
    BY <2>1 DEF ps
  <2>5. ReachTypeOK'
    <3>1. probe' \in [Rounds -> [Boxes -> Probes]]
      BY <1>a, <2>3, <2>4 DEF ReachTypeOK, Probes, ProbePlaces
    <3>2. began' \in [Rounds -> {Idle} \cup (0..MaxNow)]
      BY <1>1, <1>a DEF Look, ReachTypeOK
    <3> QED  BY <1>1, <1>a, <3>1, <3>2 DEF Look, ReachTypeOK, Probes, ProbePlaces
  <2>6. Held'
    <3>1. \A s \in Rounds, b \in Boxes : s # r => probe'[s][b] = probe[s][b]
      BY <2>4, <1>a DEF ReachTypeOK
    <3>2. \A b \in Boxes : probe'[r][b].at \in {"out", "queued"}
      BY <2>4, <2>3, <1>a DEF ReachTypeOK
    <3>3. UNCHANGED <<talk, tests>>
      BY <1>1 DEF Look
    <3> QED  BY <1>a, <3>1, <3>2, <3>3 DEF Held, Tested, Since
  <2>7. Written'
    BY <1>1, <1>a DEF Look, Written, Tested, Since
  <2> QED  BY <2>5, <2>6, <2>7 DEF ReachInv
<1>2. ASSUME NEW r \in Rounds, RoundEnds(r) PROVE ReachInv'
  <2>1. ReachTypeOK'
    BY <1>2, <1>a DEF RoundEnds, ReachTypeOK
  <2>2. Held' /\ Written'
    BY <1>2, <1>a DEF RoundEnds, Held, Written, Tested, Since
  <2> QED  BY <2>1, <2>2 DEF ReachInv
<1>3. ASSUME NEW r \in Rounds, NEW b \in Boxes, TakeSlot(r, b) PROVE ReachInv'
  BY <1>3, <1>f DEF TakeSlot
<1>4. ASSUME NEW r \in Rounds, NEW b \in Boxes, NoSlot(r, b) PROVE ReachInv'
  BY <1>4, <1>d DEF NoSlot
<1>5. ASSUME NEW r \in Rounds, NEW b \in Boxes, CheckMaster(r, b) PROVE ReachInv'
  <2>1. CASE Abandons(r, b) /\ UNCHANGED tests
    BY <1>5, <2>1, <1>d DEF CheckMaster
  <2>2. CASE Holds(r, b, Entry("reachable", "master", now)) /\ tests' = tests \cup {<<b, "reachable", now>>}
    <3>1. Entry("reachable", "master", now) \in Entries
      BY EntryTypes, <1>b
    <3>2. Tested(b, Entry("reachable", "master", now))'
      BY <1>5, <2>2 DEF CheckMaster, Tested, Entry
    <3> QED  BY <1>5, <2>2, <3>1, <3>2, <1>e DEF CheckMaster
  <2>3. CASE Goes(r, b, "resolve") /\ UNCHANGED tests
    BY <1>5, <2>3, <1>f DEF CheckMaster
  <2> QED  BY <1>5, <2>1, <2>2, <2>3 DEF CheckMaster
<1>6. ASSUME NEW r \in Rounds, NEW b \in Boxes, Resolve(r, b) PROVE ReachInv'
  <2>1. CASE Abandons(r, b)
    BY <1>6, <2>1, <1>d DEF Resolve
  <2>2. CASE Holds(r, b, Entry("?", "none", Never))
    <3>1. Entry("?", "none", Never) \in Entries
      BY EntryTypes, <1>b
    <3>2. Tested(b, Entry("?", "none", Never))'
      BY DEF Tested, Entry
    <3> QED  BY <1>6, <2>2, <3>1, <3>2, <1>e DEF Resolve
  <2>3. CASE probe' = [probe EXCEPT ![r][b] = [at |-> "dial", dialled |-> now, entry |-> NoFile]]
    <3>0. PICK p : p = [at |-> "dial", dialled |-> now, entry |-> NoFile]
      OBVIOUS
    <3>1. p \in Probes /\ p.at = "dial"
      BY <3>0, <1>b, EntryTypes DEF Probes, ProbePlaces
    <3>2. UNCHANGED <<line, master, now, cache, began, talk, tests, events>> /\ probe' = [probe EXCEPT ![r][b] = p]
      BY <1>6, <2>3, <3>0 DEF Resolve
    <3> QED  BY <3>1, <3>2, ProbeStep
  <2> QED  BY <1>6, <2>1, <2>2, <2>3 DEF Resolve
<1>7. ASSUME NEW r \in Rounds, NEW b \in Boxes, DialAnswered(r, b) PROVE ReachInv'
  <2>1. Entry("reachable", "probe", now) \in Entries /\ Tested(b, Entry("reachable", "probe", now))'
    BY <1>7, EntryTypes, <1>b DEF DialAnswered, Tested, Entry
  <2> QED  BY <1>7, <2>1, <1>e DEF DialAnswered
<1>8. ASSUME NEW r \in Rounds, NEW b \in Boxes, DialRefused(r, b) PROVE ReachInv'
  <2>1. CASE CutShort(r, b)
    BY <1>8, <2>1, <1>d DEF DialRefused
  <2>2. CASE ~CutShort(r, b)
    <3>1. Entry("unreachable", "probe", now) \in Entries /\ Tested(b, Entry("unreachable", "probe", now))'
      BY <1>8, <2>2, EntryTypes, <1>b DEF DialRefused, Tested, Entry
    <3> QED  BY <1>8, <2>2, <3>1, <1>e DEF DialRefused
  <2> QED  BY <2>1, <2>2
<1>9. ASSUME NEW r \in Rounds, NEW b \in Boxes, DialEnds(r, b) PROVE ReachInv'
  <2>1. tests \subseteq tests' /\ UNCHANGED <<line, master, now, cache, began, talk, events>>
    BY <1>9 DEF DialEnds
  <2>2. CASE CutShort(r, b)
    BY <1>9, <2>1, <2>2, <1>d DEF DialEnds
  <2>3. CASE ~CutShort(r, b)
    <3>1. Waited(r, b) \in Int /\ Bound(b) \in Int
      <4>1. probe[r][b] \in Probes
        BY <1>a, ProbesAt
      <4>2. probe[r][b].dialled \in Int
        BY <4>1, ReachAssumption DEF Probes, Times, Never
      <4> QED  BY <4>2, <1>b, BoundType DEF Waited
    <3>2. Waited(r, b) >= Bound(b)
      BY <1>9, <2>3, <3>1 DEF DialEnds, CutShort
    <3>3. <<b, "?", Never>> \in tests'
      BY <1>9, <3>2 DEF DialEnds
    <3>4. Entry("?", "probe", Never) \in Entries /\ Tested(b, Entry("?", "probe", Never))'
      BY <3>3, EntryTypes, <1>b DEF Tested, Entry
    <3> QED  BY <1>9, <2>1, <2>3, <3>4, <1>e DEF DialEnds
  <2> QED  BY <2>2, <2>3
<1>10. ASSUME NEW r \in Rounds, NEW b \in Boxes, Keep(r, b) PROVE ReachInv'
  BY <1>10, <1>d, <1>f DEF Keep, Here
<1>11. ASSUME NEW r \in Rounds, NEW b \in Boxes, Carry(r, b) PROVE ReachInv'
  <2>1. probe[r][b] \in Probes /\ probe[r][b].at = "carry" /\ cache[b] \in Entries
    BY <1>a, <1>11, ProbesAt DEF Carry, Here, ReachTypeOK
  <2>2. probe[r][b].entry \in Entries
    BY <2>1 DEF Probes
  <2>0. PICK p : p = [probe[r][b] EXCEPT !.entry = Carried(cache[b], @), !.at = "rename"]
    OBVIOUS
  <2>3. p \in Probes /\ p.at = "rename" /\ p.entry = Carried(cache[b], probe[r][b].entry)
    BY <2>0, <2>1, <2>2, CarriedTypes DEF Probes, ProbePlaces
  <2>4. Tested(b, p.entry) /\ Since(b, p.entry)
    BY <1>a, <2>1, <2>2, <2>3, CarriedHolds DEF Held, Written
  <2>5. probe' = [probe EXCEPT ![r][b] = p] /\ UNCHANGED <<line, master, now, cache, began, talk, tests, events>>
    BY <1>11, <2>0 DEF Carry
  <2>6. Tested(b, p.entry)' /\ Since(b, p.entry)'
    BY <2>4, <2>5 DEF Tested, Since
  <2> QED  BY <2>3, <2>5, <2>6, ProbeStep
<1>12. ASSUME NEW r \in Rounds, NEW b \in Boxes, Rename(r, b) PROVE ReachInv'
  <2>1. probe[r][b] \in Probes /\ probe[r][b].at = "rename"
    BY <1>a, <1>12, ProbesAt DEF Rename, Here
  <2>2. probe[r][b].entry \in Entries /\ Tested(b, probe[r][b].entry) /\ Since(b, probe[r][b].entry)
    BY <1>a, <2>1 DEF Probes, Held
  <2>3. probe' \in [Rounds -> [Boxes -> Probes]]
    BY <1>12, <1>a, <1>c DEF Rename, Abandons, ReachTypeOK, Probes, ProbePlaces
  <2>4. ReachTypeOK'
    BY <1>12, <1>a, <2>2, <2>3 DEF Rename, ReachTypeOK, Probes, ProbePlaces
  <2>5. Held'
    <3>1. probe'[r][b] = NoProbe /\ \A s \in Rounds, d \in Boxes : <<s, d>> # <<r, b>> => probe'[s][d] = probe[s][d]
      BY <1>12, <1>a DEF Rename, Abandons, ReachTypeOK
    <3> QED  BY <1>12, <1>a, <1>c, <3>1 DEF Rename, Held, Tested, Since
  <2>6. Written'
    BY <1>12, <1>a, <2>2 DEF Rename, ReachTypeOK, Written, Tested, Since
  <2> QED  BY <2>4, <2>5, <2>6 DEF ReachInv
<1>13. ASSUME NEW b \in Boxes, Contact(b) PROVE ReachInv'
  <2>0. PICK t : t = [box |-> b, at |-> "carry", entry |-> Entry("reachable", "command", now)]
    OBVIOUS
  <2>1. line[b] = "answers"
    BY <1>13 DEF Contact, Reached
  <2>2. tests' = tests \cup {<<b, "reachable", now>>} /\ talk' = t
    BY <1>13, <2>0, <2>1 DEF Contact
  <2>3. t \in Talks /\ t.at = "carry" /\ t.box = b /\ Tested(b, t.entry)'
    BY <2>0, <2>2, EntryTypes, <1>b DEF Talks, Tested, Entry
  <2>4. ReachTypeOK'
    BY <1>13, <1>a, <2>2, <2>3, ReachAssumption DEF Contact, ReachTypeOK, Talks
  <2>5. Held' /\ Written'
    BY <1>13, <1>a, <2>2, <2>3 DEF Contact, Held, Written, Tested, Since
  <2> QED  BY <2>4, <2>5 DEF ReachInv
<1>14. CASE CommandCarries
  <2>0. PICK t : t = [talk EXCEPT !.entry = Carried(cache[talk.box], @), !.at = "rename"]
    OBVIOUS
  <2>1. talk \in Talks /\ cache[talk.box] \in Entries /\ talk.at = "carry"
    BY <1>a, <1>14 DEF CommandCarries, ReachTypeOK, Talks
  <2>2. talk.entry \in Entries /\ talk.box \in Boxes
    BY <2>1 DEF Talks
  <2>3. t \in Talks /\ t.at = "rename" /\ t.box = talk.box /\ t.entry = Carried(cache[talk.box], talk.entry)
    BY <2>0, <2>1, <2>2, CarriedTypes DEF Talks
  <2>4. Tested(t.box, t.entry) /\ Since(t.box, t.entry)
    BY <1>a, <2>1, <2>2, <2>3, CarriedHolds DEF Held, Written
  <2>5. talk' = t /\ UNCHANGED <<line, master, now, cache, began, probe, tests, events>>
    BY <1>14, <2>0 DEF CommandCarries
  <2>6. ReachTypeOK'
    BY <1>a, <2>3, <2>5 DEF ReachTypeOK, Talks
  <2>7. Held' /\ Written'
    BY <1>a, <2>4, <2>5 DEF Held, Written, Tested, Since
  <2> QED  BY <2>6, <2>7 DEF ReachInv
<1>15. CASE CommandRenames
  <2>1. talk \in Talks /\ talk.at = "rename" /\ talk.box \in Boxes /\ talk.entry \in Entries
    BY <1>a, <1>15 DEF CommandRenames, ReachTypeOK, Talks
  <2>2. Tested(talk.box, talk.entry) /\ Since(talk.box, talk.entry)
    BY <1>a, <2>1 DEF Held
  <2>3. talk' \in Talks /\ talk'.at = "out"
    BY <1>15, <2>1, EntryTypes DEF CommandRenames, NoTalk, Talks
  <2>4. ReachTypeOK'
    BY <1>15, <1>a, <2>1, <2>3 DEF CommandRenames, ReachTypeOK, Talks
  <2>5. Held'
    BY <1>15, <1>a, <2>3 DEF CommandRenames, Held, Tested, Since
  <2>6. Written'
    BY <1>15, <1>a, <2>1, <2>2 DEF CommandRenames, ReachTypeOK, Written, Tested, Since
  <2> QED  BY <2>4, <2>5, <2>6 DEF ReachInv
<1>16. ASSUME NEW b \in Boxes, Forget(b) PROVE ReachInv'
  <2>1. ReachTypeOK'
    BY <1>16, <1>a, EntryTypes, ReachAssumption DEF Forget, ReachTypeOK
  <2>2. Held' /\ Written'
    BY <1>16, <1>a DEF Forget, Held, Written, Tested, Since, ReachTypeOK, NoFile, Entry
  <2> QED  BY <2>1, <2>2 DEF ReachInv
<1>17. ASSUME NEW b \in Boxes, LineChanges(b) PROVE ReachInv'
  <2>1. ReachTypeOK'
    BY <1>17, <1>a, ReachAssumption DEF LineChanges, ReachTypeOK
  <2>2. Held' /\ Written'
    BY <1>17, <1>a DEF LineChanges, Held, Written, Tested, Since
  <2> QED  BY <2>1, <2>2 DEF ReachInv
<1>18. CASE Tick \/ UNCHANGED rvars
  <2>1. ReachTypeOK'
    BY <1>18, <1>a, ReachAssumption DEF Tick, rvars, ReachTypeOK
  <2>2. Held' /\ Written'
    BY <1>18, <1>a DEF Tick, rvars, Held, Written, Tested, Since
  <2> QED  BY <2>1, <2>2 DEF ReachInv
<1> QED
  BY <1>1, <1>2, <1>3, <1>4, <1>5, <1>6, <1>7, <1>8, <1>9, <1>10, <1>11, <1>12,
     <1>13, <1>14, <1>15, <1>16, <1>17, <1>18 DEF ReachNext

(* reach.Probe and Write: whatever rounds, commands and deletes replace one *)
(* another's files, a box's cached state and both its times are those of   *)
(* tests that showed it, and it reads as timed out only after a whole dial.*)
THEOREM CacheIsEstablished == ReachSpec => []OnlyEstablished
<1>1. ReachInv => OnlyEstablished
  BY DEF ReachInv, Written, Tested, Since, OnlyEstablished
<1> QED  BY <1>1, ReachInitInv, ReachStep, PTL DEF ReachSpec

-----------------------------------------------------------------------------

(***************************************************************************)
(* The types of whichever component runs (MCWire), with the bounds of its  *)
(* counters.                                                               *)
(***************************************************************************)
(* No counter of the subscriptions passes its bound. *)
SubsBounded ==
    /\ up.tr <= MaxTurns /\ up.slow <= MaxTurns /\ up.resyncs <= 2
    /\ upMu.to <= MaxTurns /\ relay.live <= MaxTurns /\ relay.dialed <= MaxTurns

(* A turn that is still to be had leaves room for one more transport or slow call. *)
LEMMA RoomForATurn ==
    ASSUME SubsShape, Turns < MaxTurns
    PROVE  relay.dialed + 1 <= MaxTurns /\ up.slow + 1 <= MaxTurns
<1>0. 1 \in Int /\ MaxConns \in Int
    BY SubsAssumption
<1>1. IsFiniteSet(Conns)
    BY <1>0, FS_Interval DEF Conns
<1>2. Cardinality({n \in Conns : conns[n].state # "unused"}) \in Nat
    BY <1>1, FS_Subset, FS_CardinalityType
<1>3. relay.dialed \in Nat /\ up.slow \in Nat
    BY DEF SubsShape
<1> QED
    BY <1>2, <1>3, SubsAssumption DEF Turns

(* A call is made on the transport there is. *)
LEMMA HoldBounded ==
    ASSUME SubsShape, SubsBounded, NEW t, NEW on, NEW inflight, Hold(t, on, inflight)
    PROVE  upMu'.to <= MaxTurns /\ relay'.live = relay.live /\ relay'.dialed = relay.dialed
BY DEF Hold, SubsShape, SubsBounded

(* Each step counts within the bounds. *)
LEMMA SubsStaysBounded ==
    ASSUME SubsShape, SubsBounded, [SubsNext]_uvars
    PROVE  SubsBounded'
<1>0. /\ up \in UpRec /\ upMu \in CallRec /\ relay \in RelayRec
      /\ up.tr \in Nat /\ up.slow \in Nat /\ up.resyncs \in Nat /\ relay.dialed \in Nat
    BY UpShapeIs DEF UpShape, SubsShape
<1>1. CASE UNCHANGED <<up, upMu, relay>>
    BY <1>1 DEF SubsBounded
<1>2. ASSUME NEW t, NEW s \in BOOLEAN, SyncUpstream(t, s) PROVE SubsBounded'
    BY <1>0, <1>2, HoldBounded DEF SyncUpstream, SubsBounded, UpRec
<1>3. CASE PrevReturned
    <2>1. up'.tr = up.tr /\ up'.slow = up.slow /\ up'.resyncs = up.resyncs
        BY <1>0, <1>3 DEF PrevReturned, UpRec
    <2>2. upMu'.to = upMu.to
        BY <1>0, <1>3 DEF PrevReturned, CallRec
    <2>3. relay'.live = relay.live /\ relay'.dialed = relay.dialed
        BY <1>0, <1>3 DEF PrevReturned, RelayRec
    <2> QED
        BY <2>1, <2>2, <2>3 DEF SubsBounded
<1>14. CASE Returned
    <2>1. up'.tr = up.tr /\ up'.slow = up.slow /\ up'.resyncs = up.resyncs
        BY <1>0, <1>14 DEF Returned, UpRec
    <2>2. upMu'.to = 0 /\ relay' = relay
        BY <1>0, <1>14 DEF Returned, FreeMu
    <2> QED
        BY <2>1, <2>2, SubsAssumption DEF SubsBounded
<1>4. CASE GaveUp
    BY <1>0, <1>4, RoomForATurn, SubsAssumption DEF GaveUp, SubsBounded, UpRec, CallRec, RelayRec, FreeMu
<1>5. CASE LateError
    BY <1>0, <1>5 DEF LateError, SubsBounded, UpRec, RelayRec
<1>6. CASE Resync
    <2>1. CASE InStep(FALSE)
        BY <1>0, <1>6, <2>1 DEF Resync, SubsBounded, UpRec
    <2>2. CASE ~InStep(FALSE)
        <3>1. upMu'.to <= MaxTurns /\ relay'.live = relay.live /\ relay'.dialed = relay.dialed
            BY <1>6, <2>2, HoldBounded DEF Resync
        <3>2. PICK i : up' = [up EXCEPT !.inflight = i, !.resyncs = up.resyncs - 1]
            BY <1>6, <2>2 DEF Resync
        <3>3. up'.tr = up.tr /\ up'.slow = up.slow /\ up'.resyncs = up.resyncs - 1
            BY <1>0, <3>2 DEF UpRec
        <3>4. up.resyncs - 1 <= 2
            BY <1>0 DEF SubsBounded
        <3> QED
            BY <3>1, <3>3, <3>4 DEF SubsBounded
    <2> QED
        BY <2>1, <2>2
<1>7. CASE Restore
    BY <1>0, <1>7, RoomForATurn DEF Restore, SubsBounded, UpRec
<1>8. CASE ResubscribeUpstream
    BY <1>0, <1>8, HoldBounded DEF ResubscribeUpstream, SubsBounded, UpRec
<1>9. CASE RelayDies
    BY <1>0, <1>9, SubsAssumption DEF RelayDies, SubsBounded, UpRec, CallRec, RelayRec
<1>10. CASE OnDead
    BY <1>0, <1>10, SubsAssumption DEF OnDead, SubsBounded, UpRec
<1>11. CASE HubReads
    BY <1>0, <1>11 DEF HubReads, SubsBounded, UpRec, CallRec, RelayRec
<1>12. ASSUME NEW c \in Clients, Client(c) PROVE UNCHANGED <<up, upMu, relay>>
    BY <1>12 DEF Client, Connect, Resubscribe, Install, Subscribe, Unsubscribe, Called, Break, daemonSide
<1>13. ASSUME NEW n \in Conns, Serve(n) PROVE SubsBounded'
    <2>1. \/ UNCHANGED <<up, upMu, relay>>
          \/ \E t : \E s \in BOOLEAN : SyncUpstream(t, s)
        BY <1>13 DEF Serve, Take, Register, WorkerSync, ReaderEnds, ReaderSync, CloseSession, daemonSide
    <2> QED
        BY <2>1, <1>1, <1>2
<1> QED
    BY <1>1, <1>3, <1>4, <1>5, <1>6, <1>7, <1>8, <1>9, <1>10, <1>11, <1>12, <1>13, <1>14 DEF SubsNext, uvars

(* With them the shapes are the types. *)
LEMMA SubsTypes == SubsShape /\ subs \subseteq Conns /\ SubsBounded => SubsTypeOK
<1> SUFFICES ASSUME SubsShape, subs \subseteq Conns, SubsBounded PROVE SubsTypeOK
    OBVIOUS
<1>1. SessionRec \subseteq [subscribed : BOOLEAN, conn : 0..MaxConns, cur : 0..MaxConns,
               op : {"none", "opened", "resub", "install", "sub", "unsub"}]
    BY SubsAssumption DEF SessionRec, Conns
<1>2. up \in [tr : 0..MaxTurns, fresh : BOOLEAN, on : BOOLEAN, dirty : BOOLEAN,
               inflight : {"none", "open", "done"}, resyncs : 0..2, slow : 0..MaxTurns]
    BY SubsAssumption DEF SubsShape, SubsBounded
<1>3. upMu \in [by : Threads \cup {Nobody}, phase : {"prev", "call"}, on : BOOLEAN,
                 to : 0..MaxTurns, result : {"open", "ok", "err"}]
    BY SubsAssumption DEF SubsShape, SubsBounded
<1>4. relay \in [live : 0..MaxTurns, dialed : 0..MaxTurns, subscribed : BOOLEAN,
                  lines : Seq([on : BOOLEAN, call : {"held", "abandoned", "forgotten"}])]
    BY SubsAssumption DEF SubsShape, SubsBounded, HubLines
<1> QED
    BY <1>1, <1>2, <1>3, <1>4 DEF SubsTypeOK, SubsShape, ConnRec

(* Who is subscribed is a connection. *)
LEMMA SubscribersAreConns ==
    ASSUME SubsShape, subs \subseteq Conns, [SubsNext]_uvars
    PROVE  subs' \subseteq Conns
BY DEF SubsNext, uvars, Client, Connect, Resubscribe, Install, Subscribe, Unsubscribe, Called, Break, daemonSide,
       Serve, Take, Register, WorkerSync, ReaderEnds, ReaderSync, CloseSession, PrevReturned, Returned, GaveUp, LateError,
       Resync, Restore, ResubscribeUpstream, RelayDies, OnDead, HubReads

(* Every step on a box keeps the types, whichever passwords it takes and *)
(* wherever a connection is cut.                                           *)
LEMMA BoxStepTypes == BoxTypeOK /\ [BoxNext]_bvars => BoxTypeOK'
<1> SUFFICES ASSUME BoxTypeOK, [BoxNext]_bvars PROVE BoxTypeOK'
    OBVIOUS
<1>0. /\ login \in Users /\ user \in BOOLEAN /\ takes \in Passwords /\ keysOf \in [Users -> Files] /\ tmp \in Files
      /\ dropin \in Users \cup {"none"} /\ sshd \in Users \cup {"none"}
      /\ step \in [Runners -> Steps] /\ work \in [Runners -> Works]
    BY DEF BoxTypeOK
<1>1. NoWork \in Works /\ Steps = {"idle", "reach", "ensure", "copy", "verify", "shape", "read", "open", "fill", "mv",
          "whoami", "guard", "firewall", "dropin", "reload"}
    BY DEF NoWork, Works, Jobs, Keys, Steps
<1>2. login' = login /\ takes' = takes
    BY DEF BoxNext, bvars, Restart, Shaping, Issue, Reach, EnsureUser, CopyKeys, Verify, Shape, ReadKeys, OpenTmp, Fill, Mv, Whoami,
           Guard, Firewall, DropIn, Reload, Abort, box
<1>3. user' \in BOOLEAN /\ dropin' \in Users \cup {"none"} /\ sshd' \in Users \cup {"none"}
    BY <1>0 DEF BoxNext, bvars, Restart, Shaping, Issue, Reach, EnsureUser, CopyKeys, Verify, Shape, ReadKeys, OpenTmp, Fill, Mv, Whoami,
           Guard, Firewall, DropIn, Reload, Abort, box
<1>4. ASSUME NEW r \in Runners, NEW from, NEW t \in Steps, To(r, from, t) PROVE step' \in [Runners -> Steps]
    BY <1>0, <1>4 DEF To
<1>5. ASSUME NEW r \in Runners, Quit(r) PROVE step' \in [Runners -> Steps] /\ work' \in [Runners -> Works]
    BY <1>0, <1>1, <1>5 DEF Quit
<1>6. ASSUME NEW r \in Runners, NEW w \in Works, work' = [work EXCEPT ![r] = w] PROVE work' \in [Runners -> Works]
    BY <1>0, <1>6
<1>7. \A S \in SUBSET Keys : S \in Files
    BY DEF Files
<1>8. ASSUME NEW r \in Runners, Shaping(r)
      PROVE  step' \in [Runners -> Steps] /\ work' \in [Runners -> Works] /\ keysOf' \in [Users -> Files] /\ tmp' \in Files
    <2>0. work[r] \in Works
        BY <1>0
    <2>1. CASE \E j \in Jobs, key \in {"own", "other"}, h \in BOOLEAN : Issue(r, j, key, h)
        <3>1. PICK j \in Jobs, key \in {"own", "other"}, h \in BOOLEAN : Issue(r, j, key, h)
            BY <2>1
        <3>2. [NoWork EXCEPT !.job = j, !.key = key, !.harden = h] \in Works
            BY DEF NoWork, Works, Keys
        <3>3. \E t \in Steps : To(r, "idle", t)
            BY <1>1, <3>1 DEF Issue
        <3> QED
            BY <1>0, <1>4, <1>6, <3>1, <3>2, <3>3 DEF Issue, box
    <2>2. CASE Reach(r) \/ Verify(r) \/ Whoami(r) \/ Guard(r) \/ Firewall(r) \/ Abort(r)
        <3>1. Quit(r) \/ ((\E t \in Steps : \E from : To(r, from, t)) /\ UNCHANGED work)
            BY <1>1, <2>2 DEF Reach, Verify, Whoami, Guard, Firewall, Abort
        <3>2. UNCHANGED box
            BY <2>2 DEF Reach, Verify, Whoami, Guard, Firewall, Abort
        <3> QED
            BY <1>0, <1>4, <1>5, <3>1, <3>2 DEF box
    <2>3. CASE EnsureUser(r) \/ CopyKeys(r)
        <3>1. keysOf' \in [Users -> Files] /\ UNCHANGED <<tmp, work>>
            BY <1>0, <2>3 DEF EnsureUser, CopyKeys, Users
        <3> QED
            BY <1>0, <1>1, <1>4, <2>3, <3>1 DEF EnsureUser, CopyKeys
    <2>4. CASE Shape(r)
        BY <1>0, <1>1, <1>4, <2>4 DEF Shape, box
    <2>5. CASE ReadKeys(r)
        <3>1. CASE Quit(r)
            BY <1>0, <1>5, <2>5, <3>1 DEF ReadKeys, box
        <3>2. CASE ~Quit(r)
            <4>1. /\ To(r, "read", "open") /\ work' = [work EXCEPT ![r] = [work[r] EXCEPT !.lines = Rewritten(work[r], keysOf[login])]]
                  /\ keysOf[login] # Absent /\ UNCHANGED box
                BY <2>5, <3>2 DEF ReadKeys
            <4>2. keysOf[login] \in SUBSET Keys /\ work[r].key \in Keys
                BY <1>0, <2>0, <4>1 DEF Files, Works
            <4>3. Rewritten(work[r], keysOf[login]) \in SUBSET Keys
                BY <4>2 DEF Rewritten
            <4>4. [work[r] EXCEPT !.lines = Rewritten(work[r], keysOf[login])] \in Works
                BY <2>0, <4>3 DEF Works
            <4> QED
                BY <1>0, <1>1, <1>4, <1>6, <4>1, <4>4 DEF box
        <3> QED
            BY <3>1, <3>2
    <2>6. CASE OpenTmp(r)
        <3>1. [work[r] EXCEPT !.fd = "tmp"] \in Works
            BY <2>0 DEF Works
        <3> QED
            BY <1>0, <1>1, <1>4, <1>6, <1>7, <2>6, <3>1 DEF OpenTmp
    <2>7. CASE Fill(r)
        <3> DEFINE Into(file) == {work[r].lines \cup rest : rest \in SUBSET (file \ Absent)} \cup (IF Drops THEN {file} ELSE {})
        <3>1. ASSUME NEW f \in Files PROVE Into(f) \subseteq Files
            <4>1. f \ Absent \in SUBSET Keys \/ f = Absent
                BY DEF Files
            <4>2. f \ Absent \subseteq Keys /\ work[r].lines \subseteq Keys
                BY <2>0, <4>1 DEF Works, Absent
            <4> QED
                BY <4>2, <1>7
        <3>2. keysOf[login] \in Files
            BY <1>0
        <3>3. To(r, "fill", "mv") /\ UNCHANGED work
            BY <2>7 DEF Fill
        <3>4. /\ tmp' \in Into(tmp) \/ tmp' = tmp
              /\ keysOf' = keysOf \/ \E f \in Into(keysOf[login]) : keysOf' = [keysOf EXCEPT ![login] = f]
            BY <2>7 DEF Fill
        <3> HIDE DEF Into
        <3> QED
            BY <1>0, <1>1, <1>4, <3>1, <3>2, <3>3, <3>4
    <2>8. CASE Mv(r)
        <3>1. CASE tmp = Absent
            BY <1>0, <1>5, <2>8, <3>1 DEF Mv
        <3>2. CASE tmp # Absent
            <4> DEFINE moved(fd) == CASE fd = "tmp" -> "live" [] fd = "live" -> "gone" [] OTHER -> fd
                       left == [q \in Runners |-> [work[q] EXCEPT !.fd = moved(work[q].fd)]]
                       on == work[r].job = "setup" /\ work[r].harden
            <4>1. /\ keysOf' = [keysOf EXCEPT ![login] = tmp] /\ tmp' = Absent
                  /\ step' = [step EXCEPT ![r] = IF on THEN "whoami" ELSE "idle"]
                  /\ work' = [left EXCEPT ![r] = IF on THEN [left[r] EXCEPT !.fd = "none"] ELSE NoWork]
                BY <2>8, <3>2 DEF Mv
            <4>2. left \in [Runners -> Works]
                <5>1. ASSUME NEW q \in Runners PROVE [work[q] EXCEPT !.fd = moved(work[q].fd)] \in Works
                    <6>1. work[q] \in Works /\ moved(work[q].fd) \in {"none", "tmp", "live", "gone"}
                        BY <1>0 DEF Works
                    <6> HIDE DEF moved
                    <6> QED
                        BY <6>1 DEF Works
                <5> HIDE DEF moved
                <5> QED
                    BY <5>1
            <4>3. (IF on THEN [left[r] EXCEPT !.fd = "none"] ELSE NoWork) \in Works
                <5>1. left[r] \in Works
                    BY <4>2
                <5> HIDE DEF left, on
                <5> QED
                    BY <5>1, <1>1 DEF Works
            <4>4. (IF on THEN "whoami" ELSE "idle") \in Steps /\ Absent \in Files
                BY <1>1 DEF Files
            <4> HIDE DEF left, on
            <4> QED
                BY <1>0, <4>1, <4>2, <4>3, <4>4
        <3> QED
            BY <3>1, <3>2
    <2>9. CASE DropIn(r) \/ Reload(r)
        BY <1>0, <1>1, <1>4, <1>5, <2>9 DEF DropIn, Reload
    <2> QED
        BY <1>8, <2>1, <2>2, <2>3, <2>4, <2>5, <2>6, <2>7, <2>8, <2>9 DEF Shaping
<1>9. CASE Restart \/ UNCHANGED bvars
    <2>1. UNCHANGED <<keysOf, tmp, step, work>>
        BY <1>9 DEF Restart, bvars
    <2> QED
        BY <1>0, <1>2, <1>3, <2>1 DEF BoxTypeOK
<1> QED
    BY <1>0, <1>2, <1>3, <1>8, <1>9 DEF BoxNext, BoxTypeOK

(* A box starts with them. *)
LEMMA BoxInitTypes == BoxInit => BoxTypeOK
<1> SUFFICES ASSUME BoxInit PROVE BoxTypeOK
    OBVIOUS
<1>1. NoWork \in Works /\ "idle" \in Steps
    BY DEF NoWork, Works, Jobs, Keys, Steps
<1>2. tmp \in Files
    BY DEF BoxInit, Files
<1> QED
    BY <1>1, <1>2 DEF BoxInit, BoxTypeOK

(* A copy's invariant has its types. *)
LEMMA CopyTypes == CopyInv => CopyTypeOK
BY DEF CopyInv, CopyShape, CopyTypeOK, CopyJobs, Points, Places

(* A machine stops, and an open is tried again, only so often. *)
BridgeBounded ==
    /\ target.stops <= MaxStops /\ open.tries <= MaxTries
    /\ att \in {"start", "wait", "boot"} => open.tries = 0
    /\ late.at = "pause" => open.tries < MaxTries

(* A late open pauses only while a retry is left. *)
LEMMA BridgeStaysBounded ==
    ASSUME BridgeInv, BridgeBounded, [BridgeNext]_bridgevars
    PROVE  BridgeBounded'
<1> USE DEF BridgeBounded
<1>0. /\ target \in [runs : BOOLEAN, unfit : BOOLEAN, stops : Nat]
      /\ open \in [at : {"none", "dialing"} \cup Results, tries : Nat]
      /\ late \in [at : {"none", "first", "pause", "dial", "ended"}, released : BOOLEAN]
      /\ att \in {"start", "wait", "boot"} => late = [at |-> "none", released |-> FALSE]
    BY DEF BridgeInv, Types, OneTaker
<1>1. target'.stops <= MaxStops
    <2>1. \/ target'.stops = target.stops
          \/ target.stops < MaxStops /\ target'.stops = target.stops + 1
        <3>1. \/ target' = target \/ target' = [target EXCEPT !.runs = TRUE]
              \/ target.stops < MaxStops /\ target' = [target EXCEPT !.runs = FALSE, !.stops = @ + 1]
            BY DEF BridgeNext, DialFirst, Dialing, Opened, Refused, Boot, WaitedEnough, LateLands, LateFails, Retry,
                   Release, BoxStops, HubStarts, bridgevars
        <3> QED
            BY <1>0, <3>1
    <2> QED
        BY <1>0, <2>1, BridgeAssumption
<1>2. CASE DialFirst
    BY <1>0, <1>1, <1>2 DEF DialFirst
<1>3. CASE Dialing
    <2>1. PICK r \in Results : open' = [open EXCEPT !.at = r]
        BY <1>3 DEF Dialing, Results
    <2> QED
        BY <1>0, <1>1, <1>3, <2>1 DEF Dialing
<1>4. CASE Opened
    BY <1>0, <1>1, <1>4 DEF Opened
<1>5. CASE Refused
    BY <1>0, <1>1, <1>5, BridgeAssumption DEF Refused
<1>6. CASE Boot
    BY <1>0, <1>1, <1>6 DEF Boot
<1>7. CASE WaitedEnough
    BY <1>0, <1>1, <1>7 DEF WaitedEnough
<1>8. CASE LateLands
    BY <1>0, <1>1, <1>8 DEF LateLands, Adopted
<1>9. CASE LateFails
    BY <1>0, <1>1, <1>9 DEF LateFails
<1>10. CASE Retry
    BY <1>0, <1>1, <1>10, BridgeAssumption DEF Retry
<1>11. CASE Release
    BY <1>0, <1>1, <1>11 DEF Release
<1>12. CASE BoxStops \/ HubStarts \/ UNCHANGED bridgevars
    <2>1. UNCHANGED <<att, open, late>>
        BY <1>12 DEF BoxStops, HubStarts, bridgevars
    <2> QED
        BY <1>1, <2>1
<1> QED
    BY <1>2, <1>3, <1>4, <1>5, <1>6, <1>7, <1>8, <1>9, <1>10, <1>11, <1>12 DEF BridgeNext

(* With the bounds the shapes are the types. *)
LEMMA BridgeTypes == BridgeInv /\ BridgeBounded => BridgeTypeOK
<1> SUFFICES ASSUME BridgeInv, BridgeBounded PROVE BridgeTypeOK
    OBVIOUS
<1>0. Types
    BY DEF BridgeInv
<1>1. target \in [runs : BOOLEAN, unfit : BOOLEAN, stops : 0..MaxStops]
    BY <1>0, BridgeAssumption DEF Types, BridgeBounded
<1>2. open \in [at : {"none", "dialing"} \cup Results, tries : 0..MaxTries]
    BY <1>0, BridgeAssumption DEF Types, BridgeBounded
<1> QED
    BY <1>0, <1>1, <1>2 DEF Types, BridgeTypeOK

(* Of each component, what is inductive. *)
SubsKept == SubsShape /\ SessionsInv /\ UpInv /\ SubsBounded /\ subs \subseteq Conns
BridgeKept == BridgeInv /\ BridgeBounded

(* And its steps keep it, from where it starts. *)
LEMMA SubsKeeps == SubsKept /\ [SubsNext]_uvars => SubsKept'
BY SubsSteps, SubsStaysBounded, SubscribersAreConns DEF SubsKept

LEMMA BridgeKeeps == BridgeKept /\ [BridgeNext]_bridgevars => BridgeKept'
BY BridgeStep, BridgeStaysBounded DEF BridgeKept

LEMMA SubsKeptStarts == SubsInit => SubsKept
BY SubsStarts, SubsAssumption DEF SubsKept, SubsInit, SubsBounded, FreeMu

LEMMA BridgeKeptStarts == BridgeInit => BridgeKept
<1> SUFFICES ASSUME BridgeInit PROVE BridgeKept
    OBVIOUS
<1>1. target.stops = 0 /\ open.tries = 0 /\ late.at = "none"
    BY DEF BridgeInit
<1> QED
    BY <1>1, BridgeStarts, BridgeAssumption DEF BridgeKept, BridgeBounded

WireInv ==
    /\ part \in {"events", "box", "copy", "attach", "reach"}
    /\ part = "events" => SubsKept
    /\ part = "box" => BoxTypeOK
    /\ part = "copy" => CopyInv
    /\ part = "attach" => BridgeKept
    /\ part = "reach" => ReachInv

(***************************************************************************)
(* Whatever a subscription, a box, a copy, an attach or a round of probes  *)
(* goes through, every variable keeps its type and every counter its       *)
(* bound, for any clients, connections, trees, boxes and rounds.           *)
(***************************************************************************)
THEOREM WiresKeepTypes == WireSpec => []WireTypeOK
<1>1. WireInit => WireInv
    BY SubsKeptStarts, BoxInitTypes, CopyStarts, BridgeKeptStarts, ReachInitInv DEF WireInit, WireInv
<1>2. WireInv /\ [WireNext]_wirevars => WireInv'
    <2> SUFFICES ASSUME WireInv, [WireNext]_wirevars PROVE WireInv'
        OBVIOUS
    <2>1. /\ part' = part
          /\ part = "events" => [SubsNext]_uvars
          /\ part = "box" => [BoxNext]_bvars
          /\ part = "copy" => [CopyNext]_yvars
          /\ part = "attach" => [BridgeNext]_bridgevars
          /\ part = "reach" => [ReachNext]_rvars
        BY DEF WireNext, wirevars
    <2> QED
        BY <2>1, SubsKeeps, BoxStepTypes, CopySteps, BridgeKeeps, ReachStep DEF WireInv
<1>3. WireInv => WireTypeOK
    BY SubsTypes, CopyTypes, BridgeTypes DEF WireInv, WireTypeOK, SubsKept, BridgeKept, ReachInv
<1> QED
    BY <1>1, <1>2, <1>3, PTL DEF WireSpec
=============================================================================
