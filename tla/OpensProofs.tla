------------------------------ MODULE OpensProofs ------------------------------
EXTENDS Opens, TLAPS, FiniteSetTheorems

(***************************************************************************)
(* Whose answer it is.                                                     *)
(***************************************************************************)

Stages == {"none", "asked", "bind", "chosen", "sent", "done", "late"}
Hops == [at : Stages, age : Nat, id : Nat, sess : Nat]
Messages == [side : {"event", "reply"}, d : 0..Last, url : Asks, by : 0..4, id : Nat, sess : Nat, age : Nat]

(* The types, without the bounds that only a finite instance has. *)
OpensShape ==
    /\ asks \in [Asks -> [at : {"none", "asked", "told"}, age : Nat, of : Asks \cup {NoOne}, by : 0..4]]
    /\ hop \in [Asks -> [Daemons -> Hops]]
    /\ wire \subseteq Messages /\ opening \subseteq Messages
    /\ listens \in [Daemons -> [sess : Nat, on : BOOLEAN, next : Nat]]
    /\ cut \in BOOLEAN

(* An open has no number at a daemon before its event goes out there; the  *)
(* numbers are given once, and a session's number is never ahead.          *)
Numbered ==
    \A d \in Daemons :
        /\ \A o \in Asks : /\ hop[o][d].at \in {"none", "asked", "bind", "chosen"} => hop[o][d].id = 0
                           /\ hop[o][d].id <= listens[d].next /\ hop[o][d].sess <= listens[d].sess
        /\ \A o, q \in Asks : hop[o][d].id = hop[q][d].id /\ hop[o][d].id # 0 => o = q

(* A message on a session carries its open's number there; the agent's     *)
(* stream is the open's own.                                               *)
Tagged ==
    /\ \A m \in wire \cup opening :
          m.d # Agent => m.id # 0 /\ hop[m.url][m.d].id = m.id /\ hop[m.url][m.d].sess = m.sess
    /\ \A m \in wire : /\ m.d = Agent => m.side = "reply" /\ m.id = m.url
                       /\ m.side = "reply" => m.by # Agent
    /\ \A m \in opening : m.side = "event" /\ m.d = Last

(* An open reaches daemon 2 once, by the event of daemon 1. *)
Relayed ==
    /\ \A o \in Asks : asks[o].at = "none" => hop[o][1].at = "none"
    /\ Last = 2 =>
         /\ \A o \in Asks : hop[o][2].at # "none" => hop[o][1].id # 0
         /\ \A m \in wire : m.side = "event" /\ m.d = 1 => hop[m.url][2].at = "none"
         /\ \A m, n \in wire : m.side = "event" /\ n.side = "event" /\ m.d = 1 /\ n.d = 1 /\ m.url = n.url => m = n

RoutingInv == OpensShape /\ Numbered /\ Tagged /\ Relayed /\ OwnAnswer

(***************************************************************************)
(* Who gives up first.                                                     *)
(***************************************************************************)

(* Nothing outlasts its own bound, and what has not begun has no age. *)
Bounded ==
    /\ \A m \in wire : m.age <= Lag
    /\ \A m \in opening : m.age = 0
    /\ \A o \in Asks : asks[o].at = "none" => asks[o].age = 0
    /\ \A o \in Asks, d \in Daemons : LET h == hop[o][d]
                                      IN /\ h.at \in {"none", "asked"} => h.age = 0
                                         /\ h.at = "bind" => h.age <= BindTime /\ d = Last
                                         /\ h.at = "sent" => h.age <= WaitOn(d)

(* How long the agent has waited is the sum of what its open went through. *)
OwnBind == IF Last = 1 THEN BindTime ELSE 0
AgentWaits(o) ==
    asks[o].at = "asked" =>
        LET h == hop[o][1]
        IN /\ h.at # "none"
           /\ h.at = "asked" => asks[o].age = 0
           /\ h.at = "bind" => asks[o].age <= h.age
           /\ h.at = "chosen" => asks[o].age <= OwnBind
           /\ h.at = "sent" => asks[o].age <= OwnBind + h.age
           /\ h.at \in {"done", "late"} =>
                 \E m \in wire : m.d = Agent /\ m.id = o /\ asks[o].age <= OwnBind + WaitOn(1) + m.age

(* So is how long daemon 1 has waited for daemon 2, while their session    *)
(* and their link last.                                                    *)
Heard(o) == listens[1].on /\ listens[1].sess = hop[o][1].sess /\ ~cut
RelayWaits(o) ==
    Last = 2 /\ hop[o][1].at = "sent" /\ Heard(o) =>
        LET a == hop[o][1].age
            g == hop[o][2]
        IN /\ g.at = "none" => \E m \in wire : m.side = "event" /\ m.d = 1 /\ m.url = o /\ a <= m.age
           /\ g.at = "asked" => a <= Lag
           /\ g.at = "bind" => a <= Lag + g.age
           /\ g.at = "chosen" => a <= Lag + BindTime
           /\ g.at = "sent" => a <= Lag + BindTime + g.age
           /\ g.at \in {"done", "late"} =>
                 \E m \in wire : m.side = "reply" /\ m.d = 1 /\ m.url = o /\ a <= Lag + BindTime + SubWait + m.age

WaitsInv == Bounded /\ (\A o \in Asks : AgentWaits(o) /\ RelayWaits(o)) /\ InnerFirst

(* The daemons are the host's own, and a hub's behind it or not. *)
LEMMA DaemonsAre == Daemons = 1..Last /\ Last \in {1, 2} /\ 1 \in Daemons /\ Last \in Daemons
<1>3. Cardinality(1..1) = 1
    <2>1. 1 \in Int
        OBVIOUS
    <2>2. Cardinality(1..1) = IF 1 > 1 THEN 0 ELSE 1 - 1 + 1
        BY <2>1, FS_Interval
    <2> QED
        BY <2>2
<1>4. Cardinality(1..2) = 2
    <2>1. 1 \in Int /\ 2 \in Int
        OBVIOUS
    <2>2. Cardinality(1..2) = IF 1 > 2 THEN 0 ELSE 2 - 1 + 1
        BY <2>1, FS_Interval
    <2> QED
        BY <2>2
<1>1. CASE Daemons = 1..1
    BY <1>1, <1>3 DEF Last
<1>2. CASE Daemons = 1..2
    BY <1>2, <1>4 DEF Last
<1> QED
    BY <1>1, <1>2, OpensAssumption

(* One open's handler at one daemon becomes h; the others stay. *)
Becomes(o, d, h) == hop' = [hop EXCEPT ![o][d] = h]

(* A hop is changed as a function is. *)
LEMMA HopSet ==
    ASSUME hop \in [Asks -> [Daemons -> Hops]], NEW o \in Asks, NEW d \in Daemons, NEW h \in Hops, Becomes(o, d, h)
    PROVE  /\ hop' \in [Asks -> [Daemons -> Hops]] /\ hop'[o][d] = h
           /\ \A q \in Asks, e \in Daemons : q # o \/ e # d => hop'[q][e] = hop[q][e]
BY DEF Becomes

(* The same handler at another point. *)
Moved(o, d, at) == [hop[o][d] EXCEPT !.at = at]

(* A hop that only moves on keeps its number, its subscriber and its age. *)
LEMMA HopAt ==
    ASSUME hop \in [Asks -> [Daemons -> Hops]], NEW o \in Asks, NEW d \in Daemons, NEW at \in Stages
    PROVE  /\ Moved(o, d, at) \in Hops /\ Moved(o, d, at).at = at /\ Moved(o, d, at).id = hop[o][d].id
           /\ Moved(o, d, at).sess = hop[o][d].sess /\ Moved(o, d, at).age = hop[o][d].age
           /\ hop' = [hop EXCEPT ![o][d].at = at] <=> Becomes(o, d, Moved(o, d, at))
<1>1. hop[o][d] \in Hops
    OBVIOUS
<1>2. /\ Moved(o, d, at) \in Hops /\ Moved(o, d, at).at = at /\ Moved(o, d, at).id = hop[o][d].id
      /\ Moved(o, d, at).sess = hop[o][d].sess /\ Moved(o, d, at).age = hop[o][d].age
    BY <1>1 DEF Hops, Moved
<1>3. [hop EXCEPT ![o][d].at = at] = [hop EXCEPT ![o][d] = Moved(o, d, at)]
    BY DEF Moved
<1> QED
    BY <1>2, <1>3 DEF Becomes

(* A daemon's answer is a message, with the tag of its open. *)
LEMMA ReplyIs ==
    ASSUME RoutingInv, NEW o \in Asks, NEW d \in Daemons, NEW by \in 1..4
    PROVE  LET r == Reply(o, d, o, by)
           IN /\ r \in Messages /\ r.side = "reply" /\ r.d = d - 1 /\ r.url = o /\ r.by = by /\ r.age = 0
              /\ r.id = IF d = 1 THEN o ELSE hop[o][1].id
              /\ r.sess = IF d = 1 THEN 0 ELSE hop[o][1].sess
<1>1. hop[o][1] \in Hops /\ o \in Nat /\ d - 1 \in 0..Last
    BY DaemonsAre, OpensAssumption DEF RoutingInv, OpensShape
<1> QED
    BY <1>1 DEF Reply, Messages, Hops

(* A daemon that answers an open, or gives up on it, keeps the account. *)
LEMMA SettlesKeeps ==
    ASSUME RoutingInv, NEW o \in Asks, NEW d \in Daemons, NEW at \in {"done", "late"}, NEW by \in 1..4,
           NEW rest, rest \subseteq wire, hop[o][d].at # "none",
           Settles(at, o, d, o, by, rest), UNCHANGED <<asks, opening, listens, cut>>
    PROVE  RoutingInv'
<1>0. OpensShape /\ Numbered /\ Tagged /\ Relayed /\ OwnAnswer
    BY DEF RoutingInv
<1> DEFINE r == Reply(o, d, o, by)
<1>1. /\ hop' \in [Asks -> [Daemons -> Hops]]
      /\ hop'[o][d].at = at /\ hop'[o][d].id = hop[o][d].id /\ hop'[o][d].sess = hop[o][d].sess
      /\ \A q \in Asks, e \in Daemons : q # o \/ e # d => hop'[q][e] = hop[q][e]
    <2>1. at \in Stages /\ hop' = [hop EXCEPT ![o][d].at = at] /\ hop \in [Asks -> [Daemons -> Hops]]
        BY <1>0 DEF Settles, Stages, OpensShape
    <2>2. Becomes(o, d, Moved(o, d, at)) /\ Moved(o, d, at) \in Hops
        BY <2>1, HopAt
    <2>3. /\ hop' \in [Asks -> [Daemons -> Hops]] /\ hop'[o][d] = Moved(o, d, at)
          /\ \A q \in Asks, e \in Daemons : q # o \/ e # d => hop'[q][e] = hop[q][e]
        BY <2>1, <2>2, HopSet
    <2> QED
        BY <2>1, <2>3, HopAt
<1>2. \A q \in Asks, e \in Daemons : hop'[q][e].id = hop[q][e].id /\ hop'[q][e].sess = hop[q][e].sess
    BY <1>1
<1>3. /\ r \in Messages /\ r.side = "reply" /\ r.d = d - 1 /\ r.url = o /\ r.by = by
      /\ r.id = IF d = 1 THEN o ELSE hop[o][1].id
      /\ r.sess = IF d = 1 THEN 0 ELSE hop[o][1].sess
    BY ReplyIs
<1>4. wire' \subseteq wire \cup {r}
    BY DEF Settles, Sends
<1> HIDE DEF r
<1>5. d = 1 \/ (d = 2 /\ Last = 2)
    BY DaemonsAre
<1>6. d = 2 => hop[o][1].id # 0
    BY <1>0, <1>5 DEF Relayed
<1>7. OpensShape'
    BY <1>0, <1>1, <1>3, <1>4 DEF OpensShape
<1>8. Numbered'
    <2>1. \A q \in Asks, e \in Daemons : hop'[q][e].at \in {"none", "asked", "bind", "chosen"} => hop'[q][e].id = 0
        BY <1>0, <1>1, <1>2 DEF Numbered
    <2>2. \A q \in Asks, e \in Daemons : hop'[q][e].id <= listens'[e].next /\ hop'[q][e].sess <= listens'[e].sess
        BY <1>0, <1>2 DEF Numbered
    <2>3. \A p, q \in Asks, e \in Daemons : hop'[p][e].id = hop'[q][e].id /\ hop'[p][e].id # 0 => p = q
        BY <1>0, <1>2 DEF Numbered
    <2> QED
        BY <2>1, <2>2, <2>3 DEF Numbered
<1>9. Tagged'
    <2>1. ASSUME NEW m \in wire \cup opening, m.d # Agent
          PROVE  m.id # 0 /\ hop'[m.url][m.d].id = m.id /\ hop'[m.url][m.d].sess = m.sess
        <3>1. m.url \in Asks /\ m.d \in Daemons
            BY <1>0, <2>1, DaemonsAre DEF OpensShape, Messages, Agent
        <3> QED
            BY <1>0, <1>2, <2>1, <3>1 DEF Tagged
    <2>2. r.d # Agent => r.id # 0 /\ hop'[r.url][r.d].id = r.id /\ hop'[r.url][r.d].sess = r.sess
        BY <1>2, <1>3, <1>5, <1>6, DaemonsAre DEF Agent
    <2>3. (r.d = Agent => r.side = "reply" /\ r.id = r.url) /\ r.by # Agent
        BY <1>3, <1>5 DEF Agent
    <2> QED
        BY <1>0, <1>4, <2>1, <2>2, <2>3 DEF Tagged
<1>10. Relayed'
    <2>1. \A q \in Asks : asks[q].at = "none" => hop'[q][1].at = "none"
        BY <1>0, <1>1, DaemonsAre DEF Relayed
    <2>2. ASSUME Last = 2, NEW q \in Asks, hop'[q][2].at # "none" PROVE hop'[q][1].id # 0
        <3>1. hop[q][2].at # "none" /\ 1 \in Daemons /\ 2 \in Daemons
            BY <1>1, <2>2, DaemonsAre
        <3> QED
            BY <1>0, <1>2, <2>2, <3>1 DEF Relayed
    <2>3. ASSUME Last = 2, NEW m \in wire, m.side = "event", m.d = 1 PROVE hop'[m.url][2].at = "none"
        <3>1. hop[m.url][2].at = "none" /\ m.url \in Asks /\ 2 \in Daemons
            BY <1>0, <2>3, DaemonsAre DEF Relayed, OpensShape, Messages
        <3> QED
            BY <1>1, <3>1
    <2>4. \A m \in wire' : m.side = "event" => m \in wire
        BY <1>3, <1>4
    <2> QED
        BY <1>0, <2>1, <2>2, <2>3, <2>4 DEF Relayed
<1>11. OwnAnswer'
    BY <1>0 DEF OwnAnswer
<1> QED
    BY <1>7, <1>8, <1>9, <1>10, <1>11 DEF RoutingInv

(* A handler that waits goes on: chosen, bound or answered, unnumbered. *)
LEMMA UnnumberedKeeps ==
    ASSUME RoutingInv, NEW o \in Asks, NEW d \in Daemons, NEW h \in Hops, Becomes(o, d, h),
           hop[o][d].id = 0, h.id = 0, h.sess <= listens[d].sess, hop[o][d].at # "none",
           UNCHANGED <<asks, wire, opening, listens, cut>>
    PROVE  RoutingInv'
<1>0. OpensShape /\ Numbered /\ Tagged /\ Relayed /\ OwnAnswer
    BY DEF RoutingInv
<1>1. /\ hop' \in [Asks -> [Daemons -> Hops]] /\ hop'[o][d] = h
      /\ \A q \in Asks, e \in Daemons : q # o \/ e # d => hop'[q][e] = hop[q][e]
    BY <1>0, HopSet DEF OpensShape
<1>2. \A q \in Asks, e \in Daemons : hop'[q][e].id = hop[q][e].id
    BY <1>1
<1>3. OpensShape'
    BY <1>0, <1>1 DEF OpensShape
<1>4. Numbered'
    <2>1. \A q \in Asks, e \in Daemons : hop'[q][e].at \in {"none", "asked", "bind", "chosen"} => hop'[q][e].id = 0
        BY <1>0, <1>1, <1>2 DEF Numbered
    <2>2. \A q \in Asks, e \in Daemons : hop'[q][e].id <= listens'[e].next /\ hop'[q][e].sess <= listens'[e].sess
        BY <1>0, <1>1, <1>2 DEF Numbered
    <2>3. \A p, q \in Asks, e \in Daemons : hop'[p][e].id = hop'[q][e].id /\ hop'[p][e].id # 0 => p = q
        BY <1>0, <1>2 DEF Numbered
    <2> QED
        BY <2>1, <2>2, <2>3 DEF Numbered
<1>5. Tagged'
    <2>1. ASSUME NEW m \in wire \cup opening, m.d # Agent
          PROVE  m.id # 0 /\ hop'[m.url][m.d].id = m.id /\ hop'[m.url][m.d].sess = m.sess
        <3>1. m.url \in Asks /\ m.d \in Daemons
            BY <1>0, <2>1, DaemonsAre DEF OpensShape, Messages, Agent
        <3>2. m.id # 0 /\ hop[m.url][m.d].id = m.id /\ hop[m.url][m.d].sess = m.sess
            BY <1>0, <2>1 DEF Tagged
        <3> QED
            BY <1>1, <3>1, <3>2
    <2> QED
        BY <1>0, <2>1 DEF Tagged
<1>6. Relayed'
    <2>1. \A q \in Asks : asks[q].at = "none" => hop'[q][1].at = "none"
        BY <1>0, <1>1, DaemonsAre DEF Relayed
    <2>2. ASSUME Last = 2, NEW q \in Asks, hop'[q][2].at # "none" PROVE hop'[q][1].id # 0
        <3>1. hop[q][2].at # "none" /\ 1 \in Daemons /\ 2 \in Daemons
            BY <1>1, <2>2, DaemonsAre
        <3> QED
            BY <1>0, <1>2, <2>2, <3>1 DEF Relayed
    <2>3. ASSUME Last = 2, NEW m \in wire, m.side = "event", m.d = 1 PROVE hop'[m.url][2].at = "none"
        <3>1. hop[m.url][2].at = "none" /\ m.url \in Asks /\ 2 \in Daemons
            BY <1>0, <2>3, DaemonsAre DEF Relayed, OpensShape, Messages
        <3> QED
            BY <1>1, <3>1
    <2> QED
        BY <1>0, <2>1, <2>2, <2>3 DEF Relayed
<1>7. OwnAnswer'
    BY <1>0 DEF OwnAnswer
<1> QED
    BY <1>3, <1>4, <1>5, <1>6, <1>7 DEF RoutingInv

(* Messages that are lost, or that no longer count, take nothing along;    *)
(* time leaves the tags.                                                   *)
SameBut(m, n) == /\ m.side = n.side /\ m.d = n.d /\ m.url = n.url /\ m.by = n.by /\ m.id = n.id /\ m.sess = n.sess

(* What is lost, dropped or cut off is routed nowhere. *)
LEMMA LossKeeps ==
    ASSUME RoutingInv, wire' \subseteq wire, opening' \subseteq opening, cut' \in BOOLEAN,
           hop' = hop, listens' \in [Daemons -> [sess : Nat, on : BOOLEAN, next : Nat]],
           \A d \in Daemons : listens'[d].next = listens[d].next /\ listens'[d].sess >= listens[d].sess,
           asks' \in [Asks -> [at : {"none", "asked", "told"}, age : Nat, of : Asks \cup {NoOne}, by : 0..4]],
           \A o \in Asks : /\ asks'[o].at = "none" => asks[o].at = "none"
                           /\ asks'[o].of \in {o, NoOne}
    PROVE  RoutingInv'
<1>0. OpensShape /\ Numbered /\ Tagged /\ Relayed /\ OwnAnswer
    BY DEF RoutingInv
<1>1. OpensShape'
    BY <1>0 DEF OpensShape
<1>2. Numbered'
    <2>1. \A o \in Asks, d \in Daemons : hop[o][d].sess \in Nat /\ listens[d].sess \in Nat /\ listens'[d].sess \in Nat
        BY <1>0 DEF OpensShape, Hops
    <2> QED
        BY <1>0, <2>1 DEF Numbered
<1>3. Tagged'
    BY <1>0 DEF Tagged
<1>4. Relayed'
    BY <1>0 DEF Relayed
<1>5. OwnAnswer'
    BY DEF OwnAnswer
<1> QED
    BY <1>1, <1>2, <1>3, <1>4, <1>5 DEF RoutingInv

(* An event goes out with the next number of its session. *)
LEMMA SentKeeps ==
    ASSUME RoutingInv, NEW o \in Asks, NEW d \in Daemons, hop[o][d].at = "chosen",
           listens[d].sess = hop[o][d].sess,
           Becomes(o, d, [hop[o][d] EXCEPT !.at = "sent", !.age = 0, !.id = EventId(d)]),
           listens' = [listens EXCEPT ![d].next = EventId(d)],
           wire' \subseteq wire \cup {[side |-> "event", d |-> d, url |-> o, by |-> NoOne, age |-> 0,
                                       id |-> EventId(d), sess |-> hop[o][d].sess]},
           UNCHANGED <<asks, opening, cut>>
    PROVE  RoutingInv'
<1>0. OpensShape /\ Numbered /\ Tagged /\ Relayed /\ OwnAnswer
    BY DEF RoutingInv
<1> DEFINE h == [hop[o][d] EXCEPT !.at = "sent", !.age = 0, !.id = EventId(d)]
           e == [side |-> "event", d |-> d, url |-> o, by |-> NoOne, age |-> 0,
                 id |-> EventId(d), sess |-> hop[o][d].sess]
<1>1. hop[o][d] \in Hops /\ listens[d].next \in Nat /\ EventId(d) = listens[d].next + 1
    BY <1>0 DEF OpensShape, EventId
<1>2. h \in Hops /\ h.at = "sent" /\ h.id = EventId(d) /\ h.sess = hop[o][d].sess
    <2>1. EventId(d) \in Nat /\ hop[o][d] \in Hops /\ "sent" \in Stages
        BY <1>1 DEF Stages
    <2> HIDE DEF EventId
    <2>2. [hop[o][d] EXCEPT !.at = "sent"] \in Hops
        BY <2>1 DEF Hops
    <2>3. [hop[o][d] EXCEPT !.at = "sent", !.age = 0] \in Hops
        BY <2>2 DEF Hops
    <2>4. h \in Hops
        BY <2>1, <2>3 DEF Hops
    <2> QED
        BY <2>1, <2>4 DEF Hops
<1>3. /\ e \in Messages /\ e.side = "event" /\ e.d = d /\ e.url = o /\ e.id = EventId(d) /\ e.sess = hop[o][d].sess
    BY <1>1, DaemonsAre DEF Messages, Hops, NoOne
<1>4. wire' \subseteq wire \cup {e}
    OBVIOUS
<1>5. Becomes(o, d, h)
    OBVIOUS
<1> HIDE DEF h, e
<1>6. /\ hop' \in [Asks -> [Daemons -> Hops]] /\ hop'[o][d] = h
      /\ \A q \in Asks, k \in Daemons : q # o \/ k # d => hop'[q][k] = hop[q][k]
    BY <1>0, <1>2, <1>5, HopSet DEF OpensShape
<1>7. /\ listens' \in [Daemons -> [sess : Nat, on : BOOLEAN, next : Nat]]
      /\ listens'[d].next = listens[d].next + 1 /\ listens'[d].sess = listens[d].sess
      /\ \A k \in Daemons \ {d} : listens'[k] = listens[k]
    BY <1>0, <1>1 DEF OpensShape
<1>8. hop[o][d].id = 0
    BY <1>0 DEF Numbered
<1>9. OpensShape'
    BY <1>0, <1>3, <1>4, <1>6, <1>7 DEF OpensShape
<1>10. \A q \in Asks : hop[q][d].id < EventId(d) /\ hop[q][d].id \in Nat
    BY <1>0, <1>1 DEF Numbered, OpensShape, Hops
<1>11. Numbered'
    <2>1. ASSUME NEW k \in Daemons, NEW q \in Asks
          PROVE  /\ hop'[q][k].at \in {"none", "asked", "bind", "chosen"} => hop'[q][k].id = 0
                 /\ hop'[q][k].id <= listens'[k].next /\ hop'[q][k].sess <= listens'[k].sess
        <3>1. CASE k = d /\ q = o
            BY <1>1, <1>2, <1>6, <1>7, <3>1, <1>0 DEF OpensShape, Hops
        <3>2. CASE k = d /\ q # o
            BY <1>0, <1>1, <1>6, <1>7, <1>10, <3>2 DEF Numbered
        <3>3. CASE k # d
            BY <1>0, <1>6, <1>7, <3>3 DEF Numbered
        <3> QED
            BY <3>1, <3>2, <3>3
    <2>2. ASSUME NEW k \in Daemons, NEW p \in Asks, NEW q \in Asks, hop'[p][k].id = hop'[q][k].id, hop'[p][k].id # 0
          PROVE  p = q
        <3>1. CASE k # d \/ (p # o /\ q # o)
            BY <1>0, <1>6, <2>2, <3>1 DEF Numbered
        <3>2. CASE k = d /\ (p = o \/ q = o)
            BY <1>1, <1>2, <1>6, <1>10, <2>2, <3>2
        <3> QED
            BY <3>1, <3>2
    <2> QED
        BY <2>1, <2>2 DEF Numbered
<1>12. ASSUME NEW m \in wire \cup opening, m.d # Agent
       PROVE  /\ m.id # 0 /\ hop'[m.url][m.d].id = m.id /\ hop'[m.url][m.d].sess = m.sess
              /\ m.url # o \/ m.d # d
    <2>1. m.url \in Asks /\ m.d \in Daemons
        BY <1>0, <1>12, DaemonsAre DEF OpensShape, Messages, Agent
    <2>2. m.id # 0 /\ hop[m.url][m.d].id = m.id /\ hop[m.url][m.d].sess = m.sess
        BY <1>0, <1>12 DEF Tagged
    <2> QED
        BY <1>6, <1>8, <2>1, <2>2
<1>13. Tagged'
    <2>1. e.id # 0 /\ hop'[e.url][e.d].id = e.id /\ hop'[e.url][e.d].sess = e.sess /\ e.d # Agent
        BY <1>1, <1>2, <1>3, <1>6, DaemonsAre DEF Agent
    <2> QED
        BY <1>0, <1>3, <1>4, <1>12, <2>1 DEF Tagged
<1>14. Relayed'
    <2>1. \A q \in Asks : asks[q].at = "none" => hop'[q][1].at = "none"
        BY <1>0, <1>6, DaemonsAre DEF Relayed
    <2> SUFFICES ASSUME Last = 2
                 PROVE  /\ \A q \in Asks : hop'[q][2].at # "none" => hop'[q][1].id # 0
                        /\ \A m \in wire' : m.side = "event" /\ m.d = 1 => hop'[m.url][2].at = "none"
                        /\ \A m, n \in wire' : m.side = "event" /\ n.side = "event" /\ m.d = 1 /\ n.d = 1 /\ m.url = n.url
                                               => m = n
        BY <2>1 DEF Relayed
    <2>2. 1 \in Daemons /\ 2 \in Daemons /\ d \in {1, 2}
        BY DaemonsAre
    <2>3. ASSUME NEW q \in Asks, hop'[q][2].at # "none" PROVE hop'[q][1].id # 0
        <3>1. hop[q][2].at # "none"
            BY <1>6, <2>2, <2>3
        <3>2. hop[q][1].id # 0
            BY <1>0, <3>1 DEF Relayed
        <3> QED
            BY <1>6, <1>8, <2>2, <3>2
    <2>4. ASSUME NEW m \in wire, m.side = "event", m.d = 1 PROVE hop'[m.url][2].at = "none"
        <3>1. hop[m.url][2].at = "none" /\ m.url \in Asks
            BY <1>0, <2>4 DEF Relayed, OpensShape, Messages
        <3> QED
            BY <1>6, <2>2, <3>1
    <2>5. d = 1 => hop'[o][2].at = "none"
        BY <1>0, <1>6, <1>8, <2>2 DEF Relayed
    <2>6. \A m \in wire' : m.side = "event" /\ m.d = 1 => hop'[m.url][2].at = "none"
        BY <1>3, <1>4, <2>4, <2>5
    <2>7. ASSUME NEW m \in wire', NEW n \in wire', m.side = "event", n.side = "event", m.d = 1, n.d = 1, m.url = n.url
          PROVE  m = n
        <3>1. CASE m \in wire /\ n \in wire
            BY <1>0, <2>7, <3>1 DEF Relayed
        <3>2. CASE m = e /\ n \in wire
            BY <1>3, <1>12, <2>7, <3>2 DEF Agent
        <3>3. CASE m \in wire /\ n = e
            BY <1>3, <1>12, <2>7, <3>3 DEF Agent
        <3> QED
            BY <1>4, <3>1, <3>2, <3>3
    <2> QED
        BY <2>3, <2>6, <2>7
<1>15. OwnAnswer'
    BY <1>0 DEF OwnAnswer
<1> QED
    BY <1>9, <1>11, <1>13, <1>14, <1>15 DEF RoutingInv

(* Where requests start. *)
LEMMA RoutingInit == OpensInit => RoutingInv
<1> SUFFICES ASSUME OpensInit PROVE RoutingInv
    OBVIOUS
<1>1. \A o \in Asks : asks[o] = NoAsk
    BY DEF OpensInit
<1>2. \A o \in Asks, d \in Daemons : hop[o][d] = NoHop
    BY DEF OpensInit
<1>3. listens \in [Daemons -> [sess : Nat, on : BOOLEAN, next : Nat]] /\ \A d \in Daemons : listens[d].sess = 0 /\ listens[d].next = 0
    BY DEF OpensInit
<1>4. NoHop \in Hops /\ NoHop.at = "none" /\ NoHop.id = 0 /\ NoHop.sess = 0
    BY DEF NoHop, Hops, Stages
<1>5. asks \in [Asks -> [at : {"none", "asked", "told"}, age : Nat, of : Asks \cup {NoOne}, by : 0..4]]
    BY DEF OpensInit, NoAsk, NoOne
<1>6. hop \in [Asks -> [Daemons -> Hops]]
    BY <1>4 DEF OpensInit
<1>7. OpensShape
    BY <1>3, <1>5, <1>6 DEF OpensInit, OpensShape
<1>8. Numbered
    BY <1>2, <1>3, <1>4 DEF Numbered
<1>9. Tagged
    BY DEF OpensInit, Tagged
<1>10. Relayed
    BY <1>2, <1>4, DaemonsAre DEF OpensInit, Relayed
<1>11. OwnAnswer
    BY <1>1 DEF OwnAnswer, NoAsk
<1> QED
    BY <1>7, <1>8, <1>9, <1>10, <1>11 DEF RoutingInv

(* What the clock does: every message and every wait is a tick older. *)
LEMMA TickIs ==
    ASSUME OpensShape, Tick
    PROVE  /\ OpensShape'
           /\ \A m \in wire' : \E n \in wire : SameBut(m, n) /\ m.age = n.age + 1
           /\ \A n \in wire : \E m \in wire' : SameBut(m, n) /\ m.age = n.age + 1
           /\ \A o \in Asks : /\ asks'[o].at = asks[o].at /\ asks'[o].of = asks[o].of /\ asks'[o].by = asks[o].by
                              /\ asks'[o].age = IF asks[o].at = "asked" THEN asks[o].age + 1 ELSE asks[o].age
           /\ \A o \in Asks, d \in Daemons :
                 /\ hop'[o][d].at = hop[o][d].at /\ hop'[o][d].id = hop[o][d].id /\ hop'[o][d].sess = hop[o][d].sess
                 /\ hop'[o][d].age = IF hop[o][d].at \in {"bind", "sent"} THEN hop[o][d].age + 1 ELSE hop[o][d].age
<1> DEFINE Older(m) == [m EXCEPT !.age = m.age + 1]
<1>1. ASSUME NEW m \in Messages
      PROVE  Older(m) \in Messages /\ SameBut(Older(m), m) /\ SameBut(m, m) /\ Older(m).age = m.age + 1
    BY <1>1 DEF Messages, SameBut
<1>2. wire' = {Older(m) : m \in wire} /\ wire \subseteq Messages
    BY DEF Tick, OpensShape
<1> HIDE DEF Older
<1>3. wire' \subseteq Messages /\ \A m \in wire' : \E n \in wire : SameBut(m, n) /\ m.age = n.age + 1
    BY <1>1, <1>2
<1>4. \A n \in wire : \E m \in wire' : SameBut(m, n) /\ m.age = n.age + 1
    BY <1>1, <1>2
<1>5. ASSUME NEW o \in Asks
      PROVE  /\ asks'[o] \in [at : {"none", "asked", "told"}, age : Nat, of : Asks \cup {NoOne}, by : 0..4]
             /\ asks'[o].at = asks[o].at /\ asks'[o].of = asks[o].of /\ asks'[o].by = asks[o].by
             /\ asks'[o].age = IF asks[o].at = "asked" THEN asks[o].age + 1 ELSE asks[o].age
    <2>1. asks[o] \in [at : {"none", "asked", "told"}, age : Nat, of : Asks \cup {NoOne}, by : 0..4]
        BY DEF OpensShape
    <2>2. asks'[o] = [asks[o] EXCEPT !.age = IF asks[o].at = "asked" THEN asks[o].age + 1 ELSE asks[o].age]
        BY DEF Tick
    <2> QED
        BY <2>1, <2>2
<1>6. ASSUME NEW o \in Asks, NEW d \in Daemons
      PROVE  /\ hop'[o][d] \in Hops
             /\ hop'[o][d].at = hop[o][d].at /\ hop'[o][d].id = hop[o][d].id /\ hop'[o][d].sess = hop[o][d].sess
             /\ hop'[o][d].age = IF hop[o][d].at \in {"bind", "sent"} THEN hop[o][d].age + 1 ELSE hop[o][d].age
    <2>1. hop[o][d] \in Hops
        BY DEF OpensShape
    <2>2. hop'[o][d] = [hop[o][d] EXCEPT !.age = IF Waits(hop[o][d]) THEN hop[o][d].age + 1 ELSE hop[o][d].age]
        BY DEF Tick
    <2> QED
        BY <2>1, <2>2 DEF Hops, Waits
<1>7. asks' \in [Asks -> [at : {"none", "asked", "told"}, age : Nat, of : Asks \cup {NoOne}, by : 0..4]]
    <2>1. asks' = [o \in Asks |-> asks'[o]]
        BY DEF Tick
    <2> QED
        BY <1>5, <2>1
<1>8. hop' \in [Asks -> [Daemons -> Hops]]
    <2>1. hop' = [o \in Asks |-> [d \in Daemons |-> hop'[o][d]]]
        BY DEF Tick
    <2> QED
        BY <1>6, <2>1
<1>9. OpensShape'
    BY <1>3, <1>7, <1>8 DEF OpensShape, Tick
<1> QED
    BY <1>3, <1>4, <1>5, <1>6, <1>9

(* Time passing routes nothing. *)
LEMMA TickKeeps == ASSUME RoutingInv, Tick PROVE RoutingInv'
<1>0. OpensShape /\ Numbered /\ Tagged /\ Relayed /\ OwnAnswer /\ UNCHANGED <<opening, listens, cut>>
    BY DEF RoutingInv, Tick
<1>1. /\ OpensShape'
      /\ \A m \in wire' : \E n \in wire : SameBut(m, n)
      /\ \A o \in Asks : asks'[o].at = asks[o].at /\ asks'[o].of = asks[o].of
      /\ \A o \in Asks, d \in Daemons :
            hop'[o][d].at = hop[o][d].at /\ hop'[o][d].id = hop[o][d].id /\ hop'[o][d].sess = hop[o][d].sess
    BY <1>0, TickIs
<1>2. Numbered'
    BY <1>0, <1>1 DEF Numbered
<1>3. Tagged'
    <2>1. ASSUME NEW m \in wire \cup opening, m.d # Agent
          PROVE  m.id # 0 /\ hop'[m.url][m.d].id = m.id /\ hop'[m.url][m.d].sess = m.sess
        <3>1. m.url \in Asks /\ m.d \in Daemons
            BY <1>0, <2>1, DaemonsAre DEF OpensShape, Messages, Agent
        <3> QED
            BY <1>0, <1>1, <2>1, <3>1 DEF Tagged
    <2>2. ASSUME NEW m \in wire'
          PROVE  /\ m.d # Agent => m.id # 0 /\ hop'[m.url][m.d].id = m.id /\ hop'[m.url][m.d].sess = m.sess
                 /\ m.d = Agent => m.side = "reply" /\ m.id = m.url
                 /\ m.side = "reply" => m.by # Agent
        <3>1. PICK n \in wire : SameBut(m, n)
            BY <1>1
        <3> QED
            BY <1>0, <2>1, <3>1 DEF SameBut, Tagged
    <2> QED
        BY <1>0, <2>1, <2>2 DEF Tagged
<1>4. Relayed'
    <2>1. \A o \in Asks : asks'[o].at = "none" => hop'[o][1].at = "none"
        BY <1>0, <1>1, DaemonsAre DEF Relayed
    <2> SUFFICES ASSUME Last = 2
                 PROVE  /\ \A q \in Asks : hop'[q][2].at # "none" => hop'[q][1].id # 0
                        /\ \A m \in wire' : m.side = "event" /\ m.d = 1 => hop'[m.url][2].at = "none"
                        /\ \A m, n \in wire' : m.side = "event" /\ n.side = "event" /\ m.d = 1 /\ n.d = 1 /\ m.url = n.url
                                               => m = n
        BY <2>1 DEF Relayed
    <2>2. 1 \in Daemons /\ 2 \in Daemons
        BY DaemonsAre
    <2>3. \A q \in Asks : hop'[q][2].at # "none" => hop'[q][1].id # 0
        BY <1>0, <1>1, <2>2 DEF Relayed
    <2>4. ASSUME NEW m \in wire', m.side = "event", m.d = 1 PROVE hop'[m.url][2].at = "none"
        <3>1. PICK n \in wire : SameBut(m, n)
            BY <1>1
        <3>2. n.url \in Asks /\ hop[n.url][2].at = "none" /\ m.url = n.url
            BY <1>0, <2>4, <3>1 DEF SameBut, Relayed, OpensShape, Messages
        <3> QED
            BY <1>1, <2>2, <3>2
    <2>5. ASSUME NEW m \in wire', NEW n \in wire', m.side = "event", n.side = "event", m.d = 1, n.d = 1, m.url = n.url
          PROVE  m = n
        <3>1. PICK k \in wire : m = [k EXCEPT !.age = k.age + 1]
            BY DEF Tick
        <3>2. PICK l \in wire : n = [l EXCEPT !.age = l.age + 1]
            BY DEF Tick
        <3>3. k \in Messages /\ l \in Messages
            BY <1>0 DEF OpensShape
        <3>4. k.side = m.side /\ k.d = m.d /\ k.url = m.url /\ l.side = n.side /\ l.d = n.d /\ l.url = n.url
            BY <3>1, <3>2, <3>3 DEF Messages
        <3>5. k = l
            BY <1>0, <2>5, <3>4 DEF Relayed
        <3> QED
            BY <3>1, <3>2, <3>5
    <2> QED
        BY <2>3, <2>4, <2>5
<1>5. OwnAnswer'
    BY <1>0, <1>1 DEF OwnAnswer
<1> QED
    BY <1>1, <1>2, <1>3, <1>4, <1>5 DEF RoutingInv

(* An open reaches a daemon: the first from the agent, the second by the   *)
(* first's event, which is taken off the wire.                             *)
LEMMA StartsKeeps ==
    ASSUME RoutingInv, NEW o \in Asks, NEW d \in Daemons, hop[o][d].at = "none", Becomes(o, d, Moved(o, d, "asked")),
           wire' \subseteq wire, UNCHANGED <<opening, listens, cut>>,
           asks' \in [Asks -> [at : {"none", "asked", "told"}, age : Nat, of : Asks \cup {NoOne}, by : 0..4]],
           \A q \in Asks : /\ asks'[q].at = "none" => asks[q].at = "none" /\ (q # o \/ d # 1)
                           /\ asks'[q].of = asks[q].of,
           d = 2 => hop[o][1].id # 0 /\ \A m \in wire' : m.side = "event" /\ m.d = 1 => m.url # o
    PROVE  RoutingInv'
<1>0. OpensShape /\ Numbered /\ Tagged /\ Relayed /\ OwnAnswer
    BY DEF RoutingInv
<1>1. /\ hop' \in [Asks -> [Daemons -> Hops]]
      /\ hop'[o][d].at = "asked" /\ hop'[o][d].id = hop[o][d].id /\ hop'[o][d].sess = hop[o][d].sess
      /\ \A q \in Asks, e \in Daemons : q # o \/ e # d => hop'[q][e] = hop[q][e]
    <2>1. hop \in [Asks -> [Daemons -> Hops]] /\ "asked" \in Stages
        BY <1>0 DEF OpensShape, Stages
    <2>2. /\ Moved(o, d, "asked") \in Hops /\ Moved(o, d, "asked").at = "asked"
          /\ Moved(o, d, "asked").id = hop[o][d].id /\ Moved(o, d, "asked").sess = hop[o][d].sess
        BY <2>1, HopAt
    <2> QED
        BY <2>1, <2>2, HopSet
<1>2. \A q \in Asks, e \in Daemons : hop'[q][e].id = hop[q][e].id /\ hop'[q][e].sess = hop[q][e].sess
    BY <1>1
<1>3. OpensShape'
    <2>1. asks' \in [Asks -> [at : {"none", "asked", "told"}, age : Nat, of : Asks \cup {NoOne}, by : 0..4]]
        OBVIOUS
    <2>2. wire' \subseteq Messages /\ opening' \subseteq Messages /\ cut' \in BOOLEAN
        BY <1>0 DEF OpensShape
    <2>3. listens' \in [Daemons -> [sess : Nat, on : BOOLEAN, next : Nat]]
        BY <1>0 DEF OpensShape
    <2> QED
        BY <1>1, <2>1, <2>2, <2>3 DEF OpensShape
<1>4. Numbered'
    <2>1. listens' = listens
        OBVIOUS
    <2>2. ASSUME NEW k \in Daemons, NEW q \in Asks
          PROVE  /\ hop'[q][k].at \in {"none", "asked", "bind", "chosen"} => hop'[q][k].id = 0
                 /\ hop'[q][k].id <= listens'[k].next /\ hop'[q][k].sess <= listens'[k].sess
        <3>1. hop[o][d].id = 0
            BY <1>0 DEF Numbered
        <3> QED
            BY <1>0, <1>1, <1>2, <2>1, <3>1 DEF Numbered
    <2>3. \A k \in Daemons : \A p, q \in Asks : hop'[p][k].id = hop'[q][k].id /\ hop'[p][k].id # 0 => p = q
        BY <1>0, <1>2 DEF Numbered
    <2> QED
        BY <2>2, <2>3 DEF Numbered
<1>5. Tagged'
    <2>1. ASSUME NEW m \in wire \cup opening, m.d # Agent
          PROVE  m.id # 0 /\ hop'[m.url][m.d].id = m.id /\ hop'[m.url][m.d].sess = m.sess
        <3>1. m.url \in Asks /\ m.d \in Daemons
            BY <1>0, <2>1, DaemonsAre DEF OpensShape, Messages, Agent
        <3> QED
            BY <1>0, <1>2, <2>1, <3>1 DEF Tagged
    <2> QED
        BY <1>0, <2>1 DEF Tagged
<1>6. Relayed'
    <2>1. \A q \in Asks : asks'[q].at = "none" => hop'[q][1].at = "none"
        BY <1>0, <1>1, DaemonsAre DEF Relayed
    <2>2. ASSUME Last = 2, NEW q \in Asks, hop'[q][2].at # "none" PROVE hop'[q][1].id # 0
        <3>0. 1 \in Daemons /\ 2 \in Daemons
            BY <2>2, DaemonsAre
        <3>1. hop[q][2].at # "none" \/ (q = o /\ d = 2)
            BY <1>1, <2>2, <3>0
        <3> QED
            BY <1>0, <1>2, <2>2, <3>0, <3>1 DEF Relayed
    <2>3. ASSUME Last = 2, NEW m \in wire', m.side = "event", m.d = 1 PROVE hop'[m.url][2].at = "none"
        <3>1. hop[m.url][2].at = "none" /\ m.url \in Asks /\ 2 \in Daemons
            BY <1>0, <2>3, DaemonsAre DEF Relayed, OpensShape, Messages
        <3>2. m.url # o \/ d # 2
            BY <2>3
        <3> QED
            BY <1>1, <3>1, <3>2
    <2> QED
        BY <1>0, <2>1, <2>2, <2>3 DEF Relayed
<1>7. OwnAnswer'
    BY <1>0 DEF OwnAnswer
<1> QED
    BY <1>3, <1>4, <1>5, <1>6, <1>7 DEF RoutingInv

(* A browser's answer has the tag of the event it answers. *)
LEMMA BrowsesKeeps == ASSUME RoutingInv, NEW m \in opening, Browses(m) PROVE RoutingInv'
<1>0. OpensShape /\ Numbered /\ Tagged /\ Relayed /\ OwnAnswer
    BY DEF RoutingInv
<1> DEFINE r == [m EXCEPT !.side = "reply", !.by = Browser]
<1>1. m \in Messages /\ m.d = Last /\ m.side = "event" /\ Last # 0
    BY <1>0, DaemonsAre DEF OpensShape, Tagged
<1>2. r \in Messages /\ r.side = "reply" /\ r.d = m.d /\ r.url = m.url /\ r.by = 3 /\ r.id = m.id /\ r.sess = m.sess
    <2>1. [m EXCEPT !.side = "reply"] \in Messages
        BY <1>1 DEF Messages
    <2>2. \A n \in Messages : [n EXCEPT !.by = 3] \in Messages
        BY DEF Messages
    <2>3. r = [[m EXCEPT !.side = "reply"] EXCEPT !.by = 3]
        BY DEF Browser
    <2>4. r \in Messages
        BY <2>1, <2>2, <2>3
    <2>5. DOMAIN m = {"side", "d", "url", "by", "id", "sess", "age"}
        BY <1>1 DEF Messages
    <2> QED
        BY <2>4, <2>5 DEF Browser
<1>3. wire' = wire \cup {r} /\ opening' = opening \ {m} /\ UNCHANGED <<asks, hop, listens, cut>>
    BY DEF Browses
<1> HIDE DEF r
<1>4. OpensShape'
    BY <1>0, <1>2, <1>3 DEF OpensShape
<1>5. Numbered' /\ OwnAnswer'
    BY <1>0, <1>3 DEF Numbered, OwnAnswer
<1>6. Tagged'
    BY <1>0, <1>1, <1>2, <1>3 DEF Tagged, Agent
<1>7. Relayed'
    BY <1>0, <1>2, <1>3 DEF Relayed
<1> QED
    BY <1>4, <1>5, <1>6, <1>7 DEF RoutingInv

(* An event is taken at the other end: by a browser, by the next daemon,   *)
(* or by nobody.                                                           *)
LEMMA TakenKeeps == ASSUME RoutingInv, NEW m \in wire, Taken(m) PROVE RoutingInv'
<1>0. OpensShape /\ Numbered /\ Tagged /\ Relayed /\ OwnAnswer
    BY DEF RoutingInv
<1>1. m \in Messages /\ m.side = "event" /\ m.d # Agent /\ m.d \in Daemons /\ m.url \in Asks
    <2>1. m \in Messages /\ m.side = "event" /\ m.d # Agent
        BY <1>0 DEF OpensShape, Tagged, Taken
    <2> QED
        BY <2>1, DaemonsAre DEF Messages, Agent
<1>2. wire' = wire \ {m} /\ UNCHANGED <<asks, listens, cut>>
    BY DEF Taken
<1>3. CASE m.d = Last /\ Live(m)
    <2> DEFINE e == [m EXCEPT !.age = 0]
    <2>1. opening' = opening \cup {e} /\ hop' = hop
        BY <1>3, DaemonsAre DEF Taken
    <2>2. e \in Messages /\ e.side = "event" /\ e.d = m.d /\ e.url = m.url /\ e.id = m.id /\ e.sess = m.sess
        BY <1>1 DEF Messages
    <2> HIDE DEF e
    <2>3. OpensShape'
        BY <1>0, <1>2, <2>1, <2>2 DEF OpensShape
    <2>4. Numbered' /\ OwnAnswer'
        BY <1>0, <1>2, <2>1 DEF Numbered, OwnAnswer
    <2>5. Tagged'
        BY <1>0, <1>1, <1>2, <1>3, <2>1, <2>2 DEF Tagged
    <2>6. Relayed'
        BY <1>0, <1>2, <2>1 DEF Relayed
    <2> QED
        BY <2>3, <2>4, <2>5, <2>6 DEF RoutingInv
<1>4. CASE m.d < Last /\ Live(m)
    <2>1. m.d = 1 /\ Last = 2 /\ 2 \in Daemons /\ 1 \in Daemons
        BY <1>1, <1>4, DaemonsAre
    <2>2. opening' = opening /\ hop' = [hop EXCEPT ![m.url][2].at = "asked"]
        BY <1>4, <2>1 DEF Taken
    <2>3. Becomes(m.url, 2, Moved(m.url, 2, "asked"))
        <3>1. hop \in [Asks -> [Daemons -> Hops]] /\ "asked" \in Stages
            BY <1>0 DEF OpensShape, Stages
        <3> QED
            BY <1>1, <2>1, <2>2, <3>1, HopAt
    <2>4. hop[m.url][2].at = "none" /\ hop[m.url][1].id # 0
        BY <1>0, <1>1, <2>1 DEF Relayed, Tagged
    <2>5. \A n \in wire' : n.side = "event" /\ n.d = 1 => n.url # m.url
        BY <1>0, <1>1, <1>2, <2>1 DEF Relayed
    <2>6. asks' \in [Asks -> [at : {"none", "asked", "told"}, age : Nat, of : Asks \cup {NoOne}, by : 0..4]]
        BY <1>0, <1>2 DEF OpensShape
    <2>7. \A q \in Asks : /\ asks'[q].at = "none" => asks[q].at = "none" /\ (q # m.url \/ 2 # 1)
                          /\ asks'[q].of = asks[q].of
        BY <1>2
    <2>8. wire' \subseteq wire
        BY <1>2
    <2> QED
        BY <1>1, <1>2, <2>1, <2>2, <2>3, <2>4, <2>5, <2>6, <2>7, <2>8, StartsKeeps
<1>5. CASE ~Live(m)
    <2>1. opening' = opening /\ hop' = hop
        BY <1>5 DEF Taken
    <2>2. OpensShape' /\ Numbered' /\ Tagged' /\ Relayed' /\ OwnAnswer'
        BY <1>0, <1>2, <2>1 DEF OpensShape, Numbered, Tagged, Relayed, OwnAnswer
    <2> QED
        BY <2>2 DEF RoutingInv
<1> QED
    BY <1>1, <1>3, <1>4, <1>5, DaemonsAre

(* Every step keeps the account of whose answer is whose. *)
LEMMA RoutingStep == RoutingInv /\ [OpensNext]_opvars => RoutingInv'
<1> SUFFICES ASSUME RoutingInv, [OpensNext]_opvars PROVE RoutingInv'
    OBVIOUS
<1>0. OpensShape /\ Numbered /\ Tagged /\ Relayed /\ OwnAnswer
    BY DEF RoutingInv
<1>1. ASSUME NEW o \in Asks, GuestOpens(o) PROVE RoutingInv'
    <2>1. Becomes(o, 1, Moved(o, 1, "asked"))
        <3>1. hop \in [Asks -> [Daemons -> Hops]] /\ "asked" \in Stages
            BY <1>0 DEF OpensShape, Stages
        <3> QED
            BY <1>1, <3>1, HopAt, DaemonsAre DEF GuestOpens
    <2>2. asks[o].at = "none" /\ asks' = [asks EXCEPT ![o].at = "asked"] /\ UNCHANGED <<wire, opening, listens, cut>>
        BY <1>1 DEF GuestOpens
    <2>3. asks' \in [Asks -> [at : {"none", "asked", "told"}, age : Nat, of : Asks \cup {NoOne}, by : 0..4]]
        BY <1>0, <2>2 DEF OpensShape
    <2>4. \A q \in Asks : /\ asks'[q].at = "none" => asks[q].at = "none" /\ (q # o \/ 1 # 1)
                          /\ asks'[q].of = asks[q].of
        BY <1>0, <2>2 DEF OpensShape
    <2>5. hop[o][1].at = "none" /\ wire' \subseteq wire
        BY <1>0, <2>2 DEF Relayed
    <2> QED
        BY <2>1, <2>2, <2>3, <2>4, <2>5, DaemonsAre, StartsKeeps
<1>2. ASSUME NEW o \in Asks, AgentGivesUp(o) PROVE RoutingInv'
    <2>1. asks' = [asks EXCEPT ![o].at = "told", ![o].by = Agent] /\ UNCHANGED <<hop, wire, opening, listens, cut>>
        BY <1>2 DEF AgentGivesUp
    <2> DEFINE A == [at : {"none", "asked", "told"}, age : Nat, of : Asks \cup {NoOne}, by : 0..4]
               told == [asks EXCEPT ![o].at = "told"]
    <2>5. told \in [Asks -> A] /\ asks' = [told EXCEPT ![o].by = Agent]
        BY <1>0, <2>1 DEF OpensShape
    <2>6. \A q \in Asks : (told[q].at = "none" => asks[q].at = "none") /\ told[q].of = asks[q].of
        BY <1>0 DEF OpensShape
    <2> HIDE DEF told
    <2>2. asks' \in [Asks -> A]
        BY <2>5 DEF Agent
    <2>3. \A q \in Asks : /\ asks'[q].at = "none" => asks[q].at = "none"
                          /\ asks'[q].of \in {q, NoOne}
        BY <1>0, <2>5, <2>6 DEF OwnAnswer
    <2>4. \A d \in Daemons : listens'[d].next = listens[d].next /\ listens'[d].sess >= listens[d].sess
        BY <1>0, <2>1 DEF OpensShape
    <2> QED
        BY <1>0, <2>1, <2>2, <2>3, <2>4, LossKeeps DEF OpensShape
<1>3. ASSUME NEW o \in Asks, NEW d \in Daemons, hop[o][d].at # "none", Answers(o, d, o, d, wire),
             UNCHANGED <<asks, opening, listens, cut>>
      PROVE  RoutingInv'
    <2>1. d \in 1..4
        BY DaemonsAre
    <2>2. Settles("done", o, d, o, d, wire)
        BY <1>3 DEF Answers
    <2> QED
        BY <1>3, <2>1, <2>2, SettlesKeeps
<1>4. ASSUME NEW o \in Asks, NEW d \in Daemons, Choose(o, d) PROVE RoutingInv'
    <2>1. hop[o][d].at = "asked" /\ UNCHANGED <<asks, opening, listens, cut>>
        BY <1>4 DEF Choose
    <2>2. CASE Answers(o, d, o, d, wire)
        BY <1>3, <2>1, <2>2
    <2>3. ASSUME NEW at \in {"chosen", "bind"}, wire' = wire,
                 hop' = [hop EXCEPT ![o][d] = [@ EXCEPT !.at = at, !.sess = listens[d].sess]]
          PROVE  RoutingInv'
        <3> DEFINE h == [hop[o][d] EXCEPT !.at = at, !.sess = listens[d].sess]
        <3>1. at \in Stages /\ hop[o][d] \in Hops /\ listens[d].sess \in Nat
            BY <1>0, <2>3 DEF OpensShape, Stages
        <3>2. [hop[o][d] EXCEPT !.at = at] \in Hops
            BY <3>1 DEF Hops
        <3>3. h \in Hops /\ h.sess = listens[d].sess /\ h.id = hop[o][d].id
            BY <3>1, <3>2 DEF Hops
        <3>4. Becomes(o, d, h)
            BY <2>3 DEF Becomes
        <3>5. hop[o][d].id = 0
            BY <1>0, <2>1 DEF Numbered
        <3> HIDE DEF h
        <3>6. h.id = 0 /\ h.sess <= listens[d].sess /\ hop[o][d].at # "none"
            BY <2>1, <3>1, <3>3, <3>5
        <3> QED
            BY <2>1, <2>3, <3>3, <3>4, <3>5, <3>6, UnnumberedKeeps
    <2> QED
        BY <1>4, <2>2, <2>3 DEF Choose
<1>5. ASSUME NEW o \in Asks, NEW d \in Daemons, Bound(o, d) PROVE RoutingInv'
    <2>1. hop[o][d].at = "bind" /\ UNCHANGED <<asks, opening, listens, cut>>
        BY <1>5 DEF Bound
    <2>2. CASE Answers(o, d, o, d, wire)
        BY <1>3, <2>1, <2>2
    <2>3. CASE hop' = [hop EXCEPT ![o][d].at = "chosen", ![o][d].age = 0] /\ wire' = wire
        <3> DEFINE h == [hop[o][d] EXCEPT !.at = "chosen", !.age = 0]
        <3>1. hop[o][d] \in Hops /\ "chosen" \in Stages
            BY <1>0 DEF OpensShape, Stages
        <3>2. [hop[o][d] EXCEPT !.at = "chosen"] \in Hops
            BY <3>1 DEF Hops
        <3>3. h \in Hops /\ h.sess = hop[o][d].sess /\ h.id = hop[o][d].id
            BY <3>1, <3>2 DEF Hops
        <3>4. Becomes(o, d, h)
            BY <2>3 DEF Becomes
        <3>5. hop[o][d].id = 0 /\ hop[o][d].sess <= listens[d].sess
            BY <1>0, <2>1 DEF Numbered
        <3> HIDE DEF h
        <3>6. h.id = 0 /\ h.sess <= listens[d].sess /\ hop[o][d].at # "none"
            BY <2>1, <3>3, <3>5
        <3> QED
            BY <2>1, <2>3, <3>3, <3>4, <3>5, <3>6, UnnumberedKeeps
    <2> QED
        BY <1>5, <2>2, <2>3 DEF Bound
<1>6. ASSUME NEW o \in Asks, NEW d \in Daemons, Deliver(o, d) PROVE RoutingInv'
    <2>1. hop[o][d].at = "chosen" /\ UNCHANGED <<asks, opening, cut>>
        BY <1>6 DEF Deliver
    <2>2. CASE listens[d].on /\ listens[d].sess = hop[o][d].sess
        <3>1. Becomes(o, d, [hop[o][d] EXCEPT !.at = "sent", !.age = 0, !.id = EventId(d)])
            BY <1>6, <2>2 DEF Deliver, Becomes
        <3>2. listens' = [listens EXCEPT ![d].next = EventId(d)]
            BY <1>6, <2>2 DEF Deliver, EventId
        <3>3. wire' \subseteq wire \cup {[side |-> "event", d |-> d, url |-> o, by |-> NoOne, age |-> 0,
                                           id |-> EventId(d), sess |-> hop[o][d].sess]}
            BY <1>6, <2>2 DEF Deliver, Sends
        <3> QED
            BY <2>1, <2>2, <3>1, <3>2, <3>3, SentKeeps
    <2>3. CASE ~(listens[d].on /\ listens[d].sess = hop[o][d].sess)
        <3>1. Answers(o, d, o, d, wire) /\ UNCHANGED listens
            BY <1>6, <2>3 DEF Deliver
        <3> QED
            BY <1>3, <2>1, <3>1
    <2> QED
        BY <2>2, <2>3
<1>7. ASSUME NEW o \in Asks, NEW d \in Daemons, GivesUp(o, d) PROVE RoutingInv'
    <2>1. hop[o][d].at = "sent" /\ UNCHANGED <<asks, opening, listens, cut>>
        BY <1>7 DEF GivesUp
    <2>2. CASE Settles("late", o, d, o, d, wire)
        <3>1. d \in 1..4
            BY DaemonsAre
        <3> QED
            BY <2>1, <2>2, <3>1, SettlesKeeps
    <2>3. CASE Answers(o, d, o, d, wire)
        BY <1>3, <2>1, <2>3
    <2> QED
        BY <1>7, <2>2, <2>3 DEF GivesUp
<1>8. ASSUME NEW m \in wire, Routed(m) PROVE RoutingInv'
    <2>1. m.side = "reply" /\ m.d # Agent /\ UNCHANGED <<asks, opening, listens, cut>> /\ m \in Messages
        BY <1>0, <1>8 DEF Routed, OpensShape
    <2>2. m.d \in Daemons /\ m.url \in Asks /\ m.by \in 1..4 /\ m.id # 0 /\ hop[m.url][m.d].id = m.id
        <3>1. m.by \in 0..4 /\ m.by # 0
            BY <1>0, <2>1 DEF Tagged, Messages, Agent
        <3> QED
            BY <1>0, <2>1, <3>1, DaemonsAre DEF Messages, Agent, Tagged
    <2>3. CASE wire' = wire \ {m} /\ UNCHANGED hop
        <3>1. OpensShape' /\ Numbered' /\ Tagged' /\ Relayed' /\ OwnAnswer'
            BY <1>0, <2>1, <2>3 DEF OpensShape, Numbered, Tagged, Relayed, OwnAnswer
        <3> QED
            BY <3>1 DEF RoutingInv
    <2>4. ASSUME NEW o \in Asks, hop[o][m.d].at = "sent", hop[o][m.d].id = m.id, Answers(o, m.d, m.url, m.by, wire \ {m})
          PROVE  RoutingInv'
        <3>1. o = m.url
            BY <1>0, <2>2, <2>4 DEF Numbered
        <3>2. Settles("done", o, m.d, o, m.by, wire \ {m}) /\ wire \ {m} \subseteq wire
            BY <2>4, <3>1 DEF Answers
        <3> QED
            BY <2>1, <2>2, <2>4, <3>2, SettlesKeeps
    <2> QED
        BY <1>8, <2>3, <2>4 DEF Routed
<1>9. ASSUME NEW m \in wire, Told(m) PROVE RoutingInv'
    <2>1. m \in Messages /\ m.d = Agent /\ m.id = m.url /\ m.url \in Asks /\ m.by \in 0..4
        BY <1>0, <1>9 DEF Told, Tagged, OpensShape, Messages
    <2>2. /\ UNCHANGED <<hop, opening, listens, cut>> /\ wire' = wire \ {m}
          /\ asks' = IF asks[m.id].at = "asked"
                     THEN [asks EXCEPT ![m.id] = [@ EXCEPT !.at = "told", !.of = m.url, !.by = m.by]] ELSE asks
        BY <1>9 DEF Told
    <2> DEFINE a == [asks[m.url] EXCEPT !.at = "told", !.of = m.url, !.by = m.by]
               A == [at : {"none", "asked", "told"}, age : Nat, of : Asks \cup {NoOne}, by : 0..4]
    <2>3. a \in A /\ a.at = "told" /\ a.of = m.url
        <3>1. asks[m.url] \in A
            BY <1>0, <2>1 DEF OpensShape
        <3> QED
            BY <2>1, <3>1
    <2>4. asks' = asks \/ asks' = [asks EXCEPT ![m.url] = a]
        BY <2>1, <2>2
    <2>5. asks \in [Asks -> A]
        BY <1>0 DEF OpensShape
    <2> HIDE DEF a, A
    <2>6. asks' \in [Asks -> A]
        BY <2>1, <2>3, <2>4, <2>5
    <2>7. \A q \in Asks : /\ asks'[q].at = "none" => asks[q].at = "none"
                          /\ asks'[q].of \in {q, NoOne}
        BY <1>0, <2>1, <2>3, <2>4, <2>5 DEF OwnAnswer
    <2>8. \A d \in Daemons : listens'[d].next = listens[d].next /\ listens'[d].sess >= listens[d].sess
        BY <1>0, <2>2 DEF OpensShape
    <2>9. wire' \subseteq wire /\ opening' \subseteq opening /\ cut' \in BOOLEAN /\ hop' = hop
          /\ listens' \in [Daemons -> [sess : Nat, on : BOOLEAN, next : Nat]]
        BY <1>0, <2>2 DEF OpensShape
    <2> QED
        BY <2>6, <2>7, <2>8, <2>9, LossKeeps DEF A
<1>10. ASSUME NEW d \in Daemons, Drop(d) PROVE RoutingInv'
    <2>1. PICK on \in BOOLEAN : listens' = [listens EXCEPT ![d].sess = @ + 1, ![d].on = on]
        BY <1>10 DEF Drop
    <2>2. wire' \subseteq wire /\ opening' \subseteq opening /\ UNCHANGED <<asks, hop, cut>>
        BY <1>10 DEF Drop
    <2> DEFINE ended == [listens EXCEPT ![d].sess = @ + 1]
    <2>6. /\ ended \in [Daemons -> [sess : Nat, on : BOOLEAN, next : Nat]]
          /\ \A k \in Daemons : ended[k].next = listens[k].next /\ ended[k].sess >= listens[k].sess
          /\ listens' = [ended EXCEPT ![d].on = on]
        BY <1>0, <2>1 DEF OpensShape
    <2> HIDE DEF ended
    <2>3. listens' \in [Daemons -> [sess : Nat, on : BOOLEAN, next : Nat]]
        BY <2>6
    <2>4. \A k \in Daemons : listens'[k].next = listens[k].next /\ listens'[k].sess >= listens[k].sess
        BY <2>6
    <2>5. \A q \in Asks : /\ asks'[q].at = "none" => asks[q].at = "none"
                          /\ asks'[q].of \in {q, NoOne}
        BY <1>0, <2>2 DEF OwnAnswer
    <2> QED
        BY <1>0, <2>2, <2>3, <2>4, <2>5, LossKeeps DEF OpensShape
<1>11. ASSUME Cut PROVE RoutingInv'
    <2>1. wire' \subseteq wire /\ cut' = TRUE /\ UNCHANGED <<asks, hop, opening, listens>>
        BY <1>11 DEF Cut
    <2>2. \A q \in Asks : /\ asks'[q].at = "none" => asks[q].at = "none"
                          /\ asks'[q].of \in {q, NoOne}
        BY <1>0, <2>1 DEF OwnAnswer
    <2>3. \A k \in Daemons : listens'[k].next = listens[k].next /\ listens'[k].sess >= listens[k].sess
        BY <1>0, <2>1 DEF OpensShape
    <2> QED
        BY <1>0, <2>1, <2>2, <2>3, LossKeeps DEF OpensShape
<1>12. CASE UNCHANGED opvars
    <2>1. OpensShape' /\ Numbered' /\ Tagged' /\ Relayed' /\ OwnAnswer'
        BY <1>0, <1>12 DEF opvars, OpensShape, Numbered, Tagged, Relayed, OwnAnswer
    <2> QED
        BY <2>1 DEF RoutingInv
<1> QED
    BY <1>1, <1>2, <1>4, <1>5, <1>6, <1>7, <1>8, <1>9, <1>10, <1>11, <1>12, TickKeeps, TakenKeeps, BrowsesKeeps
       DEF OpensNext

(***************************************************************************)
(* What the guest is told is the answer to its own open: every message     *)
(* carries the number its open has on that session, no two opens share     *)
(* one, and a late answer finds its own handler or none.                   *)
(***************************************************************************)
THEOREM AnswersAreOnesOwn == OpensSpec => []OwnAnswer
<1>1. RoutingInv => OwnAnswer
    BY DEF RoutingInv
<1> QED
    BY RoutingInit, RoutingStep, <1>1, PTL DEF OpensSpec

(***************************************************************************)
(* An open that a step leaves alone has waited as long as before.          *)
(***************************************************************************)
LEMMA AgentFrame ==
    ASSUME NEW o \in Asks, AgentWaits(o), asks'[o].at = asks[o].at, asks'[o].age = asks[o].age, hop'[o][1] = hop[o][1],
           \A m \in wire : m.d = Agent /\ m.id = o => m \in wire'
    PROVE  AgentWaits(o)'
BY DEF AgentWaits, WaitOn, OwnBind

(* A relayed wait goes with its hop and its clocks. *)
LEMMA RelayFrame ==
    ASSUME NEW o \in Asks, RelayWaits(o), hop'[o][1] = hop[o][1], Last = 2 => hop'[o][2] = hop[o][2],
           Heard(o)' => Heard(o),
           hop[o][1].at = "sent" /\ Heard(o) => \A m \in wire : m.d = 1 /\ m.url = o => m \in wire'
    PROVE  RelayWaits(o)'
BY DEF RelayWaits

(* The clock's constants are natural numbers. *)
LEMMA WaitsAre == /\ SubWait \in Nat /\ RelayWait \in Nat /\ AgentWait \in Nat /\ BindTime \in Nat /\ Lag \in Nat
                  /\ OwnBind \in Nat /\ OwnBind <= BindTime /\ \A d \in Daemons : WaitOn(d) \in Nat
BY OpensAssumption DEF OwnBind, WaitOn

(* The ages are natural numbers too. *)
LEMMA AgesAre ==
    ASSUME RoutingInv
    PROVE  /\ \A o \in Asks : asks[o].age \in Nat
           /\ \A o \in Asks, d \in Daemons : hop[o][d].age \in Nat
           /\ \A m \in wire : m.age \in Nat
BY DEF RoutingInv, OpensShape, Hops, Messages

(* By the time a handler of daemon 1 answers, the agent has waited no      *)
(* longer than that handler's own bounds.                                  *)
LEMMA AgentHasWaited ==
    ASSUME RoutingInv, WaitsInv, NEW o \in Asks, asks[o].at = "asked", hop[o][1].at \in {"asked", "bind", "chosen", "sent"}
    PROVE  asks[o].age <= OwnBind + WaitOn(1)
<1>1. /\ asks[o].age \in Nat /\ hop[o][1].age \in Nat
      /\ OwnBind \in Nat /\ WaitOn(1) \in Nat /\ BindTime \in Nat
    BY AgesAre, WaitsAre, DaemonsAre
<1>2. AgentWaits(o) /\ Bounded
    BY DEF WaitsInv
<1>3. CASE hop[o][1].at = "asked"
    BY <1>1, <1>2, <1>3 DEF AgentWaits
<1>4. CASE hop[o][1].at = "bind"
    <2>1. asks[o].age <= hop[o][1].age /\ hop[o][1].age <= BindTime /\ Last = 1
        BY <1>2, <1>4, DaemonsAre DEF AgentWaits, Bounded
    <2>2. OwnBind = BindTime
        BY <2>1 DEF OwnBind
    <2> QED
        BY <1>1, <2>1, <2>2
<1>5. CASE hop[o][1].at = "chosen"
    BY <1>1, <1>2, <1>5 DEF AgentWaits
<1>6. CASE hop[o][1].at = "sent"
    <2>1. asks[o].age <= OwnBind + hop[o][1].age /\ hop[o][1].age <= WaitOn(1)
        BY <1>2, <1>6, DaemonsAre DEF AgentWaits, Bounded
    <2> QED
        BY <1>1, <2>1
<1> QED
    BY <1>3, <1>4, <1>5, <1>6

(* By the time a handler of daemon 2 answers, daemon 1 has waited no       *)
(* longer than the event took and that handler's own bounds.               *)
LEMMA RelayHasWaited ==
    ASSUME RoutingInv, WaitsInv, NEW o \in Asks, Last = 2, hop[o][1].at = "sent", Heard(o),
           hop[o][2].at \in {"asked", "bind", "chosen", "sent"}
    PROVE  hop[o][1].age <= Lag + BindTime + SubWait
<1>0. 1 \in Daemons /\ 2 \in Daemons
    BY DaemonsAre
<1>1. hop[o][1].age \in Nat /\ hop[o][2].age \in Nat /\ Lag \in Nat /\ BindTime \in Nat /\ SubWait \in Nat
    BY <1>0, AgesAre, WaitsAre
<1>2. RelayWaits(o) /\ Bounded
    BY DEF WaitsInv
<1>3. CASE hop[o][2].at = "asked"
    BY <1>1, <1>2, <1>3 DEF RelayWaits
<1>4. CASE hop[o][2].at = "bind"
    <2>1. hop[o][1].age <= Lag + hop[o][2].age /\ hop[o][2].age <= BindTime
        BY <1>0, <1>2, <1>4 DEF RelayWaits, Bounded
    <2> QED
        BY <1>1, <2>1
<1>5. CASE hop[o][2].at = "chosen"
    BY <1>1, <1>2, <1>5 DEF RelayWaits
<1>6. CASE hop[o][2].at = "sent"
    <2>1. hop[o][1].age <= Lag + BindTime + hop[o][2].age /\ hop[o][2].age <= SubWait
        BY <1>0, <1>2, <1>6 DEF RelayWaits, Bounded, WaitOn
    <2> QED
        BY <1>1, <2>1
<1> QED
    BY <1>3, <1>4, <1>5, <1>6

(* What an answer does to the waits: the one who hears it has waited no    *)
(* longer than he would have.                                              *)
LEMMA SettlesInTime ==
    ASSUME RoutingInv, WaitsInv, NEW o \in Asks, NEW d \in Daemons, NEW at \in {"done", "late"}, NEW by \in 1..4,
           NEW rest, rest \subseteq wire, hop[o][d].at \in {"asked", "bind", "chosen", "sent"},
           \A n \in wire : n.d = Agent \/ (n.d = 1 /\ (n.url # o \/ d = 2)) => n \in rest,
           at = "late" /\ d = 1 /\ Last = 2 => cut,
           Settles(at, o, d, o, by, rest), UNCHANGED <<asks, opening, listens, cut>>
    PROVE  WaitsInv'
<1> DEFINE r == Reply(o, d, o, by)
<1>0. OpensShape /\ Bounded /\ InnerFirst /\ (\A q \in Asks : AgentWaits(q) /\ RelayWaits(q)) /\ d \in {1, 2} /\ (d = 2 => Last = 2)
    BY DaemonsAre DEF RoutingInv, WaitsInv
<1>1. /\ hop'[o][d].at = at
      /\ \A q \in Asks, e \in Daemons : q # o \/ e # d => hop'[q][e] = hop[q][e]
    <2>1. hop \in [Asks -> [Daemons -> Hops]]
        BY <1>0 DEF OpensShape
    <2>2. hop' = [hop EXCEPT ![o][d].at = at]
        BY DEF Settles
    <2> QED
        BY <2>1, <2>2 DEF Hops
<1>2. /\ r \in Messages /\ r.side = "reply" /\ r.d = d - 1 /\ r.url = o /\ r.age = 0 /\ (d = 1 => r.id = o)
    BY ReplyIs
<1>3. wire' \subseteq wire \cup {r} /\ rest \subseteq wire'
    BY DEF Settles, Sends
<1>4. d = 1 \/ ~cut => r \in wire'
    BY <1>0, <1>2 DEF Settles, Sends, Crosses
<1> HIDE DEF r
<1>5. Bounded'
    <2>1. \A m \in wire' : m.age <= Lag
        BY <1>0, <1>2, <1>3, WaitsAre DEF Bounded
    <2>2. ASSUME NEW q \in Asks, NEW e \in Daemons
          PROVE  /\ hop'[q][e].at \in {"none", "asked"} => hop'[q][e].age = 0
                 /\ hop'[q][e].at = "bind" => hop'[q][e].age <= BindTime /\ e = Last
                 /\ hop'[q][e].at = "sent" => hop'[q][e].age <= WaitOn(e)
        <3>1. CASE q = o /\ e = d
            BY <1>1, <3>1
        <3>2. CASE q # o \/ e # d
            BY <1>0, <1>1, <3>2 DEF Bounded
        <3> QED
            BY <3>1, <3>2
    <2> QED
        BY <1>0, <2>1, <2>2 DEF Bounded, WaitOn
<1>6. ASSUME NEW q \in Asks PROVE AgentWaits(q)'
    <2>1. CASE q # o \/ d # 1
        <3>1. hop'[q][1] = hop[q][1] /\ \A m \in wire : m.d = Agent /\ m.id = q => m \in wire'
            BY <1>1, <1>3, <2>1, DaemonsAre
        <3> QED
            BY <1>0, <3>1, AgentFrame
    <2>2. CASE q = o /\ d = 1
        <3>1. asks[o].at = "asked" => asks[o].age <= OwnBind + WaitOn(1) + r.age
            BY <1>2, <2>2, AgentHasWaited, AgesAre, WaitsAre, DaemonsAre
        <3>2. r \in wire' /\ r.d = Agent /\ r.id = o
            BY <1>2, <1>4, <2>2 DEF Agent
        <3> QED
            BY <1>1, <2>2, <3>1, <3>2 DEF AgentWaits, WaitOn, OwnBind
    <2> QED
        BY <2>1, <2>2
<1>7. ASSUME NEW q \in Asks PROVE RelayWaits(q)'
    <2>1. CASE q # o
        <3>1. hop'[q][1] = hop[q][1] /\ (Last = 2 => hop'[q][2] = hop[q][2])
            BY <1>1, <2>1, DaemonsAre
        <3>2. Heard(q)' => Heard(q)
            BY <3>1 DEF Heard
        <3>3. \A m \in wire : m.d = 1 /\ m.url = q => m \in wire'
            BY <1>3, <2>1
        <3> QED
            BY <1>0, <3>1, <3>2, <3>3, RelayFrame
    <2>2. CASE q = o /\ d = 1
        BY <1>1, <2>2 DEF RelayWaits
    <2>3. CASE q = o /\ d = 2
        <3> SUFFICES ASSUME Last = 2, hop'[o][1].at = "sent", Heard(o)'
                     PROVE  \E m \in wire' : m.side = "reply" /\ m.d = 1 /\ m.url = o
                                             /\ hop'[o][1].age <= Lag + BindTime + SubWait + m.age
            BY <1>1, <2>3 DEF RelayWaits
        <3>1. hop'[o][1] = hop[o][1] /\ Heard(o)
            BY <1>1, <2>3, DaemonsAre DEF Heard
        <3>2. hop[o][1].age <= Lag + BindTime + SubWait + r.age
            BY <1>2, <2>3, <3>1, RelayHasWaited, AgesAre, WaitsAre, DaemonsAre
        <3>3. r \in wire'
            BY <1>4, <3>1 DEF Heard
        <3> QED
            BY <1>2, <2>3, <3>1, <3>2, <3>3
    <2> QED
        BY <1>0, <2>1, <2>2, <2>3
<1>8. InnerFirst'
    BY <1>0, <1>1, DaemonsAre DEF InnerFirst
<1> QED
    BY <1>5, <1>6, <1>7, <1>8 DEF WaitsInv

(* A handler that goes on, asks its subscriber or begins, with the sums    *)
(* that its new point needs.                                               *)
LEMMA MovesInTime ==
    ASSUME RoutingInv, WaitsInv, NEW o \in Asks, NEW d \in Daemons, NEW h \in Hops, Becomes(o, d, h),
           \A e \in Daemons : listens'[e].on = listens[e].on /\ listens'[e].sess = listens[e].sess,
           UNCHANGED <<opening, cut>>,
           \A m \in wire' : m \in wire \/ m.age = 0,
           \A m \in wire : m.d = Agent \/ (m.d = 1 /\ m.url # o) => m \in wire',
           \A q \in Asks : /\ asks'[q].age = asks[q].age /\ asks'[q].by = asks[q].by
                           /\ asks'[q].at = "none" => asks[q].at = "none"
                           /\ q # o \/ d # 1 => asks'[q].at = asks[q].at,
           /\ h.at \in {"none", "asked"} => h.age = 0
           /\ h.at = "bind" => h.age <= BindTime /\ d = Last
           /\ h.at = "sent" => h.age = 0,
           h.at \in {"asked", "bind", "chosen", "sent"},
           d = 1 /\ asks'[o].at = "asked" =>
               /\ h.at = "asked" => asks[o].age = 0
               /\ h.at = "bind" => asks[o].age <= h.age
               /\ h.at \in {"chosen", "sent"} => asks[o].age <= OwnBind,
           d = 1 /\ Last = 2 /\ h.at = "sent" /\ Heard(o)' =>
               hop[o][2].at = "none" /\ \E m \in wire' : m.side = "event" /\ m.d = 1 /\ m.url = o /\ m.age = 0,
           d = 2 /\ hop[o][1].at = "sent" /\ Heard(o) =>
               /\ h.at = "asked" => hop[o][1].age <= Lag
               /\ h.at = "bind" => hop[o][1].age <= Lag + h.age
               /\ h.at \in {"chosen", "sent"} => hop[o][1].age <= Lag + BindTime
    PROVE  WaitsInv'
<1>0. OpensShape /\ Bounded /\ InnerFirst /\ (\A q \in Asks : AgentWaits(q) /\ RelayWaits(q)) /\ d \in {1, 2} /\ (d = 2 => Last = 2)
    BY DaemonsAre DEF RoutingInv, WaitsInv
<1>1. /\ hop'[o][d] = h
      /\ \A q \in Asks, e \in Daemons : q # o \/ e # d => hop'[q][e] = hop[q][e]
    BY <1>0, HopSet DEF OpensShape
<1>5. Bounded'
    <2>1. \A m \in wire' : m.age <= Lag
        BY <1>0, WaitsAre DEF Bounded
    <2>2. ASSUME NEW q \in Asks, NEW e \in Daemons
          PROVE  /\ hop'[q][e].at \in {"none", "asked"} => hop'[q][e].age = 0
                 /\ hop'[q][e].at = "bind" => hop'[q][e].age <= BindTime /\ e = Last
                 /\ hop'[q][e].at = "sent" => hop'[q][e].age <= WaitOn(e)
        <3>1. CASE q = o /\ e = d
            BY <1>1, <3>1, WaitsAre
        <3>2. CASE q # o \/ e # d
            BY <1>0, <1>1, <3>2 DEF Bounded
        <3> QED
            BY <3>1, <3>2
    <2>3. \A m \in opening' : m.age = 0
        BY <1>0 DEF Bounded
    <2>4. \A q \in Asks : asks'[q].at = "none" => asks'[q].age = 0
        BY <1>0 DEF Bounded
    <2> QED
        BY <2>1, <2>2, <2>3, <2>4 DEF Bounded, WaitOn
<1>6. ASSUME NEW q \in Asks PROVE AgentWaits(q)'
    <2>1. CASE q # o \/ d # 1
        <3>1. hop'[q][1] = hop[q][1] /\ \A m \in wire : m.d = Agent /\ m.id = q => m \in wire'
            BY <1>1, <2>1, DaemonsAre
        <3> QED
            BY <1>0, <2>1, <3>1, AgentFrame
    <2>2. CASE q = o /\ d = 1
        <3>1. h.at = "sent" => OwnBind + h.age = OwnBind
            BY WaitsAre
        <3>2. asks'[o].age = asks[o].age /\ hop'[o][1] = h
            BY <1>1, <2>2
        <3> QED
            BY <1>1, <2>2, <3>1, <3>2 DEF AgentWaits, WaitOn, OwnBind
    <2> QED
        BY <2>1, <2>2
<1>7. ASSUME NEW q \in Asks PROVE RelayWaits(q)'
    <2>1. CASE q # o
        <3>1. hop'[q][1] = hop[q][1] /\ (Last = 2 => hop'[q][2] = hop[q][2])
            BY <1>1, <2>1, DaemonsAre
        <3>2. Heard(q)' => Heard(q)
            BY <3>1, DaemonsAre DEF Heard
        <3>3. \A m \in wire : m.d = 1 /\ m.url = q => m \in wire'
            BY <2>1
        <3> QED
            BY <1>0, <3>1, <3>2, <3>3, RelayFrame
    <2>2. CASE q = o /\ d = 1
        <3> SUFFICES ASSUME Last = 2, h.at = "sent", Heard(o)'
                     PROVE  /\ hop'[o][2].at = "none"
                            /\ \E m \in wire' : m.side = "event" /\ m.d = 1 /\ m.url = o /\ hop'[o][1].age <= m.age
            BY <1>1, <2>2 DEF RelayWaits
        <3>1. hop'[o][2].at = "none" /\ h.age = 0
            BY <1>1, <2>2, DaemonsAre
        <3>2. PICK m \in wire' : m.side = "event" /\ m.d = 1 /\ m.url = o /\ m.age = 0
            BY <2>2
        <3> QED
            BY <1>1, <2>2, <3>1, <3>2
    <2>3. CASE q = o /\ d = 2
        <3>1. hop'[o][1] = hop[o][1] /\ (Heard(o)' => Heard(o))
            BY <1>1, <2>3, DaemonsAre DEF Heard
        <3>2. h.at = "sent" => Lag + BindTime + h.age = Lag + BindTime
            BY WaitsAre
        <3> QED
            BY <1>1, <2>3, <3>1, <3>2 DEF RelayWaits
    <2> QED
        BY <1>0, <2>1, <2>2, <2>3
<1>8. InnerFirst'
    BY <1>0, <1>1, DaemonsAre DEF InnerFirst
<1> QED
    BY <1>5, <1>6, <1>7, <1>8 DEF WaitsInv

(* A step that no handler makes: a message taken, a session or the link    *)
(* lost.  Nobody who still listens loses what he waits for.                *)
LEMMA QuietInTime ==
    ASSUME RoutingInv, WaitsInv, hop' = hop, cut => cut',
           \A m \in wire' : m \in wire \/ m.age = 0,
           \A m \in opening' : m.age = 0,
           \A o \in Asks : /\ asks'[o].age = asks[o].age /\ asks'[o].by # Agent
                           /\ asks'[o].at = "none" => asks[o].at = "none"
                           /\ asks'[o].at = "asked" =>
                                 asks[o].at = "asked" /\ \A m \in wire : m.d = Agent /\ m.id = o => m \in wire',
           \A o \in Asks : Last = 2 /\ hop[o][1].at = "sent" /\ Heard(o)' =>
               Heard(o) /\ \A m \in wire : m.d = 1 /\ m.url = o => m \in wire'
    PROVE  WaitsInv'
<1>0. Bounded /\ InnerFirst /\ (\A q \in Asks : AgentWaits(q) /\ RelayWaits(q))
    BY DEF WaitsInv
<1>1. Bounded'
    BY <1>0, WaitsAre DEF Bounded, WaitOn
<1>2. ASSUME NEW o \in Asks PROVE AgentWaits(o)'
    <2>1. CASE asks'[o].at = "asked"
        BY <1>0, <2>1, AgentFrame
    <2>2. CASE asks'[o].at # "asked"
        BY <2>2 DEF AgentWaits
    <2> QED
        BY <2>1, <2>2
<1>3. ASSUME NEW o \in Asks PROVE RelayWaits(o)'
    <2>1. CASE Last = 2 /\ hop[o][1].at = "sent" /\ Heard(o)'
        BY <1>0, <2>1, RelayFrame
    <2>2. CASE ~(Last = 2 /\ hop[o][1].at = "sent" /\ Heard(o)')
        BY <2>2 DEF RelayWaits
    <2> QED
        BY <2>1, <2>2
<1>4. InnerFirst'
    BY <1>0 DEF InnerFirst
<1> QED
    BY <1>1, <1>2, <1>3, <1>4 DEF WaitsInv

(* The agent hears from daemon 1 before its own time is up.                *)
LEMMA AgentInTime ==
    ASSUME RoutingInv, WaitsInv, NEW o \in Asks, asks[o].at = "asked"
    PROVE  asks[o].age < AgentWait
<1>1. /\ asks[o].age \in Nat /\ OwnBind \in Nat /\ WaitOn(1) \in Nat
      /\ Lag \in Nat /\ BindTime \in Nat /\ AgentWait \in Nat /\ SubWait \in Nat /\ RelayWait \in Nat
    BY AgesAre, WaitsAre, DaemonsAre
<1>2. OwnBind + WaitOn(1) + Lag < AgentWait
    <2>1. CASE Last = 1
        BY <1>1, <2>1, WaitsAssumption DEF OwnBind, WaitOn
    <2>2. CASE Last = 2
        BY <1>1, <2>2, WaitsAssumption DEF OwnBind, WaitOn
    <2> QED
        BY <2>1, <2>2, DaemonsAre
<1>3. hop[o][1].at \in Stages /\ AgentWaits(o) /\ Bounded
    BY DaemonsAre DEF RoutingInv, OpensShape, Hops, WaitsInv
<1>4. CASE hop[o][1].at \in {"asked", "bind", "chosen", "sent"}
    BY <1>1, <1>2, <1>4, AgentHasWaited
<1>5. CASE hop[o][1].at \in {"done", "late"}
    <2>1. PICK m \in wire : m.d = Agent /\ m.id = o /\ asks[o].age <= OwnBind + WaitOn(1) + m.age
        BY <1>3, <1>5 DEF AgentWaits
    <2>2. m.age <= Lag /\ m.age \in Nat
        BY <1>3, AgesAre DEF Bounded
    <2> QED
        BY <1>1, <1>2, <2>1, <2>2
<1> QED
    BY <1>3, <1>4, <1>5 DEF AgentWaits, Stages

(* And daemon 1 hears from daemon 2, while their session and their link    *)
(* last.                                                                   *)
LEMMA RelayInTime ==
    ASSUME RoutingInv, WaitsInv, NEW o \in Asks, Last = 2, hop[o][1].at = "sent", Heard(o)
    PROVE  hop[o][1].age < RelayWait
<1>0. 1 \in Daemons /\ 2 \in Daemons
    BY DaemonsAre
<1>1. hop[o][1].age \in Nat /\ Lag \in Nat /\ BindTime \in Nat /\ SubWait \in Nat /\ RelayWait \in Nat
    BY <1>0, AgesAre, WaitsAre
<1>2. hop[o][2].at \in Stages /\ RelayWaits(o) /\ Bounded
    BY <1>0 DEF RoutingInv, OpensShape, Hops, WaitsInv
<1>3. CASE hop[o][2].at \in {"asked", "bind", "chosen", "sent"}
    BY <1>1, <1>3, RelayHasWaited, WaitsAssumption
<1>4. CASE hop[o][2].at = "none"
    <2>1. PICK m \in wire : hop[o][1].age <= m.age
        BY <1>2, <1>4 DEF RelayWaits
    <2>2. m.age <= Lag /\ m.age \in Nat
        BY <1>2, AgesAre DEF Bounded
    <2> QED
        BY <1>1, <2>1, <2>2, WaitsAssumption
<1>5. CASE hop[o][2].at \in {"done", "late"}
    <2>1. PICK m \in wire : hop[o][1].age <= Lag + BindTime + SubWait + m.age
        BY <1>2, <1>5 DEF RelayWaits
    <2>2. m.age <= Lag /\ m.age \in Nat
        BY <1>2, AgesAre DEF Bounded
    <2> QED
        BY <1>1, <2>1, <2>2, WaitsAssumption
<1> QED
    BY <1>2, <1>3, <1>4, <1>5 DEF Stages

(* The clock makes every wait a tick longer, and its guards keep each      *)
(* within its bound.                                                       *)
LEMMA TickInTime == ASSUME RoutingInv, WaitsInv, Tick PROVE WaitsInv'
<1>0. OpensShape /\ Bounded /\ InnerFirst /\ (\A q \in Asks : AgentWaits(q) /\ RelayWaits(q)) /\ UNCHANGED <<opening, listens, cut>>
    BY DEF RoutingInv, WaitsInv, Tick
<1>1. /\ \A m \in wire' : \E n \in wire : SameBut(m, n) /\ m.age = n.age + 1
      /\ \A n \in wire : \E m \in wire' : SameBut(m, n) /\ m.age = n.age + 1
      /\ \A o \in Asks : /\ asks'[o].at = asks[o].at /\ asks'[o].by = asks[o].by
                         /\ asks'[o].age = IF asks[o].at = "asked" THEN asks[o].age + 1 ELSE asks[o].age
      /\ \A o \in Asks, d \in Daemons :
            /\ hop'[o][d].at = hop[o][d].at /\ hop'[o][d].sess = hop[o][d].sess
            /\ hop'[o][d].age = IF hop[o][d].at \in {"bind", "sent"} THEN hop[o][d].age + 1 ELSE hop[o][d].age
    BY <1>0, TickIs
<1>2. /\ \A m \in wire : m.age < Lag
      /\ \A o \in Asks, d \in Daemons :
            /\ hop[o][d].at \notin {"asked", "chosen"}
            /\ hop[o][d].at = "bind" => hop[o][d].age < BindTime
            /\ hop[o][d].at = "sent" => hop[o][d].age < WaitOn(d)
    BY DEF Tick
<1>3. Bounded'
    <2>1. ASSUME NEW m \in wire' PROVE m.age <= Lag
        BY <1>1, <1>2, AgesAre, WaitsAre
    <2>2. \A o \in Asks : asks'[o].at = "none" => asks'[o].age = 0
        BY <1>0, <1>1 DEF Bounded
    <2>3. ASSUME NEW q \in Asks, NEW e \in Daemons
          PROVE  /\ hop'[q][e].at \in {"none", "asked"} => hop'[q][e].age = 0
                 /\ hop'[q][e].at = "bind" => hop'[q][e].age <= BindTime /\ e = Last
                 /\ hop'[q][e].at = "sent" => hop'[q][e].age <= WaitOn(e)
        <3>1. hop[q][e].age \in Nat /\ WaitOn(e) \in Nat /\ BindTime \in Nat
            BY AgesAre, WaitsAre
        <3> QED
            BY <1>0, <1>1, <1>2, <3>1 DEF Bounded
    <2> QED
        BY <1>0, <2>1, <2>2, <2>3 DEF Bounded, WaitOn
<1>4. ASSUME NEW o \in Asks PROVE AgentWaits(o)'
    <2> SUFFICES ASSUME asks[o].at = "asked" PROVE AgentWaits(o)'
        BY <1>1 DEF AgentWaits
    <2>1. /\ asks'[o].age = asks[o].age + 1 /\ asks[o].age \in Nat /\ hop[o][1].age \in Nat /\ OwnBind \in Nat
          /\ WaitOn(1) \in Nat /\ hop[o][1].at \notin {"asked", "chosen"} /\ hop'[o][1].at = hop[o][1].at
          /\ hop'[o][1].age = IF hop[o][1].at \in {"bind", "sent"} THEN hop[o][1].age + 1 ELSE hop[o][1].age
        BY <1>1, <1>2, AgesAre, WaitsAre, DaemonsAre
    <2>2. AgentWaits(o)
        BY <1>0
    <2>3. hop[o][1].at # "none"
        BY <2>2 DEF AgentWaits
    <2>4. hop[o][1].at = "bind" => asks'[o].age <= hop'[o][1].age
        BY <2>1, <2>2 DEF AgentWaits
    <2>5. hop[o][1].at = "sent" => asks'[o].age <= OwnBind + hop'[o][1].age
        BY <2>1, <2>2 DEF AgentWaits
    <2>6. ASSUME hop[o][1].at \in {"done", "late"}
          PROVE  \E m \in wire' : m.d = Agent /\ m.id = o /\ asks'[o].age <= OwnBind + WaitOn(1) + m.age
        <3>1. PICK n \in wire : n.d = Agent /\ n.id = o /\ asks[o].age <= OwnBind + WaitOn(1) + n.age
            BY <2>2, <2>6 DEF AgentWaits
        <3>2. PICK m \in wire' : SameBut(m, n) /\ m.age = n.age + 1
            BY <1>1
        <3>3. asks'[o].age <= OwnBind + WaitOn(1) + m.age
            BY <2>1, <3>1, <3>2, AgesAre
        <3> QED
            BY <3>1, <3>2, <3>3 DEF SameBut
    <2> QED
        BY <2>1, <2>3, <2>4, <2>5, <2>6 DEF AgentWaits, OwnBind, WaitOn
<1>5. ASSUME NEW o \in Asks PROVE RelayWaits(o)'
    <2> SUFFICES ASSUME Last = 2, hop[o][1].at = "sent", Heard(o) PROVE RelayWaits(o)'
        BY <1>0, <1>1, DaemonsAre DEF RelayWaits, Heard
    <2>0. 1 \in Daemons /\ 2 \in Daemons
        BY DaemonsAre
    <2>1. /\ hop'[o][1].age = hop[o][1].age + 1 /\ hop[o][1].age \in Nat /\ hop[o][2].age \in Nat
          /\ Lag \in Nat /\ BindTime \in Nat /\ SubWait \in Nat
          /\ hop[o][2].at \notin {"asked", "chosen"} /\ hop'[o][2].at = hop[o][2].at
          /\ hop'[o][2].age = IF hop[o][2].at \in {"bind", "sent"} THEN hop[o][2].age + 1 ELSE hop[o][2].age
        BY <1>1, <1>2, <2>0, AgesAre, WaitsAre
    <2>2. RelayWaits(o)
        BY <1>0
    <2>3. ASSUME hop[o][2].at = "none"
          PROVE  \E m \in wire' : m.side = "event" /\ m.d = 1 /\ m.url = o /\ hop'[o][1].age <= m.age
        <3>1. PICK n \in wire : n.side = "event" /\ n.d = 1 /\ n.url = o /\ hop[o][1].age <= n.age
            BY <2>2, <2>3 DEF RelayWaits
        <3>2. PICK m \in wire' : SameBut(m, n) /\ m.age = n.age + 1
            BY <1>1
        <3>3. hop'[o][1].age <= m.age
            BY <2>1, <3>1, <3>2, AgesAre
        <3> QED
            BY <3>1, <3>2, <3>3 DEF SameBut
    <2>4. hop[o][2].at = "bind" => hop'[o][1].age <= Lag + hop'[o][2].age
        BY <2>1, <2>2 DEF RelayWaits
    <2>5. hop[o][2].at = "sent" => hop'[o][1].age <= Lag + BindTime + hop'[o][2].age
        BY <2>1, <2>2 DEF RelayWaits
    <2>6. ASSUME hop[o][2].at \in {"done", "late"}
          PROVE  \E m \in wire' : m.side = "reply" /\ m.d = 1 /\ m.url = o
                                  /\ hop'[o][1].age <= Lag + BindTime + SubWait + m.age
        <3>1. PICK n \in wire : n.side = "reply" /\ n.d = 1 /\ n.url = o /\ hop[o][1].age <= Lag + BindTime + SubWait + n.age
            BY <2>2, <2>6 DEF RelayWaits
        <3>2. PICK m \in wire' : SameBut(m, n) /\ m.age = n.age + 1
            BY <1>1
        <3>3. hop'[o][1].age <= Lag + BindTime + SubWait + m.age
            BY <2>1, <3>1, <3>2, AgesAre
        <3> QED
            BY <3>1, <3>2, <3>3 DEF SameBut
    <2> QED
        BY <2>1, <2>3, <2>4, <2>5, <2>6 DEF RelayWaits
<1>6. InnerFirst'
    BY <1>0, <1>1, DaemonsAre DEF InnerFirst
<1> QED
    BY <1>3, <1>4, <1>5, <1>6 DEF WaitsInv

(* Nothing waits at first. *)
LEMMA WaitsInit == OpensInit => WaitsInv
<1> SUFFICES ASSUME OpensInit PROVE WaitsInv
    OBVIOUS
<1>1. \A o \in Asks : asks[o].at = "none" /\ asks[o].age = 0 /\ asks[o].by = 4
    BY DEF OpensInit, NoAsk, NoOne
<1>2. \A o \in Asks, d \in Daemons : hop[o][d].at = "none" /\ hop[o][d].age = 0
    BY DEF OpensInit, NoHop
<1>3. wire = {} /\ opening = {}
    BY DEF OpensInit
<1>4. Bounded
    BY <1>1, <1>2, <1>3 DEF Bounded
<1>5. \A o \in Asks : AgentWaits(o) /\ RelayWaits(o)
    BY <1>1, <1>2, DaemonsAre DEF AgentWaits, RelayWaits
<1>6. InnerFirst
    BY <1>1, <1>2, DaemonsAre DEF InnerFirst, Agent
<1> QED
    BY <1>4, <1>5, <1>6 DEF WaitsInv

(* Every step of a handler keeps the sums. *)
LEMMA HandlerInTime ==
    ASSUME RoutingInv, WaitsInv, NEW o \in Asks, NEW d \in Daemons,
           Choose(o, d) \/ Bound(o, d) \/ Deliver(o, d) \/ GivesUp(o, d)
    PROVE  WaitsInv'
<1>0. /\ OpensShape /\ Numbered /\ Relayed /\ Bounded /\ (\A q \in Asks : AgentWaits(q) /\ RelayWaits(q))
      /\ d \in {1, 2} /\ (d = 2 => Last = 2) /\ hop[o][d] \in Hops
      /\ BindTime \in Nat /\ OwnBind \in Nat /\ Lag \in Nat
    BY DaemonsAre, WaitsAre DEF RoutingInv, WaitsInv, OpensShape
<1>1. ASSUME NEW at \in {"done", "late"}, Settles(at, o, d, o, d, wire), UNCHANGED <<asks, opening, listens, cut>>,
             hop[o][d].at \in {"asked", "bind", "chosen", "sent"}, at = "late" /\ d = 1 /\ Last = 2 => cut
      PROVE  WaitsInv'
    <2>1. d \in 1..4
        BY <1>0
    <2> QED
        BY <1>1, <2>1, SettlesInTime
<1>2. ASSUME Answers(o, d, o, d, wire), UNCHANGED <<asks, opening, listens, cut>>,
             hop[o][d].at \in {"asked", "bind", "chosen", "sent"}
      PROVE  WaitsInv'
    BY <1>1, <1>2 DEF Answers
<1>3. CASE Choose(o, d)
    <2>1. hop[o][d].at = "asked" /\ UNCHANGED <<asks, opening, listens, cut>> /\ hop[o][d].age = 0
        BY <1>0, <1>3 DEF Choose, Bounded
    <2>2. CASE Answers(o, d, o, d, wire)
        BY <1>2, <2>1, <2>2
    <2>3. ASSUME NEW at \in {"chosen", "bind"}, at = "bind" => d = Last, wire' = wire,
                 hop' = [hop EXCEPT ![o][d] = [@ EXCEPT !.at = at, !.sess = listens[d].sess]]
          PROVE  WaitsInv'
        <3> DEFINE h == [hop[o][d] EXCEPT !.at = at, !.sess = listens[d].sess]
        <3>1. at \in Stages /\ listens[d].sess \in Nat
            BY <1>0, <2>3 DEF OpensShape, Stages
        <3>2. [hop[o][d] EXCEPT !.at = at] \in Hops
            BY <1>0, <3>1 DEF Hops
        <3>3. h \in Hops /\ h.at = at /\ h.age = 0
            BY <1>0, <2>1, <3>1, <3>2 DEF Hops
        <3>4. Becomes(o, d, h)
            BY <2>3 DEF Becomes
        <3> HIDE DEF h
        <3>5. d = 1 /\ asks[o].at = "asked" => asks[o].age = 0
            BY <1>0, <2>1 DEF AgentWaits
        <3>6. d = 2 /\ hop[o][1].at = "sent" /\ Heard(o) => hop[o][1].age <= Lag
            BY <1>0, <2>1 DEF RelayWaits
        <3>7. d = 2 /\ hop[o][1].at = "sent" /\ Heard(o) => hop[o][1].age <= Lag + h.age /\ hop[o][1].age <= Lag + BindTime
            <4>1. d = 2 => hop[o][1].age \in Nat
                BY AgesAre, DaemonsAre
            <4> QED
                BY <1>0, <3>3, <3>6, <4>1
        <3>8. \A m \in wire : m \in wire'
            BY <2>3
        <3>9. /\ d = 1 /\ asks[o].at = "asked" =>
                    (h.at = "bind" => asks[o].age <= h.age) /\ asks[o].age <= OwnBind
              /\ h.at = "bind" => h.age <= BindTime /\ d = Last
            BY <1>0, <2>3, <3>3, <3>5
        <3>10. h.at \in {"chosen", "bind"}
            BY <3>3
        <3>11. asks' = asks
            BY <2>1
        <3> QED
            BY <2>1, <2>3, <3>3, <3>4, <3>7, <3>8, <3>9, <3>10, <3>11, MovesInTime
    <2> QED
        BY <1>3, <2>2, <2>3 DEF Choose
<1>4. CASE Bound(o, d)
    <2>1. hop[o][d].at = "bind" /\ UNCHANGED <<asks, opening, listens, cut>> /\ hop[o][d].age <= BindTime /\ d = Last
        BY <1>0, <1>4 DEF Bound, Bounded
    <2>2. CASE Answers(o, d, o, d, wire)
        BY <1>2, <2>1, <2>2
    <2>3. CASE hop' = [hop EXCEPT ![o][d].at = "chosen", ![o][d].age = 0] /\ wire' = wire
        <3> DEFINE h == [hop[o][d] EXCEPT !.at = "chosen", !.age = 0]
        <3>1. [hop[o][d] EXCEPT !.at = "chosen"] \in Hops
            BY <1>0 DEF Hops, Stages
        <3>2. h \in Hops /\ h.at = "chosen" /\ h.age = 0
            BY <1>0, <3>1 DEF Hops
        <3>3. Becomes(o, d, h)
            BY <2>3 DEF Becomes
        <3> HIDE DEF h
        <3>4. d = 1 /\ asks[o].at = "asked" => asks[o].age <= OwnBind
            <4>1. d = 1 /\ asks[o].at = "asked" => asks[o].age <= hop[o][1].age /\ hop[o][1].age <= BindTime
                BY <1>0, <2>1 DEF AgentWaits
            <4>2. d = 1 => OwnBind = BindTime /\ hop[o][1].age \in Nat
                BY <2>1, AgesAre, DaemonsAre DEF OwnBind
            <4> QED
                BY <1>0, <4>1, <4>2, AgesAre
        <3>5. d = 2 /\ hop[o][1].at = "sent" /\ Heard(o) => hop[o][1].age <= Lag + BindTime
            <4>1. d = 2 /\ hop[o][1].at = "sent" /\ Heard(o) => hop[o][1].age <= Lag + hop[o][2].age /\ hop[o][2].age <= BindTime
                BY <1>0, <2>1 DEF RelayWaits
            <4>2. d = 2 => hop[o][1].age \in Nat /\ hop[o][2].age \in Nat
                BY AgesAre, DaemonsAre
            <4> QED
                BY <1>0, <4>1, <4>2
        <3>6. asks' = asks /\ \A m \in wire : m \in wire'
            BY <2>1, <2>3
        <3> QED
            BY <2>1, <2>3, <3>2, <3>3, <3>4, <3>5, <3>6, MovesInTime
    <2> QED
        BY <1>4, <2>2, <2>3 DEF Bound
<1>5. CASE Deliver(o, d)
    <2>1. hop[o][d].at = "chosen" /\ UNCHANGED <<asks, opening, cut>>
        BY <1>5 DEF Deliver
    <2>2. CASE listens[d].on /\ listens[d].sess = hop[o][d].sess
        <3> DEFINE h == [hop[o][d] EXCEPT !.at = "sent", !.age = 0, !.id = EventId(d)]
                   e == [side |-> "event", d |-> d, url |-> o, by |-> NoOne, age |-> 0,
                         id |-> EventId(d), sess |-> hop[o][d].sess]
        <3>1. h \in Hops /\ h.at = "sent" /\ h.age = 0 /\ h.sess = hop[o][d].sess
            <4>1. EventId(d) \in Nat
                BY <1>0 DEF EventId, OpensShape
            <4> HIDE DEF EventId
            <4>2. [hop[o][d] EXCEPT !.at = "sent"] \in Hops
                BY <1>0 DEF Hops, Stages
            <4>3. [hop[o][d] EXCEPT !.at = "sent", !.age = 0] \in Hops
                BY <4>2 DEF Hops
            <4>4. h \in Hops
                BY <4>1, <4>3 DEF Hops
            <4> QED
                BY <1>0, <4>4 DEF Hops
        <3>2. Becomes(o, d, h)
            BY <1>5, <2>2 DEF Deliver, Becomes
        <3>3. wire' = wire \cup Sends({e}) /\ listens' = [listens EXCEPT ![d].next = @ + 1]
            BY <1>5, <2>2 DEF Deliver
        <3>4. e.side = "event" /\ e.d = d /\ e.url = o /\ e.age = 0
            OBVIOUS
        <3> HIDE DEF h, e
        <3>5. wire' \subseteq wire \cup {e} /\ wire \subseteq wire'
            BY <3>3 DEF Sends
        <3>6. \A k \in Daemons : listens'[k].on = listens[k].on /\ listens'[k].sess = listens[k].sess
            BY <1>0, <3>3 DEF OpensShape
        <3>7. d = 1 /\ asks'[o].at = "asked" => asks[o].age <= OwnBind
            BY <1>0, <2>1 DEF AgentWaits
        <3>8. d = 2 /\ hop[o][1].at = "sent" /\ Heard(o) => hop[o][1].age <= Lag + BindTime
            BY <1>0, <2>1 DEF RelayWaits
        <3>9. d = 1 /\ Last = 2 /\ Heard(o)' =>
                  hop[o][2].at = "none" /\ \E m \in wire' : m.side = "event" /\ m.d = 1 /\ m.url = o /\ m.age = 0
            <4>1. d = 1 /\ Last = 2 => hop[o][2].at = "none"
                BY <1>0, <2>1 DEF Numbered, Relayed
            <4>2. Heard(o)' => e \in wire'
                BY <2>1, <3>3 DEF Heard, Sends
            <4> QED
                BY <3>4, <4>1, <4>2
        <3>10. asks' = asks /\ (\A m \in wire' : m \in wire \/ m.age = 0) /\ \A m \in wire : m \in wire'
            BY <2>1, <3>4, <3>5
        <3>11. UNCHANGED <<opening, cut>>
            BY <2>1
        <3> QED
            BY <3>1, <3>2, <3>6, <3>7, <3>8, <3>9, <3>10, <3>11, MovesInTime
    <2>3. CASE ~(listens[d].on /\ listens[d].sess = hop[o][d].sess)
        <3>1. Answers(o, d, o, d, wire) /\ UNCHANGED listens
            BY <1>5, <2>3 DEF Deliver
        <3> QED
            BY <1>2, <2>1, <3>1
    <2> QED
        BY <2>2, <2>3
<1>6. CASE GivesUp(o, d)
    <2>1. hop[o][d].at = "sent" /\ UNCHANGED <<asks, opening, listens, cut>>
        BY <1>6 DEF GivesUp
    <2>2. CASE listens[d].on /\ listens[d].sess = hop[o][d].sess
        <3>1. hop[o][d].age >= WaitOn(d) /\ Settles("late", o, d, o, d, wire)
            BY <1>6, <2>2 DEF GivesUp
        <3>2. ASSUME d = 1, Last = 2 PROVE cut
            <4>1. hop[o][1].age >= RelayWait /\ hop[o][1].age \in Nat /\ RelayWait \in Nat
                BY <3>1, <3>2, AgesAre, WaitsAre, DaemonsAre DEF WaitOn
            <4>2. ~Heard(o)
                BY <2>1, <3>2, <4>1, RelayInTime
            <4>3. cut \in BOOLEAN
                BY <1>0 DEF OpensShape
            <4> QED
                BY <2>2, <3>2, <4>2, <4>3 DEF Heard
        <3> QED
            BY <1>1, <2>1, <3>1, <3>2
    <2>3. CASE ~(listens[d].on /\ listens[d].sess = hop[o][d].sess)
        <3>1. Answers(o, d, o, d, wire)
            BY <1>6, <2>3 DEF GivesUp
        <3> QED
            BY <1>2, <2>1, <3>1
    <2> QED
        BY <2>2, <2>3
<1> QED
    BY <1>3, <1>4, <1>5, <1>6

(* So does every message taken. *)
LEMMA MessageInTime ==
    ASSUME RoutingInv, WaitsInv,
           \/ \E m \in wire : Routed(m) \/ Taken(m) \/ Told(m)
           \/ \E m \in opening : Browses(m)
    PROVE  WaitsInv'
<1>0. /\ OpensShape /\ Numbered /\ Tagged /\ Relayed /\ Bounded /\ InnerFirst
      /\ (\A q \in Asks : AgentWaits(q) /\ RelayWaits(q)) /\ WaitsInv
    BY DEF RoutingInv, WaitsInv
<1>1. \A o \in Asks : asks[o].by # Agent
    BY <1>0 DEF InnerFirst
(* A message that a live session brings to a handler still waiting. *)
<1>2. ASSUME NEW m \in wire, m.d = 1, hop[m.url][1].at = "sent", Heard(m.url)
      PROVE  Live(m) /\ hop[m.url][1].id = m.id /\ hop[m.url][1].sess = m.sess
    <2>1. hop[m.url][1].id = m.id /\ hop[m.url][1].sess = m.sess
        BY <1>0, <1>2 DEF Tagged, Agent
    <2> QED
        BY <1>2, <2>1 DEF Live, Heard
<1>3. ASSUME NEW m \in wire, Routed(m) PROVE WaitsInv'
    <2>1. m.side = "reply" /\ m.d # Agent /\ UNCHANGED <<asks, opening, listens, cut>> /\ m \in Messages
        BY <1>0, <1>3 DEF Routed, OpensShape
    <2>2. m.d \in Daemons /\ m.url \in Asks /\ m.by \in 1..4 /\ m.id # 0 /\ hop[m.url][m.d].id = m.id
        <3>1. m.by \in 0..4 /\ m.by # 0
            BY <1>0, <2>1 DEF Tagged, Messages, Agent
        <3> QED
            BY <1>0, <2>1, <3>1, DaemonsAre DEF Messages, Agent, Tagged
    <2> DEFINE waiting == {o \in Asks : hop[o][m.d].at = "sent" /\ hop[o][m.d].id = m.id /\ hop[o][m.d].sess = m.sess}
    <2>3. CASE waiting = {} \/ ~Live(m)
        <3>1. wire' = wire \ {m} /\ UNCHANGED hop
            BY <1>3, <2>3 DEF Routed
        <3>2. ASSUME NEW o \in Asks, Last = 2, hop[o][1].at = "sent", Heard(o)'
              PROVE  Heard(o) /\ \A n \in wire : n.d = 1 /\ n.url = o => n \in wire'
            <4>1. Heard(o)
                BY <2>1, <3>1, <3>2 DEF Heard
            <4>2. m.d = 1 /\ m.url = o => Live(m) /\ o \in waiting
                BY <1>2, <2>2, <3>2, <4>1
            <4> QED
                BY <2>3, <3>1, <4>1, <4>2
        <3>3. \A o \in Asks : /\ asks'[o].age = asks[o].age /\ asks'[o].by # Agent
                              /\ asks'[o].at = "none" => asks[o].at = "none"
                              /\ asks'[o].at = "asked" =>
                                    asks[o].at = "asked" /\ \A n \in wire : n.d = Agent /\ n.id = o => n \in wire'
            BY <1>1, <2>1, <3>1
        <3>4. (\A n \in wire' : n \in wire \/ n.age = 0) /\ (\A n \in opening' : n.age = 0) /\ (cut => cut')
            BY <1>0, <2>1, <3>1 DEF Bounded
        <3> QED
            BY <1>0, <3>1, <3>2, <3>3, <3>4, QuietInTime
    <2>4. ASSUME NEW o \in waiting, Answers(o, m.d, m.url, m.by, wire \ {m}) PROVE WaitsInv'
        <3>1. o = m.url /\ o \in Asks /\ hop[o][m.d].at = "sent"
            BY <1>0, <2>2, <2>4 DEF Numbered
        <3>2. Settles("done", o, m.d, o, m.by, wire \ {m}) /\ wire \ {m} \subseteq wire
            BY <2>4, <3>1 DEF Answers
        <3>3. \A n \in wire : n.d = Agent \/ (n.d = 1 /\ (n.url # o \/ m.d = 2)) => n \in wire \ {m}
            BY <2>1, <3>1
        <3> QED
            BY <2>1, <2>2, <3>1, <3>2, <3>3, SettlesInTime
    <2> QED
        BY <1>3, <2>3, <2>4 DEF Routed
<1>4. ASSUME NEW m \in wire, Taken(m) PROVE WaitsInv'
    <2>1. m \in Messages /\ m.side = "event" /\ m.d # Agent /\ m.d \in Daemons /\ m.url \in Asks
        <3>1. m \in Messages /\ m.side = "event" /\ m.d # Agent
            BY <1>0, <1>4 DEF OpensShape, Tagged, Taken
        <3> QED
            BY <3>1, DaemonsAre DEF Messages, Agent
    <2>2. wire' = wire \ {m} /\ UNCHANGED <<asks, listens, cut>>
        BY <1>4 DEF Taken
    <2>3. CASE m.d < Last /\ Live(m)
        <3>1. m.d = 1 /\ Last = 2 /\ 2 \in Daemons /\ 1 \in Daemons
            BY <2>1, <2>3, DaemonsAre
        <3>2. opening' = opening /\ hop' = [hop EXCEPT ![m.url][2].at = "asked"]
            BY <1>4, <2>3, <3>1 DEF Taken
        <3>3. Becomes(m.url, 2, Moved(m.url, 2, "asked")) /\ Moved(m.url, 2, "asked") \in Hops /\ Moved(m.url, 2, "asked").at = "asked" /\ Moved(m.url, 2, "asked").age = hop[m.url][2].age
            <4>1. hop \in [Asks -> [Daemons -> Hops]] /\ "asked" \in Stages
                BY <1>0 DEF OpensShape, Stages
            <4>2. Becomes(m.url, 2, Moved(m.url, 2, "asked"))
                BY <2>1, <3>1, <3>2, <4>1, HopAt
            <4>3. /\ Moved(m.url, 2, "asked") \in Hops /\ Moved(m.url, 2, "asked").at = "asked"
                  /\ Moved(m.url, 2, "asked").age = hop[m.url][2].age
                BY <2>1, <3>1, <4>1, HopAt
            <4> QED
                BY <4>2, <4>3
        <3>4. hop[m.url][2].at = "none" /\ Moved(m.url, 2, "asked").age = 0
            BY <1>0, <2>1, <3>1, <3>3 DEF Relayed, Bounded
        <3>5. hop[m.url][1].at = "sent" /\ Heard(m.url) => hop[m.url][1].age <= Lag
            <4> SUFFICES ASSUME hop[m.url][1].at = "sent", Heard(m.url) PROVE hop[m.url][1].age <= Lag
                OBVIOUS
            <4>1. PICK n \in wire : hop[m.url][1].age <= n.age
                BY <1>0, <2>1, <3>1, <3>4 DEF RelayWaits
            <4>2. n.age <= Lag /\ n.age \in Nat /\ hop[m.url][1].age \in Nat /\ Lag \in Nat
                BY <1>0, <2>1, <3>1, AgesAre, WaitsAre DEF Bounded
            <4> QED
                BY <4>1, <4>2
        <3>6. \A n \in wire : n.d = Agent \/ (n.d = 1 /\ n.url # m.url) => n \in wire'
            BY <2>1, <2>2
        <3> QED
            BY <2>1, <2>2, <3>1, <3>2, <3>3, <3>4, <3>5, <3>6, MovesInTime
    <2>4. CASE ~(m.d < Last /\ Live(m))
        <3>1. hop' = hop
            BY <1>4, <2>4 DEF Taken
        <3>2. \A n \in opening' : n.age = 0
            BY <1>0, <1>4, <2>1 DEF Taken, Bounded, Messages
        <3>3. ASSUME NEW o \in Asks, Last = 2, hop[o][1].at = "sent", Heard(o)'
              PROVE  Heard(o) /\ \A n \in wire : n.d = 1 /\ n.url = o => n \in wire'
            <4>1. Heard(o)
                BY <2>2, <3>1, <3>3 DEF Heard
            <4>2. m.d = 1 => m.url # o
                BY <1>2, <2>4, <3>3, <4>1
            <4> QED
                BY <2>2, <4>1, <4>2
        <3>4. \A o \in Asks : /\ asks'[o].age = asks[o].age /\ asks'[o].by # Agent
                              /\ asks'[o].at = "none" => asks[o].at = "none"
                              /\ asks'[o].at = "asked" =>
                                    asks[o].at = "asked" /\ \A n \in wire : n.d = Agent /\ n.id = o => n \in wire'
            BY <1>1, <2>1, <2>2
        <3>5. (\A n \in wire' : n \in wire \/ n.age = 0) /\ (cut => cut')
            BY <2>2
        <3> QED
            BY <1>0, <3>1, <3>2, <3>3, <3>4, <3>5, QuietInTime
    <2> QED
        BY <2>3, <2>4
<1>5. ASSUME NEW m \in wire, Told(m) PROVE WaitsInv'
    <2>1. m \in Messages /\ m.d = Agent /\ m.id = m.url /\ m.url \in Asks /\ m.by # Agent /\ m.d # 1
        <3>1. m \in Messages /\ m.d = Agent
            BY <1>0, <1>5 DEF Told, OpensShape
        <3> QED
            BY <1>0, <3>1 DEF Tagged, Messages, Agent
    <2>2. /\ UNCHANGED <<hop, opening, listens, cut>> /\ wire' = wire \ {m}
          /\ asks' = IF asks[m.id].at = "asked"
                     THEN [asks EXCEPT ![m.id] = [@ EXCEPT !.at = "told", !.of = m.url, !.by = m.by]] ELSE asks
        BY <1>5 DEF Told
    <2>3. asks \in [Asks -> [at : {"none", "asked", "told"}, age : Nat, of : Asks \cup {NoOne}, by : 0..4]]
        BY <1>0 DEF OpensShape
    <2>4. ASSUME NEW o \in Asks
          PROVE  /\ asks'[o].age = asks[o].age /\ asks'[o].by # Agent
                 /\ asks'[o].at = "none" => asks[o].at = "none"
                 /\ asks'[o].at = "asked" =>
                       asks[o].at = "asked" /\ \A n \in wire : n.d = Agent /\ n.id = o => n \in wire'
        <3>1. CASE o = m.url /\ asks[o].at = "asked"
            <4>1. asks'[o] = [asks[o] EXCEPT !.at = "told", !.of = m.url, !.by = m.by]
                BY <2>1, <2>2, <2>3, <3>1
            <4> QED
                BY <2>1, <2>3, <4>1
        <3>2. CASE o # m.url \/ asks[o].at # "asked"
            <4>1. asks'[o] = asks[o]
                BY <2>1, <2>2, <2>3, <3>2
            <4> QED
                BY <1>1, <2>1, <2>2, <3>2, <4>1
        <3> QED
            BY <3>1, <3>2
    <2>5. ASSUME NEW o \in Asks, Heard(o)'
          PROVE  Heard(o) /\ \A n \in wire : n.d = 1 /\ n.url = o => n \in wire'
        BY <2>1, <2>2, <2>5 DEF Heard
    <2>6. (\A n \in wire' : n \in wire \/ n.age = 0) /\ (\A n \in opening' : n.age = 0) /\ (cut => cut') /\ hop' = hop
        BY <1>0, <2>2 DEF Bounded
    <2> QED
        BY <1>0, <2>4, <2>5, <2>6, QuietInTime
<1>6. ASSUME NEW m \in opening, Browses(m) PROVE WaitsInv'
    <2>1. m \in Messages /\ m.age = 0
        BY <1>0 DEF OpensShape, Bounded
    <2> DEFINE r == [m EXCEPT !.side = "reply", !.by = Browser]
    <2>2. r.age = 0
        BY <2>1 DEF Messages
    <2>3. wire' = wire \cup {r} /\ opening' = opening \ {m} /\ UNCHANGED <<asks, hop, listens, cut>>
        BY <1>6 DEF Browses
    <2> HIDE DEF r
    <2>4. (\A n \in wire' : n \in wire \/ n.age = 0) /\ (\A n \in opening' : n.age = 0) /\ (cut => cut') /\ hop' = hop
        BY <1>0, <2>2, <2>3 DEF Bounded
    <2>5. \A o \in Asks : Heard(o)' => Heard(o) /\ \A n \in wire : n.d = 1 /\ n.url = o => n \in wire'
        BY <2>3 DEF Heard
    <2>6. \A o \in Asks : /\ asks'[o].age = asks[o].age /\ asks'[o].by # Agent
                          /\ asks'[o].at = "none" => asks[o].at = "none"
                          /\ asks'[o].at = "asked" =>
                                asks[o].at = "asked" /\ \A n \in wire : n.d = Agent /\ n.id = o => n \in wire'
        BY <1>1, <2>3
    <2> QED
        BY <1>0, <2>4, <2>5, <2>6, QuietInTime
<1> QED
    BY <1>3, <1>4, <1>5, <1>6

(* Every step keeps the sums: no timer of an outer waiter runs out first.  *)
LEMMA WaitsStep == RoutingInv /\ WaitsInv /\ [OpensNext]_opvars => WaitsInv'
<1> SUFFICES ASSUME RoutingInv, WaitsInv, [OpensNext]_opvars PROVE WaitsInv'
    OBVIOUS
<1>0. /\ OpensShape /\ Numbered /\ Tagged /\ Relayed /\ Bounded /\ InnerFirst
      /\ (\A q \in Asks : AgentWaits(q) /\ RelayWaits(q))
    BY DEF RoutingInv, WaitsInv
<1>1. \A o \in Asks : asks[o].by # Agent
    BY <1>0 DEF InnerFirst
<1>2. ASSUME NEW o \in Asks, GuestOpens(o) PROVE WaitsInv'
    <2>0. hop \in [Asks -> [Daemons -> Hops]] /\ "asked" \in Stages /\ 1 \in Daemons
        BY <1>0, DaemonsAre DEF OpensShape, Stages
    <2>1. Becomes(o, 1, Moved(o, 1, "asked")) /\ Moved(o, 1, "asked") \in Hops /\ Moved(o, 1, "asked").at = "asked" /\ Moved(o, 1, "asked").age = hop[o][1].age
        <3>1. Becomes(o, 1, Moved(o, 1, "asked"))
            BY <1>2, <2>0, HopAt DEF GuestOpens
        <3>2. Moved(o, 1, "asked") \in Hops /\ Moved(o, 1, "asked").at = "asked" /\ Moved(o, 1, "asked").age = hop[o][1].age
            BY <2>0, HopAt
        <3> QED
            BY <3>1, <3>2
    <2>2. asks[o].at = "none" /\ asks' = [asks EXCEPT ![o].at = "asked"] /\ UNCHANGED <<wire, opening, listens, cut>>
        BY <1>2 DEF GuestOpens
    <2>3. hop[o][1].at = "none" /\ Moved(o, 1, "asked").age = 0 /\ asks[o].age = 0
        BY <1>0, <2>0, <2>1, <2>2 DEF Relayed, Bounded
    <2>4. \A q \in Asks : /\ asks'[q].age = asks[q].age /\ asks'[q].by = asks[q].by
                          /\ asks'[q].at = "none" => asks[q].at = "none"
                          /\ q # o \/ 1 # 1 => asks'[q].at = asks[q].at
        BY <1>0, <2>2 DEF OpensShape
    <2> QED
        BY <2>0, <2>1, <2>2, <2>3, <2>4, MovesInTime
<1>3. ASSUME NEW o \in Asks, AgentGivesUp(o) PROVE WaitsInv'
    BY <1>3, AgentInTime, AgesAre, WaitsAre DEF AgentGivesUp
<1>4. ASSUME hop' = hop, asks' = asks, cut => cut', wire' \subseteq wire, opening' \subseteq opening,
             \A m \in wire : m.d = Agent => m \in wire',
             \A o \in Asks : Last = 2 /\ hop[o][1].at = "sent" /\ Heard(o)' =>
                 Heard(o) /\ \A m \in wire : m.d = 1 /\ m.url = o => m \in wire'
      PROVE  WaitsInv'
    <2>1. \A o \in Asks : /\ asks'[o].age = asks[o].age /\ asks'[o].by # Agent
                          /\ asks'[o].at = "none" => asks[o].at = "none"
                          /\ asks'[o].at = "asked" =>
                                asks[o].at = "asked" /\ \A n \in wire : n.d = Agent /\ n.id = o => n \in wire'
        BY <1>1, <1>4
    <2>2. (\A n \in wire' : n \in wire \/ n.age = 0) /\ \A n \in opening' : n.age = 0
        BY <1>0, <1>4 DEF Bounded
    <2> QED
        BY <1>4, <2>1, <2>2, QuietInTime
<1>5. ASSUME NEW d \in Daemons, Drop(d) PROVE WaitsInv'
    <2>1. PICK on \in BOOLEAN : listens' = [listens EXCEPT ![d].sess = @ + 1, ![d].on = on]
        BY <1>5 DEF Drop
    <2>2. wire' = {m \in wire : m.d # d} /\ opening' \subseteq opening /\ UNCHANGED <<asks, hop, cut>>
        BY <1>5 DEF Drop
    <2>3. /\ d = 1 => listens'[1].sess = listens[1].sess + 1
          /\ d # 1 => listens'[1] = listens[1]
        BY <1>0, <2>1, DaemonsAre DEF OpensShape
    <2>4. ASSUME NEW o \in Asks, Heard(o)'
          PROVE  Heard(o) /\ \A m \in wire : m.d = 1 /\ m.url = o => m \in wire'
        <3>1. d # 1
            <4>1. hop[o][1].sess <= listens[1].sess /\ hop[o][1].sess \in Nat /\ listens[1].sess \in Nat
                BY <1>0, DaemonsAre DEF Numbered, OpensShape, Hops
            <4>2. listens'[1].sess = hop[o][1].sess
                BY <2>2, <2>4 DEF Heard
            <4> QED
                BY <2>3, <4>1, <4>2
        <3> QED
            BY <2>2, <2>3, <2>4, <3>1 DEF Heard
    <2>5. wire' \subseteq wire /\ \A m \in wire : m.d = Agent => m \in wire'
        BY <2>2, DaemonsAre DEF Agent
    <2> QED
        BY <1>4, <2>2, <2>4, <2>5
<1>6. ASSUME Cut PROVE WaitsInv'
    <2>1. wire' = {m \in wire : ~Crosses(m)} /\ cut' = TRUE /\ UNCHANGED <<asks, hop, opening, listens>>
        BY <1>6 DEF Cut
    <2>2. \A o \in Asks : ~Heard(o)'
        BY <2>1 DEF Heard
    <2>3. wire' \subseteq wire /\ \A m \in wire : m.d = Agent => m \in wire'
        BY <2>1 DEF Agent, Crosses
    <2> QED
        BY <1>4, <2>1, <2>2, <2>3
<1>7. CASE UNCHANGED opvars
    BY <1>4, <1>7 DEF opvars, Heard
<1> QED
    BY <1>2, <1>3, <1>5, <1>6, <1>7, HandlerInTime, MessageInTime, TickInTime DEF OpensNext

(***************************************************************************)
(* Each open is answered for itself, and by the one that knows why: with   *)
(* the waits nested as they are, the agent and daemon 1 hear from the one  *)
(* they ask before their own time is up, unless the daemons' link is dead. *)
(***************************************************************************)
THEOREM OpensAreAnsweredRight == OpensSpec => []RightAnswer
<1>1. OpensInit => RoutingInv /\ WaitsInv
    BY RoutingInit, WaitsInit
<1>2. RoutingInv /\ WaitsInv /\ [OpensNext]_opvars => (RoutingInv /\ WaitsInv)'
    BY RoutingStep, WaitsStep
<1>3. RoutingInv /\ WaitsInv => RightAnswer
    BY DEF RoutingInv, WaitsInv, RightAnswer
<1> QED
    BY <1>1, <1>2, <1>3, PTL DEF OpensSpec

(***************************************************************************)
(* How far the numbers and the clocks go.                                  *)
(***************************************************************************)

(* Nothing is older than the one who waits for it lets it get; a session's *)
(* number counts the faults of its link.                                   *)
WithinWaits ==
    /\ \A o \in Asks : asks[o].age <= AgentWait
    /\ \A o \in Asks, d \in Daemons : hop[o][d].age <= RelayWait
    /\ \A d \in Daemons : listens[d].sess <= MaxDrops

(* A daemon has numbered as many events as it has opens with a number. *)
NumberedAt(d) == {o \in Asks : hop[o][d].id # 0}
EventsCounted == \A d \in Daemons : Cardinality(NumberedAt(d)) = listens[d].next

(* The agent's streams belong to no session, and nobody has answered what  *)
(* is only asked.                                                          *)
OnlyAsked ==
    /\ \A m \in wire : (m.d = Agent => m.sess = 0) /\ (m.side = "event" => m.by = NoOne)
    /\ \A m \in opening : m.by = NoOne

CountsInv == WithinWaits /\ EventsCounted /\ OnlyAsked

(* The opens can be counted. *)
LEMMA AsksAre == IsFiniteSet(Asks) /\ Cardinality(Asks) \in Nat /\ Asks = 1..Cardinality(Asks)
BY CountsAssumption, FS_CardinalityType

(* No daemon gives more numbers than there are opens. *)
LEMMA CountedAre ==
    ASSUME EventsCounted, NEW d \in Daemons
    PROVE  listens[d].next \in Nat /\ listens[d].next <= Cardinality(Asks)
<1>1. NumberedAt(d) \subseteq Asks
    BY DEF NumberedAt
<1>2. Cardinality(NumberedAt(d)) \in Nat /\ Cardinality(NumberedAt(d)) <= Cardinality(Asks)
    BY <1>1, AsksAre, FS_Subset, FS_CardinalityType
<1> QED
    BY <1>2 DEF EventsCounted

(* What bounds every number and age in a state is its type. *)
LEMMA OpensTypes == RoutingInv /\ WaitsInv /\ CountsInv => OpensTypeOK
<1> SUFFICES ASSUME RoutingInv, WaitsInv, CountsInv PROVE OpensTypeOK
    OBVIOUS
<1> DEFINE n == Cardinality(Asks)
<1>0. /\ OpensShape /\ Numbered /\ Tagged /\ Bounded /\ WithinWaits /\ EventsCounted /\ OnlyAsked
      /\ n \in Nat /\ Asks = 1..n /\ MaxDrops \in Nat /\ AgentWait \in Nat /\ RelayWait \in Nat /\ Lag \in Nat
    BY AsksAre, WaitsAre, CountsAssumption DEF RoutingInv, WaitsInv, CountsInv
<1>1. \A d \in Daemons : /\ listens[d].sess \in 0..MaxDrops /\ listens[d].on \in BOOLEAN
                         /\ listens[d].next \in 0..n
    BY <1>0, CountedAre DEF OpensShape, WithinWaits
<1>2. \A o \in Asks, d \in Daemons : /\ hop[o][d] \in Hops /\ hop[o][d].age \in 0..RelayWait
                                     /\ hop[o][d].id \in 0..n /\ hop[o][d].sess \in 0..MaxDrops
    <2>1. ASSUME NEW o \in Asks, NEW d \in Daemons
          PROVE  /\ hop[o][d] \in Hops /\ hop[o][d].age \in 0..RelayWait
                 /\ hop[o][d].id \in 0..n /\ hop[o][d].sess \in 0..MaxDrops
        <3>1. hop[o][d] \in Hops /\ hop[o][d].age <= RelayWait
            BY <1>0 DEF OpensShape, WithinWaits
        <3>2. hop[o][d].id <= listens[d].next /\ hop[o][d].sess <= listens[d].sess
            BY <1>0 DEF Numbered
        <3>3. hop[o][d].age \in Nat /\ hop[o][d].id \in Nat /\ hop[o][d].sess \in Nat
            BY <3>1 DEF Hops
        <3> HIDE DEF n
        <3> QED
            BY <1>0, <1>1, <3>1, <3>2, <3>3
    <2> QED
        BY <2>1
<1>3. ASSUME NEW m \in wire \cup opening, m.d # Agent
      PROVE  m.id \in 0..n /\ m.sess \in 0..MaxDrops
    <2>1. m.d \in Daemons /\ m.url \in Asks
        BY <1>0, <1>3, DaemonsAre DEF OpensShape, Messages, Agent
    <2>2. hop[m.url][m.d].id = m.id /\ hop[m.url][m.d].sess = m.sess
        BY <1>0, <1>3 DEF Tagged
    <2> QED
        BY <1>2, <2>1, <2>2
<1>4. ASSUME NEW m \in wire
      PROVE  m \in [side : {"event", "reply"}, d : 0..Last, url : Asks, by : 0..4, id : 0..n, sess : 0..MaxDrops, age : 0..Lag]
    <2>1. m \in Messages /\ m.age <= Lag
        BY <1>0 DEF OpensShape, Bounded
    <2>2. m.id \in 0..n /\ m.sess \in 0..MaxDrops
        <3>1. CASE m.d = Agent
            <4>1. m.id \in Asks /\ m.sess = 0
                BY <1>0, <2>1, <3>1 DEF Tagged, Messages, OnlyAsked
            <4> HIDE DEF n
            <4> QED
                BY <1>0, <4>1
        <3> QED
            BY <1>3, <3>1
    <2>3. m.age \in 0..Lag
        BY <1>0, <2>1 DEF Messages
    <2> QED
        BY <2>1, <2>2, <2>3 DEF Messages
<1>5. ASSUME NEW m \in opening
      PROVE  m \in [side : {"event"}, d : {Last}, url : Asks, by : {NoOne}, id : 0..n, sess : 0..MaxDrops, age : {0}]
    <2>1. m \in Messages /\ m.age = 0 /\ m.side = "event" /\ m.d = Last /\ m.by = NoOne
        BY <1>0 DEF OpensShape, Bounded, Tagged, OnlyAsked
    <2>2. m.id \in 0..n /\ m.sess \in 0..MaxDrops
        BY <1>3, <2>1, DaemonsAre DEF Agent
    <2> QED
        BY <2>1, <2>2 DEF Messages
<1>6. asks \in [Asks -> [at : {"none", "asked", "told"}, age : 0..AgentWait, of : Asks \cup {NoOne}, by : 0..4]]
    <2>1. \A o \in Asks : asks[o] \in [at : {"none", "asked", "told"}, age : 0..AgentWait, of : Asks \cup {NoOne}, by : 0..4]
        BY <1>0 DEF OpensShape, WithinWaits
    <2> QED
        BY <1>0, <2>1 DEF OpensShape
<1>7. hop \in [Asks -> [Daemons -> [at : {"none", "asked", "bind", "chosen", "sent", "done", "late"}, age : 0..RelayWait,
                                    id : 0..n, sess : 0..MaxDrops]]]
    <2> DEFINE H == [at : {"none", "asked", "bind", "chosen", "sent", "done", "late"}, age : 0..RelayWait,
                     id : 0..n, sess : 0..MaxDrops]
    <2>1. \A o \in Asks, d \in Daemons : hop[o][d] \in H
        BY <1>2 DEF Hops, Stages
    <2> HIDE DEF H
    <2>2. hop \in [Asks -> [Daemons -> Hops]]
        BY <1>0 DEF OpensShape
    <2>3. hop \in [Asks -> [Daemons -> H]]
        BY <2>1, <2>2
    <2> QED
        BY <2>3 DEF H
<1>8. listens \in [Daemons -> [sess : 0..MaxDrops, on : BOOLEAN, next : 0..n]]
    <2>1. \A d \in Daemons : listens[d] \in [sess : 0..MaxDrops, on : BOOLEAN, next : 0..n]
        BY <1>0, <1>1 DEF OpensShape
    <2> QED
        BY <1>0, <2>1 DEF OpensShape
<1>9. cut \in BOOLEAN
    BY <1>0 DEF OpensShape
<1> QED
    BY <1>4, <1>5, <1>6, <1>7, <1>8, <1>9 DEF OpensTypeOK

(* A step that gives no number keeps the count. *)
LEMMA CountKept ==
    ASSUME EventsCounted, \A o \in Asks, d \in Daemons : hop'[o][d].id = hop[o][d].id,
           \A d \in Daemons : listens'[d].next = listens[d].next
    PROVE  EventsCounted'
<1>1. ASSUME NEW d \in Daemons PROVE {o \in Asks : hop'[o][d].id # 0} = NumberedAt(d)
    BY <1>1 DEF NumberedAt
<1> QED
    BY <1>1 DEF EventsCounted, NumberedAt

(* A handler that moves on and stays the age it was, or starts anew, is    *)
(* within its waits and keeps its number.                                  *)
LEMMA BecomesCounts ==
    ASSUME RoutingInv, CountsInv, NEW o \in Asks, NEW d \in Daemons, NEW h \in Hops, Becomes(o, d, h),
           h.id = hop[o][d].id, h.age \in {hop[o][d].age, 0},
           \A q \in Asks : asks'[q].age = asks[q].age, listens' = listens, OnlyAsked'
    PROVE  CountsInv'
<1>1. hop \in [Asks -> [Daemons -> Hops]] /\ WithinWaits /\ EventsCounted
    BY DEF RoutingInv, OpensShape, CountsInv
<1>2. /\ hop'[o][d] = h
      /\ \A q \in Asks, e \in Daemons : q # o \/ e # d => hop'[q][e] = hop[q][e]
    BY <1>1, HopSet
<1>3. \A q \in Asks, e \in Daemons : hop'[q][e].id = hop[q][e].id /\ hop'[q][e].age \in {hop[q][e].age, 0}
    BY <1>2
<1>4. EventsCounted'
    BY <1>1, <1>3, CountKept
<1>5. WithinWaits'
    BY <1>1, <1>3, WaitsAre DEF WithinWaits
<1> QED
    BY <1>4, <1>5 DEF CountsInv

(* A daemon that answers, or gives up, numbers nothing. *)
LEMMA SettlesCounts ==
    ASSUME RoutingInv, CountsInv, NEW o \in Asks, NEW d \in Daemons, NEW at \in {"done", "late"}, NEW by \in 1..4,
           NEW rest, rest \subseteq wire, Settles(at, o, d, o, by, rest), UNCHANGED <<asks, opening, listens, cut>>
    PROVE  CountsInv'
<1>1. /\ hop \in [Asks -> [Daemons -> Hops]] /\ OnlyAsked /\ at \in Stages
      /\ hop' = [hop EXCEPT ![o][d].at = at]
    BY DEF RoutingInv, OpensShape, CountsInv, Stages, Settles
<1>2. /\ Becomes(o, d, Moved(o, d, at)) /\ Moved(o, d, at) \in Hops
      /\ Moved(o, d, at).id = hop[o][d].id /\ Moved(o, d, at).age = hop[o][d].age
    <2>1. Becomes(o, d, Moved(o, d, at)) /\ Moved(o, d, at) \in Hops
        BY <1>1, HopAt
    <2>2. Moved(o, d, at).id = hop[o][d].id /\ Moved(o, d, at).age = hop[o][d].age
        BY <1>1, HopAt
    <2> QED
        BY <2>1, <2>2
<1> DEFINE r == Reply(o, d, o, by)
<1>3. r.side = "reply" /\ r.d = d - 1 /\ r.sess = IF d = 1 THEN 0 ELSE hop[o][1].sess
    BY ReplyIs
<1>4. wire' \subseteq wire \cup {r}
    BY DEF Settles, Sends
<1>5. r.d = Agent => r.sess = 0
    BY <1>3, DaemonsAre DEF Agent
<1> HIDE DEF r
<1>6. OnlyAsked'
    BY <1>1, <1>3, <1>4, <1>5 DEF OnlyAsked
<1> QED
    BY <1>2, <1>6, BecomesCounts

(* An event that goes out has a number nobody else has. *)
LEMMA DeliverCounts == ASSUME RoutingInv, CountsInv, NEW o \in Asks, NEW d \in Daemons, Deliver(o, d) PROVE CountsInv'
<1>0. OpensShape /\ Numbered /\ WithinWaits /\ EventsCounted /\ OnlyAsked
    BY DEF RoutingInv, CountsInv
<1>1. hop[o][d].at = "chosen" /\ UNCHANGED <<asks, opening, cut>>
    BY DEF Deliver
<1>2. CASE listens[d].on /\ listens[d].sess = hop[o][d].sess
    <2> DEFINE e == [side |-> "event", d |-> d, url |-> o, by |-> NoOne, age |-> 0,
                     id |-> EventId(d), sess |-> hop[o][d].sess]
               h == [hop[o][d] EXCEPT !.at = "sent", !.age = 0, !.id = EventId(d)]
    <2>1. listens[d].next \in Nat /\ EventId(d) \in Nat /\ EventId(d) # 0 /\ EventId(d) = listens[d].next + 1
        BY <1>0 DEF OpensShape, EventId
    <2>2. listens' = [listens EXCEPT ![d].next = @ + 1] /\ wire' \subseteq wire \cup {e} /\ Becomes(o, d, h)
        BY <1>2 DEF Deliver, Sends, Becomes
    <2>3. h \in Hops /\ h.age = 0 /\ h.id = EventId(d)
        <3>1. hop[o][d] \in Hops /\ "sent" \in Stages
            BY <1>0 DEF OpensShape, Stages
        <3>2. [hop[o][d] EXCEPT !.at = "sent"] \in Hops
            BY <3>1 DEF Hops
        <3> HIDE DEF EventId
        <3>3. \A k \in Nat : \A g \in Hops : [g EXCEPT !.age = 0, !.id = k] \in Hops
            BY DEF Hops
        <3>4. h = [[hop[o][d] EXCEPT !.at = "sent"] EXCEPT !.age = 0, !.id = EventId(d)]
            OBVIOUS
        <3>5. DOMAIN hop[o][d] = {"at", "age", "id", "sess"}
            BY <3>1 DEF Hops
        <3> QED
            BY <2>1, <3>2, <3>3, <3>4, <3>5
    <2>4. e.side = "event" /\ e.d = d /\ e.by = NoOne /\ d # Agent
        BY DaemonsAre DEF Agent
    <2> HIDE DEF e, h
    <2>5. /\ hop'[o][d] = h
          /\ \A q \in Asks, k \in Daemons : q # o \/ k # d => hop'[q][k] = hop[q][k]
        BY <1>0, <2>2, <2>3, HopSet DEF OpensShape
    <2>6. OnlyAsked'
        BY <1>0, <1>1, <2>2, <2>4 DEF OnlyAsked
    <2>7. /\ \A k \in Daemons : listens'[k].sess = listens[k].sess
          /\ \A k \in Daemons : k # d => listens'[k].next = listens[k].next
          /\ listens'[d].next = listens[d].next + 1
        BY <1>0, <2>2 DEF OpensShape
    <2>8. WithinWaits'
        <3>1. \A q \in Asks, k \in Daemons : hop'[q][k].age \in {hop[q][k].age, 0}
            BY <2>3, <2>5
        <3> QED
            BY <1>0, <1>1, <2>7, <3>1, WaitsAre DEF WithinWaits
    <2>9. EventsCounted'
        <3>1. {q \in Asks : hop'[q][d].id # 0} = NumberedAt(d) \cup {o}
            BY <2>1, <2>3, <2>5 DEF NumberedAt
        <3>2. o \notin NumberedAt(d) /\ NumberedAt(d) \subseteq Asks
            BY <1>0, <1>1 DEF Numbered, NumberedAt
        <3>3. IsFiniteSet(NumberedAt(d))
            BY <3>2, AsksAre, FS_Subset
        <3>4. Cardinality(NumberedAt(d) \cup {o}) = Cardinality(NumberedAt(d)) + 1
            BY <3>2, <3>3, FS_AddElement
        <3>5. \A k \in Daemons : k # d => {q \in Asks : hop'[q][k].id # 0} = NumberedAt(k)
            BY <2>5 DEF NumberedAt
        <3>6. ASSUME NEW k \in Daemons PROVE Cardinality({q \in Asks : hop'[q][k].id # 0}) = listens'[k].next
            <4>1. CASE k = d
                BY <1>0, <2>7, <3>1, <3>4, <4>1 DEF EventsCounted
            <4>2. CASE k # d
                BY <1>0, <2>7, <3>5, <4>2 DEF EventsCounted
            <4> QED
                BY <4>1, <4>2
        <3> QED
            BY <3>6 DEF EventsCounted, NumberedAt
    <2> QED
        BY <2>6, <2>8, <2>9 DEF CountsInv
<1>3. CASE ~(listens[d].on /\ listens[d].sess = hop[o][d].sess)
    <2>1. Settles("done", o, d, o, d, wire) /\ UNCHANGED listens /\ d \in 1..4
        BY <1>3, DaemonsAre DEF Deliver, Answers
    <2> QED
        BY <1>1, <2>1, SettlesCounts
<1> QED
    BY <1>2, <1>3

(* What is lost, told or given up changes no count. *)
LEMMA QuietCounts ==
    ASSUME CountsInv, hop' = hop, listens' = listens, \A o \in Asks : asks'[o].age = asks[o].age,
           wire' \subseteq wire, opening' \subseteq opening
    PROVE  CountsInv'
<1>1. WithinWaits /\ EventsCounted /\ OnlyAsked
    BY DEF CountsInv
<1>2. WithinWaits'
    BY <1>1 DEF WithinWaits
<1>3. EventsCounted'
    BY <1>1 DEF EventsCounted, NumberedAt
<1>4. OnlyAsked'
    BY <1>1 DEF OnlyAsked
<1> QED
    BY <1>2, <1>3, <1>4 DEF CountsInv

(* A session's number goes up only while a fault is left. *)
LEMMA DropCounts == ASSUME RoutingInv, CountsInv, NEW d \in Daemons, Drop(d) PROVE CountsInv'
<1>0. OpensShape /\ WithinWaits /\ EventsCounted /\ OnlyAsked
    BY DEF RoutingInv, CountsInv
<1>1. PICK on \in BOOLEAN : listens' = [listens EXCEPT ![d].sess = @ + 1, ![d].on = on]
    BY DEF Drop
<1>2. wire' \subseteq wire /\ opening' \subseteq opening /\ UNCHANGED <<asks, hop>> /\ Faults < MaxDrops
    BY DEF Drop
<1>3. \A k \in Daemons : listens[k].sess \in Nat
    BY <1>0 DEF OpensShape
<1>4. listens[d].sess + 1 <= MaxDrops
    <2>1. (Last = 2 => listens[1].sess \in Nat) /\ listens[Last].sess \in Nat /\ listens[d].sess \in Nat /\ MaxDrops \in Nat
        BY <1>3, DaemonsAre, CountsAssumption
    <2>2. CASE d = Last
        BY <1>2, <2>1, <2>2 DEF Faults
    <2>3. CASE Last = 2 /\ d = 1
        BY <1>2, <2>1, <2>3 DEF Faults
    <2> QED
        BY <2>2, <2>3, DaemonsAre
<1> DEFINE ended == [listens EXCEPT ![d].sess = @ + 1]
<1>5. /\ ended \in [Daemons -> [sess : Nat, on : BOOLEAN, next : Nat]]
      /\ ended[d].sess = listens[d].sess + 1
      /\ \A k \in Daemons : ended[k].next = listens[k].next /\ (k # d => ended[k].sess = listens[k].sess)
      /\ listens' = [ended EXCEPT ![d].on = on]
    BY <1>0, <1>1 DEF OpensShape
<1> HIDE DEF ended
<1>6. /\ \A k \in Daemons : listens'[k].next = listens[k].next /\ (k # d => listens'[k].sess = listens[k].sess)
      /\ listens'[d].sess = listens[d].sess + 1
    BY <1>5
<1>7. WithinWaits'
    BY <1>0, <1>2, <1>4, <1>6 DEF WithinWaits
<1>8. EventsCounted'
    BY <1>0, <1>2, <1>6, CountKept
<1>9. OnlyAsked'
    BY <1>0, <1>2 DEF OnlyAsked
<1> QED
    BY <1>7, <1>8, <1>9 DEF CountsInv

(* Time goes on only while every wait has some left. *)
LEMMA TickCounts == ASSUME RoutingInv, CountsInv, Tick PROVE CountsInv'
<1>0. OpensShape /\ WithinWaits /\ EventsCounted /\ OnlyAsked /\ UNCHANGED <<opening, listens>>
    BY DEF RoutingInv, CountsInv, Tick
<1>1. /\ \A m \in wire' : \E n \in wire : SameBut(m, n)
      /\ \A o \in Asks : asks'[o].age = IF asks[o].at = "asked" THEN asks[o].age + 1 ELSE asks[o].age
      /\ \A o \in Asks, d \in Daemons :
            /\ hop'[o][d].id = hop[o][d].id
            /\ hop'[o][d].age = IF hop[o][d].at \in {"bind", "sent"} THEN hop[o][d].age + 1 ELSE hop[o][d].age
    BY <1>0, TickIs
<1>2. /\ \A o \in Asks : asks[o].at = "asked" => asks[o].age < AgentWait
      /\ \A o \in Asks, d \in Daemons :
            /\ hop[o][d].at = "bind" => hop[o][d].age < BindTime
            /\ hop[o][d].at = "sent" => hop[o][d].age < WaitOn(d)
    BY DEF Tick
<1>3. BindTime <= RelayWait /\ \A d \in Daemons : WaitOn(d) <= RelayWait
    BY WaitsAssumption, WaitsAre DEF WaitOn
<1>4. WithinWaits'
    <2>1. ASSUME NEW o \in Asks PROVE asks'[o].age <= AgentWait
        BY <1>0, <1>1, <1>2, AgesAre, WaitsAre DEF WithinWaits
    <2>2. ASSUME NEW o \in Asks, NEW d \in Daemons PROVE hop'[o][d].age <= RelayWait
        <3>1. hop[o][d].age \in Nat /\ WaitOn(d) \in Nat /\ BindTime \in Nat /\ RelayWait \in Nat /\ hop[o][d].age <= RelayWait
            BY <1>0, AgesAre, WaitsAre DEF WithinWaits
        <3> QED
            BY <1>1, <1>2, <1>3, <3>1
    <2> QED
        BY <1>0, <2>1, <2>2 DEF WithinWaits
<1>5. EventsCounted'
    BY <1>0, <1>1, CountKept
<1>6. OnlyAsked'
    BY <1>0, <1>1 DEF OnlyAsked, SameBut
<1> QED
    BY <1>4, <1>5, <1>6 DEF CountsInv

(* At first nothing is numbered. *)
LEMMA CountsInit == OpensInit => CountsInv
<1> SUFFICES ASSUME OpensInit PROVE CountsInv
    OBVIOUS
<1>1. /\ \A o \in Asks : asks[o].age = 0
      /\ \A o \in Asks, d \in Daemons : hop[o][d].age = 0 /\ hop[o][d].id = 0
      /\ wire = {} /\ opening = {}
    BY DEF OpensInit, NoAsk, NoHop
<1>2. \A d \in Daemons : listens[d].sess = 0 /\ listens[d].next = 0
    BY DEF OpensInit
<1>3. WithinWaits
    BY <1>1, <1>2, WaitsAre, CountsAssumption DEF WithinWaits
<1>4. EventsCounted
    <2>1. \A d \in Daemons : NumberedAt(d) = {}
        BY <1>1 DEF NumberedAt
    <2> QED
        BY <1>2, <2>1, FS_EmptySet DEF EventsCounted
<1>5. OnlyAsked
    BY <1>1 DEF OnlyAsked
<1> QED
    BY <1>3, <1>4, <1>5 DEF CountsInv

(* Every step keeps the counts. *)
LEMMA CountsStep == RoutingInv /\ CountsInv /\ [OpensNext]_opvars => CountsInv'
<1> SUFFICES ASSUME RoutingInv, CountsInv, [OpensNext]_opvars PROVE CountsInv'
    OBVIOUS
<1>0. OpensShape /\ Numbered /\ Tagged /\ OnlyAsked /\ hop \in [Asks -> [Daemons -> Hops]]
    BY DEF RoutingInv, CountsInv, OpensShape
<1>1. ASSUME NEW o \in Asks, NEW d \in Daemons, hop' = [hop EXCEPT ![o][d].at = "asked"], OnlyAsked', listens' = listens,
             \A q \in Asks : asks'[q].age = asks[q].age
      PROVE  CountsInv'
    <2>1. "asked" \in Stages
        BY DEF Stages
    <2>2. Becomes(o, d, Moved(o, d, "asked")) /\ Moved(o, d, "asked") \in Hops
        BY <1>0, <1>1, <2>1, HopAt
    <2>3. Moved(o, d, "asked").id = hop[o][d].id /\ Moved(o, d, "asked").age = hop[o][d].age
        BY <1>0, <2>1, HopAt
    <2> QED
        BY <1>1, <2>2, <2>3, BecomesCounts
<1>2. ASSUME NEW o \in Asks, GuestOpens(o) PROVE CountsInv'
    <2>1. /\ hop' = [hop EXCEPT ![o][1].at = "asked"] /\ UNCHANGED <<wire, opening, listens>>
          /\ asks' = [asks EXCEPT ![o].at = "asked"]
        BY <1>2 DEF GuestOpens
    <2>2. \A q \in Asks : asks'[q].age = asks[q].age
        BY <1>0, <2>1 DEF OpensShape
    <2>3. OnlyAsked' /\ 1 \in Daemons
        BY <1>0, <2>1, DaemonsAre DEF OnlyAsked
    <2> QED
        BY <1>1, <2>1, <2>2, <2>3
<1>3. ASSUME NEW o \in Asks, AgentGivesUp(o) PROVE CountsInv'
    <2>1. asks' = [asks EXCEPT ![o].at = "told", ![o].by = Agent] /\ UNCHANGED <<hop, wire, opening, listens>>
        BY <1>3 DEF AgentGivesUp
    <2>2. \A q \in Asks : asks'[q].age = asks[q].age
        BY <1>0, <2>1 DEF OpensShape
    <2> QED
        BY <2>1, <2>2, QuietCounts
<1>4. ASSUME NEW o \in Asks, NEW d \in Daemons, Answers(o, d, o, d, wire), UNCHANGED <<asks, opening, listens, cut>>
      PROVE  CountsInv'
    <2>1. Settles("done", o, d, o, d, wire) /\ d \in 1..4
        BY <1>4, DaemonsAre DEF Answers
    <2> QED
        BY <1>4, <2>1, SettlesCounts
<1>5. ASSUME NEW o \in Asks, NEW d \in Daemons, Choose(o, d) PROVE CountsInv'
    <2>1. UNCHANGED <<asks, opening, listens, cut>>
        BY <1>5 DEF Choose
    <2>2. CASE Answers(o, d, o, d, wire)
        BY <1>4, <2>1, <2>2
    <2>3. ASSUME NEW at \in {"chosen", "bind"}, wire' = wire,
                 hop' = [hop EXCEPT ![o][d] = [@ EXCEPT !.at = at, !.sess = listens[d].sess]]
          PROVE  CountsInv'
        <3> DEFINE h == [hop[o][d] EXCEPT !.at = at, !.sess = listens[d].sess]
        <3>1. at \in Stages /\ hop[o][d] \in Hops /\ listens[d].sess \in Nat
            BY <1>0, <2>3 DEF OpensShape, Stages
        <3>2. [hop[o][d] EXCEPT !.at = at] \in Hops
            BY <3>1 DEF Hops
        <3>3. h \in Hops /\ h.age = hop[o][d].age /\ h.id = hop[o][d].id
            BY <3>1, <3>2 DEF Hops
        <3>4. Becomes(o, d, h)
            BY <2>3 DEF Becomes
        <3>5. OnlyAsked'
            BY <1>0, <2>1, <2>3 DEF OnlyAsked
        <3> HIDE DEF h
        <3> QED
            BY <2>1, <3>3, <3>4, <3>5, BecomesCounts
    <2> QED
        BY <1>5, <2>2, <2>3 DEF Choose
<1>6. ASSUME NEW o \in Asks, NEW d \in Daemons, Bound(o, d) PROVE CountsInv'
    <2>1. UNCHANGED <<asks, opening, listens, cut>>
        BY <1>6 DEF Bound
    <2>2. CASE Answers(o, d, o, d, wire)
        BY <1>4, <2>1, <2>2
    <2>3. CASE hop' = [hop EXCEPT ![o][d].at = "chosen", ![o][d].age = 0] /\ wire' = wire
        <3> DEFINE h == [hop[o][d] EXCEPT !.at = "chosen", !.age = 0]
        <3>1. hop[o][d] \in Hops /\ "chosen" \in Stages
            BY <1>0 DEF Stages
        <3>2. [hop[o][d] EXCEPT !.at = "chosen"] \in Hops
            BY <3>1 DEF Hops
        <3>3. h \in Hops /\ h.age = 0 /\ h.id = hop[o][d].id
            BY <3>1, <3>2 DEF Hops
        <3>4. Becomes(o, d, h)
            BY <2>3 DEF Becomes
        <3>5. OnlyAsked'
            BY <1>0, <2>1, <2>3 DEF OnlyAsked
        <3> HIDE DEF h
        <3> QED
            BY <2>1, <3>3, <3>4, <3>5, BecomesCounts
    <2> QED
        BY <1>6, <2>2, <2>3 DEF Bound
<1>7. ASSUME NEW o \in Asks, NEW d \in Daemons, GivesUp(o, d) PROVE CountsInv'
    <2>1. UNCHANGED <<asks, opening, listens, cut>> /\ d \in 1..4
        BY <1>7, DaemonsAre DEF GivesUp
    <2>2. CASE Settles("late", o, d, o, d, wire)
        BY <2>1, <2>2, SettlesCounts
    <2>3. CASE Answers(o, d, o, d, wire)
        BY <1>4, <2>1, <2>3
    <2> QED
        BY <1>7, <2>2, <2>3 DEF GivesUp
<1>8. ASSUME NEW m \in wire, Routed(m) PROVE CountsInv'
    <2>1. m.side = "reply" /\ m.d # Agent /\ UNCHANGED <<asks, opening, listens, cut>> /\ m \in Messages
        BY <1>0, <1>8 DEF Routed, OpensShape
    <2>2. m.d \in Daemons /\ m.url \in Asks /\ m.by \in 1..4 /\ m.id # 0 /\ hop[m.url][m.d].id = m.id
        <3>1. m.by \in 0..4 /\ m.by # 0
            BY <1>0, <2>1 DEF Tagged, Messages, Agent
        <3> QED
            BY <1>0, <2>1, <3>1, DaemonsAre DEF Messages, Agent, Tagged
    <2>3. CASE wire' = wire \ {m} /\ UNCHANGED hop
        BY <2>1, <2>3, QuietCounts
    <2>4. ASSUME NEW o \in Asks, hop[o][m.d].id = m.id, Answers(o, m.d, m.url, m.by, wire \ {m})
          PROVE  CountsInv'
        <3>1. o = m.url
            BY <1>0, <2>2, <2>4 DEF Numbered
        <3>2. Settles("done", o, m.d, o, m.by, wire \ {m}) /\ wire \ {m} \subseteq wire
            BY <2>4, <3>1 DEF Answers
        <3> QED
            BY <2>1, <2>2, <3>2, SettlesCounts
    <2> QED
        BY <1>8, <2>3, <2>4 DEF Routed
<1>9. ASSUME NEW m \in wire, Told(m) PROVE CountsInv'
    <2>1. /\ UNCHANGED <<hop, opening, listens, cut>> /\ wire' = wire \ {m}
          /\ asks' = IF asks[m.id].at = "asked"
                     THEN [asks EXCEPT ![m.id] = [@ EXCEPT !.at = "told", !.of = m.url, !.by = m.by]] ELSE asks
        BY <1>9 DEF Told
    <2>2. ASSUME NEW q \in Asks PROVE asks'[q].age = asks[q].age
        <3>1. asks[q] \in [at : {"none", "asked", "told"}, age : Nat, of : Asks \cup {NoOne}, by : 0..4]
            BY <1>0 DEF OpensShape
        <3>2. asks'[q] = asks[q] \/ asks'[q] = [asks[q] EXCEPT !.at = "told", !.of = m.url, !.by = m.by]
            BY <1>0, <2>1 DEF OpensShape
        <3> QED
            BY <3>1, <3>2
    <2> QED
        BY <2>1, <2>2, QuietCounts
<1>10. ASSUME NEW m \in wire, Taken(m) PROVE CountsInv'
    <2>1. m \in Messages /\ m.side = "event" /\ m.d \in Daemons /\ m.url \in Asks /\ m.by = NoOne
        <3>1. m \in Messages /\ m.side = "event" /\ m.d # Agent /\ m.by = NoOne
            BY <1>0, <1>10 DEF OpensShape, Tagged, Taken, OnlyAsked
        <3> QED
            BY <3>1, DaemonsAre DEF Messages, Agent
    <2>2. wire' = wire \ {m} /\ UNCHANGED <<asks, listens, cut>>
        BY <1>10 DEF Taken
    <2>3. CASE m.d < Last /\ Live(m)
        <3>1. m.d + 1 \in Daemons /\ opening' = opening /\ hop' = [hop EXCEPT ![m.url][m.d + 1].at = "asked"]
            BY <1>10, <2>1, <2>3, DaemonsAre DEF Taken
        <3>2. OnlyAsked'
            BY <1>0, <2>2, <3>1 DEF OnlyAsked
        <3> QED
            BY <1>1, <2>1, <2>2, <3>1, <3>2
    <2>4. CASE ~(m.d < Last /\ Live(m))
        <3> DEFINE e == [m EXCEPT !.age = 0]
        <3>1. hop' = hop /\ opening' \subseteq opening \cup {e}
            BY <1>10, <2>4 DEF Taken
        <3>2. e.by = NoOne
            BY <2>1 DEF Messages
        <3> HIDE DEF e
        <3>3. OnlyAsked'
            BY <1>0, <2>2, <3>1, <3>2 DEF OnlyAsked
        <3>4. WithinWaits' /\ EventsCounted'
            BY <2>2, <3>1 DEF CountsInv, WithinWaits, EventsCounted, NumberedAt
        <3> QED
            BY <3>3, <3>4 DEF CountsInv
    <2> QED
        BY <2>3, <2>4
<1>11. ASSUME NEW m \in opening, Browses(m) PROVE CountsInv'
    <2> DEFINE r == [m EXCEPT !.side = "reply", !.by = Browser]
    <2>1. wire' = wire \cup {r} /\ opening' = opening \ {m} /\ UNCHANGED <<asks, hop, listens, cut>>
        BY <1>11 DEF Browses
    <2>2. m \in Messages /\ m.d = Last
        BY <1>0 DEF OpensShape, Tagged
    <2>3. DOMAIN m = {"side", "d", "url", "by", "id", "sess", "age"}
        BY <2>2 DEF Messages
    <2>4. r.side = "reply" /\ r.d # Agent
        BY <2>2, <2>3, DaemonsAre DEF Agent
    <2> HIDE DEF r
    <2>5. OnlyAsked'
        BY <1>0, <2>1, <2>4 DEF OnlyAsked
    <2>6. WithinWaits' /\ EventsCounted'
        BY <2>1 DEF CountsInv, WithinWaits, EventsCounted, NumberedAt
    <2> QED
        BY <2>5, <2>6 DEF CountsInv
<1>12. ASSUME Cut PROVE CountsInv'
    <2>1. wire' \subseteq wire /\ UNCHANGED <<asks, hop, opening, listens>>
        BY <1>12 DEF Cut
    <2> QED
        BY <2>1, QuietCounts
<1>13. CASE UNCHANGED opvars
    BY <1>13, QuietCounts DEF opvars
<1> QED
    BY <1>2, <1>3, <1>5, <1>6, <1>7, <1>8, <1>9, <1>10, <1>11, <1>12, <1>13, DeliverCounts, DropCounts, TickCounts
       DEF OpensNext

(* The numbers of the events, the waits and the sessions stay in bounds. *)
LEMMA OpensKeepTypes == OpensSpec => []OpensTypeOK
<1>1. OpensInit => RoutingInv /\ WaitsInv /\ CountsInv
    BY RoutingInit, WaitsInit, CountsInit
<1>2. RoutingInv /\ WaitsInv /\ CountsInv /\ [OpensNext]_opvars => (RoutingInv /\ WaitsInv /\ CountsInv)'
    BY RoutingStep, WaitsStep, CountsStep
<1> QED
    BY <1>1, <1>2, OpensTypes, PTL DEF OpensSpec
=============================================================================
