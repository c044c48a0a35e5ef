--------------------------------- MODULE Opens ---------------------------------
(***************************************************************************)
(* A URL on its way from a guest program to a browser and its answer on the*)
(* way back (session/bridge.go, daemon_session.go, transport.go, agentrpc, *)
(* devvm-agent): the agent asks daemon 1, which binds the port and asks its*)
(* most recent subscriber; that is a session on its own host, or a relay   *)
(* whose daemon 2 does the same on another host.  Each waits for an answer,*)
(* and no longer than its own bound, in ticks of 5 s.                      *)
(***************************************************************************)
EXTENDS Naturals, FiniteSets

CONSTANTS Asks,       \* 1..n: opens, each of one URL
          Daemons,    \* 1..1, or 1..2 for a machine on a hub
          SubWait, RelayWait, AgentWait,  \* subscriberWait, relaySubscriberWait, AgentReplyWait
          BindTime,   \* the most a bind takes: hubCallTimeout
          Lag,        \* the most a message takes on a link that is up
          Spread,     \* the most ticks between the first open and another
          MaxDrops    \* times a subscriber's session ends, or that the link goes dead

(* A machine is reached directly or through one hub.  The waits are nested *)
(* (bridge.go:57): a relay's answer is waited for longer than the relay's  *)
(* daemon may take with the link's two ways, and the agent waits longest.  *)
ASSUME OpensAssumption == /\ Asks \subseteq Nat \ {0} /\ Daemons \in {1..1, 1..2}
                          /\ {SubWait, RelayWait, AgentWait, BindTime, Lag} \subseteq Nat
ASSUME WaitsAssumption == /\ Lag + BindTime + SubWait + Lag < RelayWait
                          /\ RelayWait + Lag < AgentWait
ASSUME CountsAssumption == IsFiniteSet(Asks) /\ Asks = 1..Cardinality(Asks) /\ MaxDrops \in Nat

VARIABLES asks,   \* of each open: where the agent is with it, how long, whose answer it was told
          hop,    \* of each open at each daemon: its handler
          wire,   \* events to subscribers and answers from them
          opening,   \* events a subscriber on its own host is busy with
          listens,   \* of each daemon: its subscriber's session, the events it numbered
          cut     \* the link between the daemons is silently dead

opvars == <<asks, hop, wire, opening, listens, cut>>

Last == Cardinality(Daemons)
Agent == 0
Browser == 3
NoOne == 4
NoAsk == [at |-> "none", age |-> 0, of |-> NoOne, by |-> NoOne]
NoHop == [at |-> "none", age |-> 0, id |-> 0, sess |-> 0]

OpensTypeOK ==
    /\ asks \in [Asks -> [at : {"none", "asked", "told"}, age : 0..AgentWait, of : Asks \cup {NoOne}, by : 0..4]]
    /\ hop \in [Asks -> [Daemons -> [at : {"none", "asked", "bind", "chosen", "sent", "done", "late"}, age : 0..RelayWait,
                                     id : 0..Cardinality(Asks), sess : 0..MaxDrops]]]
    /\ wire \subseteq [side : {"event", "reply"}, d : 0..Last, url : Asks, by : 0..4,
                       id : 0..Cardinality(Asks), sess : 0..MaxDrops, age : 0..Lag]
    /\ opening \subseteq [side : {"event"}, d : {Last}, url : Asks, by : {NoOne},
                       id : 0..Cardinality(Asks), sess : 0..MaxDrops, age : {0}]
    /\ listens \in [Daemons -> [sess : 0..MaxDrops, on : BOOLEAN, next : 0..Cardinality(Asks)]]
    /\ cut \in BOOLEAN

OpensInit ==
    /\ asks = [o \in Asks |-> NoAsk] /\ hop = [o \in Asks |-> [d \in Daemons |-> NoHop]]
    /\ wire = {} /\ opening = {} /\ cut = FALSE
    /\ listens \in [Daemons -> [sess : {0}, on : BOOLEAN, next : {0}]]

(* A message between the daemons: an event of 1, or an answer to it. *)
Crosses(m) == Last = 2 /\ m.d = 1

Sends(ms) == {m \in ms : ~(cut /\ Crosses(m))}

Live(m) == m.d = Agent \/ (listens[m.d].on /\ listens[m.d].sess = m.sess)

(* Daemon d's answer to the open o goes down the stream the agent opened   *)
(* for it, or back as the reply to the event that brought it; "by" is who  *)
(* knew it.                                                                *)
Reply(o, d, url, by) ==
    LET up == hop[o][1]
    IN [side |-> "reply", d |-> d - 1, url |-> url, by |-> by, age |-> 0,
        id |-> IF d = 1 THEN o ELSE up.id, sess |-> IF d = 1 THEN 0 ELSE up.sess]

Settles(at, o, d, url, by, rest) ==
    /\ hop' = [hop EXCEPT ![o][d].at = at]
    /\ wire' = rest \cup Sends({Reply(o, d, url, by)})

Answers(o, d, url, by, rest) == Settles("done", o, d, url, by, rest)

(***************************************************************************)
(* A daemon's handler.                                                     *)
(***************************************************************************)

(* The shim's URL, over the agent's socket and an event stream. *)
GuestOpens(o) ==
    /\ asks[o].at = "none" /\ \A q \in Asks : asks[q].age <= Spread
    /\ asks' = [asks EXCEPT ![o].at = "asked"] /\ hop' = [hop EXCEPT ![o][1].at = "asked"]
    /\ UNCHANGED <<wire, opening, listens, cut>>

(* bridgeOpen: refused, by a limit or for want of a subscriber, or one is  *)
(* chosen, for whom a port may have to be bound; a relay's daemon binds.   *)
Choose(o, d) ==
    /\ hop[o][d].at = "asked"
    /\ \/ Answers(o, d, o, d, wire)
       \/ /\ listens[d].on
          /\ \E at \in {"chosen"} \cup {b \in {"bind"} : d = Last} :
                hop' = [hop EXCEPT ![o][d] = [@ EXCEPT !.at = at, !.sess = listens[d].sess]]
          /\ UNCHANGED wire
    /\ UNCHANGED <<asks, opening, listens, cut>>

Bound(o, d) ==
    /\ hop[o][d].at = "bind"
    /\ \/ Answers(o, d, o, d, wire)
       \/ hop' = [hop EXCEPT ![o][d].at = "chosen", ![o][d].age = 0] /\ UNCHANGED wire
    /\ UNCHANGED <<asks, opening, listens, cut>>

EventId(d) == listens[d].next + 1

(* deliverTo: to the session chosen, if it is still there. *)
Deliver(o, d) ==
    /\ hop[o][d].at = "chosen"
    /\ IF listens[d].on /\ listens[d].sess = hop[o][d].sess
       THEN /\ hop' = [hop EXCEPT ![o][d] = [@ EXCEPT !.at = "sent", !.age = 0, !.id = EventId(d)]]
            /\ listens' = [listens EXCEPT ![d].next = @ + 1]
            /\ wire' = wire \cup Sends({[side |-> "event", d |-> d, url |-> o, by |-> NoOne, age |-> 0,
                                        id |-> EventId(d), sess |-> hop[o][d].sess]})
       ELSE Answers(o, d, o, d, wire) /\ UNCHANGED listens
    /\ UNCHANGED <<asks, opening, cut>>

(* Mutant of WaitOn: every subscriber gets a local one's time. *)
WaitOn_Local(d) == SubWait

(* A relay's daemon has its own bind and its own wait before it answers. *)
WaitOn(d) == IF d = Last THEN SubWait ELSE RelayWait

GivesUp(o, d) ==
    /\ hop[o][d].at = "sent"
    /\ IF listens[d].on /\ listens[d].sess = hop[o][d].sess
       THEN hop[o][d].age >= WaitOn(d) /\ Settles("late", o, d, o, d, wire)
       ELSE Answers(o, d, o, d, wire)
    /\ UNCHANGED <<asks, opening, listens, cut>>

(* routeReply: to the delivery that waits for it; a late one is dropped. *)
Routed(m) ==
    /\ m \in wire /\ m.side = "reply" /\ m.d # Agent
    /\ LET waiting == {o \in Asks : hop[o][m.d].at = "sent" /\ hop[o][m.d].id = m.id /\ hop[o][m.d].sess = m.sess}
       IN IF waiting = {} \/ ~Live(m) THEN wire' = wire \ {m} /\ UNCHANGED hop
          ELSE \E o \in waiting : Answers(o, m.d, m.url, m.by, wire \ {m})
    /\ UNCHANGED <<asks, opening, listens, cut>>

(***************************************************************************)
(* Whom it asks.                                                           *)
(***************************************************************************)

(* A relay's event is an open to the daemon that holds the relay; any other*)
(* is a browser's.                                                         *)
Taken(m) ==
    /\ m \in wire /\ m.side = "event" /\ wire' = wire \ {m}
    /\ opening' = IF m.d = Last /\ Live(m) THEN opening \cup {[m EXCEPT !.age = 0]} ELSE opening
    /\ hop' = IF m.d < Last /\ Live(m) THEN [hop EXCEPT ![m.url][m.d + 1].at = "asked"] ELSE hop
    /\ UNCHANGED <<asks, listens, cut>>

(* OpenOnHost answers at any time, or never. *)
Browses(m) ==
    /\ m \in opening /\ opening' = opening \ {m}
    /\ wire' = wire \cup {[m EXCEPT !.side = "reply", !.by = Browser]}
    /\ UNCHANGED <<asks, hop, listens, cut>>

Faults == (IF cut THEN 1 ELSE 0) + (IF Last = 2 THEN listens[1].sess ELSE 0) + listens[Last].sess

(* Its session ends with what is on it, or another one takes its place. *)
Drop(d) ==
    /\ listens[d].on /\ Faults < MaxDrops
    /\ \E on \in BOOLEAN : listens' = [listens EXCEPT ![d].sess = @ + 1, ![d].on = on]
    /\ wire' = {m \in wire : m.d # d} /\ opening' = {m \in opening : m.d # d}
    /\ UNCHANGED <<asks, hop, cut>>

Cut ==
    /\ ~cut /\ Last = 2 /\ Faults < MaxDrops /\ cut' = TRUE /\ wire' = {m \in wire : ~Crosses(m)}
    /\ UNCHANGED <<asks, hop, opening, listens>>

(***************************************************************************)
(* The agent and the clock.                                                *)
(***************************************************************************)

Told(m) ==
    /\ m \in wire /\ m.d = Agent /\ wire' = wire \ {m}
    /\ asks' = IF asks[m.id].at = "asked"
               THEN [asks EXCEPT ![m.id] = [@ EXCEPT !.at = "told", !.of = m.url, !.by = m.by]] ELSE asks
    /\ UNCHANGED <<hop, opening, listens, cut>>

AgentGivesUp(o) ==
    /\ asks[o].at = "asked" /\ asks[o].age >= AgentWait
    /\ asks' = [asks EXCEPT ![o].at = "told", ![o].by = Agent]
    /\ UNCHANGED <<hop, wire, opening, listens, cut>>

Waits(h) == h.at \in {"bind", "sent"}

(* Time passes only while nothing is due. *)
Tick ==
    /\ \A m \in wire : m.age < Lag
    /\ \A o \in Asks : /\ asks[o].at = "asked" => asks[o].age < AgentWait
                       /\ \A d \in Daemons : LET h == hop[o][d]
                                             IN /\ h.at \notin {"asked", "chosen"}
                                                /\ h.at = "bind" => h.age < BindTime
                                                /\ h.at = "sent" => h.age < WaitOn(d) /\ listens[d].on /\ listens[d].sess = h.sess
    /\ wire' = {[m EXCEPT !.age = @ + 1] : m \in wire}
    /\ asks' = [o \in Asks |-> [asks[o] EXCEPT !.age = IF asks[o].at = "asked" THEN @ + 1 ELSE @]]
    /\ hop' = [o \in Asks |-> [d \in Daemons |-> [hop[o][d] EXCEPT !.age = IF Waits(hop[o][d]) THEN @ + 1 ELSE @]]]
    /\ (\E o \in Asks : asks[o].at = "asked") /\ UNCHANGED <<opening, listens, cut>>

OpensNext ==
    \/ \E o \in Asks : GuestOpens(o) \/ AgentGivesUp(o)
    \/ \E o \in Asks, d \in Daemons : Choose(o, d) \/ Bound(o, d) \/ Deliver(o, d) \/ GivesUp(o, d)
    \/ \E m \in wire : Routed(m) \/ Taken(m) \/ Told(m)
    \/ \E m \in opening : Browses(m)
    \/ \E d \in Daemons : Drop(d)
    \/ Cut \/ Tick

OpensSpec == OpensInit /\ [][OpensNext]_opvars

(***************************************************************************)
(* What the guest is told is the answer to its own open, however many are  *)
(* under way and however late the others' answers come.                    *)
(***************************************************************************)
OwnAnswer == \A o \in Asks : asks[o].of \in {o, NoOne}

(***************************************************************************)
(* Whoever gives up first is the one that knows why: the agent hears from  *)
(* a daemon before its own time is up, and daemon 1 hears from daemon 2 in *)
(* time, unless their link is dead.                                        *)
(***************************************************************************)
InnerFirst ==
    \A o \in Asks : asks[o].by # Agent /\ (hop[o][1].at = "late" /\ Last = 2 => cut)

(***************************************************************************)
(* Each open is answered for itself, by the one that knows why.            *)
(***************************************************************************)
RightAnswer == OwnAnswer /\ InnerFirst
================================================================================
