---------------------------- MODULE ForwardTable ----------------------------
(***************************************************************************)
(* What a forward daemon on smol promises, without its handlers, cells and *)
(* transports: a table with one forward per guest port, and the host ports *)
(* it listens on.                                                          *)
(*                                                                         *)
(* Who asks is added at once and who leaves is gone from every forward at  *)
(* once; a forward is bound only to a listener that is open, which stays   *)
(* open for as long as it is bound; an exact forward never moves; an       *)
(* outage makes every forward pending and takes the relays; and the daemon *)
(* ends with no listener left.                                             *)
(***************************************************************************)
CONSTANTS Guests,     \* guest ports
          Hosts,      \* host ports
          Conns,      \* connections
          Conf, TTL   \* the owners that are no connection

VARIABLES forward,         \* of each guest port: its owners, host port, and whether exact and bound
          clients, relays, \* the connections that are sessions, and the relays among them
          ports,           \* the listeners on the host
          taken,           \* the host ports other programs hold
          phase            \* "serving", "closing", "ended"

tablevars == <<forward, clients, relays, ports, taken, phase>>

Free == [owners |-> {}, host |-> 0, exact |-> FALSE, bound |-> FALSE]
Listener(g, h) == [host |-> h, guest |-> g]

\* f once the owners in D gave it up, and once it lost its listener.
Without(f, D) == IF f.owners \subseteq D THEN Free ELSE [f EXCEPT !.owners = @ \ D]
Pending(f) == [owners |-> f.owners, host |-> f.host, exact |-> f.exact, bound |-> FALSE]

TableInit ==
  /\ forward = [g \in Guests |-> Free]
  /\ clients = {} /\ relays = {} /\ ports = {} /\ taken = {}
  /\ phase = "serving"

Join(c, asRelay) ==
  /\ c \notin clients /\ (asRelay => phase = "serving")
  /\ clients' = clients \union {c}
  /\ relays' = IF asRelay THEN relays \union {c} ELSE relays
  /\ UNCHANGED <<forward, ports, taken, phase>>

Leave(c) ==
  /\ clients' = clients \ {c} /\ relays' = relays \ {c}
  /\ forward' = [g \in Guests |-> Without(forward[g], {c})]
  /\ UNCHANGED <<ports, taken, phase>>

\* The first add chooses the port; a later exact one has to agree with it.
Add(g, o, h, exact) ==
  /\ o \in clients \union {Conf, TTL}
  /\ (forward[g] # Free /\ exact) => h = forward[g].host
  /\ forward' = [forward EXCEPT ![g] =
       IF @ = Free THEN [owners |-> {o}, host |-> h, exact |-> exact, bound |-> FALSE]
                   ELSE [owners |-> @.owners \union {o}, host |-> @.host,
                         exact |-> @.exact \/ exact, bound |-> @.bound]]
  /\ UNCHANGED <<clients, relays, ports, taken, phase>>

Remove(g, o) ==
  /\ forward' = [forward EXCEPT ![g] = Without(@, {o})]
  /\ UNCHANGED <<clients, relays, ports, taken, phase>>

\* `ports down` takes every conf owner, an expiry some of the ttl ones.
Down ==
  /\ forward' = [g \in Guests |-> Without(forward[g], {Conf})]
  /\ UNCHANGED <<clients, relays, ports, taken, phase>>
Expire(G) ==
  /\ forward' = [g \in Guests |-> IF g \in G THEN Without(forward[g], {TTL}) ELSE forward[g]]
  /\ UNCHANGED <<clients, relays, ports, taken, phase>>

\* To an open listener, and if exact to the port it has.
Bind(g, h, exact) ==
  /\ phase = "serving"
  /\ forward[g] # Free /\ ~forward[g].bound /\ Listener(g, h) \in ports
  /\ (forward[g].exact => exact) /\ (exact => h = forward[g].host)
  /\ forward' = [forward EXCEPT ![g] =
       [owners |-> @.owners, host |-> h, exact |-> exact, bound |-> TRUE]]
  /\ UNCHANGED <<clients, relays, ports, taken, phase>>

Listen(g, h) ==
  /\ h \notin taken /\ \A l \in ports : l.host # h
  /\ ports' = ports \union {Listener(g, h)}
  /\ UNCHANGED <<forward, clients, relays, taken, phase>>

Unlisten(L) ==
  /\ \A g \in Guests : forward[g].bound => Listener(g, forward[g].host) \notin L
  /\ ports' = ports \ L
  /\ UNCHANGED <<forward, clients, relays, taken, phase>>

\* Other programs on the host.
Takes(h) ==
  /\ \A l \in ports : l.host # h
  /\ taken' = taken \union {h}
  /\ UNCHANGED <<forward, clients, relays, ports, phase>>
Frees(h) ==
  /\ taken' = taken \ {h}
  /\ UNCHANGED <<forward, clients, relays, ports, phase>>

Outage ==
  /\ phase = "serving"
  /\ forward' = [g \in Guests |-> Pending(Without(forward[g], relays))]
  /\ clients' = clients \ relays /\ relays' = {}
  /\ UNCHANGED <<ports, taken, phase>>

\* The end: nothing is bound again, the forwards are forgotten, every listener
\* is closed, and only then the daemon is gone.
Close ==
  /\ phase = "serving" /\ phase' = "closing"
  /\ forward' = [g \in Guests |-> Pending(forward[g])]
  /\ UNCHANGED <<clients, relays, ports, taken>>
Forget ==
  /\ phase = "closing"
  /\ forward' = [g \in Guests |-> Free]
  /\ UNCHANGED <<clients, relays, ports, taken, phase>>
End ==
  /\ phase = "closing" /\ phase' = "ended"
  /\ ports = {}
  /\ UNCHANGED <<forward, clients, relays, ports, taken>>

Sessions == \E c \in Conns : Leave(c) \/ \E asRelay \in BOOLEAN : Join(c, asRelay)
Changes ==
  \/ \E g \in Guests, o \in Conns \union {Conf, TTL} :
       Remove(g, o) \/ \E h \in Hosts, exact \in BOOLEAN : Add(g, o, h, exact)
  \/ \E g \in Guests, h \in Hosts, exact \in BOOLEAN : Bind(g, h, exact)
  \/ Down \/ Outage \/ \E G \in SUBSET Guests : Expire(G)
Host ==
  \/ \E g \in Guests, h \in Hosts : Listen(g, h)
  \/ \E L \in SUBSET ports : Unlisten(L)
  \/ \E h \in Hosts : Takes(h) \/ Frees(h)

TableNext == phase # "ended" /\ (Sessions \/ Changes \/ Host \/ Close \/ Forget \/ End)

TableSpec == TableInit /\ [][TableNext]_tablevars
=============================================================================
