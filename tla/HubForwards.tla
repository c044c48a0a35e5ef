----------------------------- MODULE HubForwards -----------------------------
(***************************************************************************)
(* Forwards to a machine on a hub (session/transport_hub.go): the laptop's *)
(* daemon holds one relay, a `__session` on the hub over its own master,   *)
(* asks the hub's daemon for each guest port and binds an -L to the hub    *)
(* port it is given (session/daemon_session.go, daemon.go, relay.go).      *)
(* Either side may lose its transport, and a link may go silent.           *)
(***************************************************************************)
EXTENDS Naturals, Sequences, FiniteSets

CONSTANTS Guests,    \* guest ports
          HubPorts,  \* ports the hub may bind for them
          MaxFaults  \* bounds the transports lost and links gone silent

ASSUME HubAssumption == 0 \notin HubPorts /\ MaxFaults \in Nat

VARIABLES wanted,    \* the forwards the laptop's daemon owns
          far,       \* the laptop's relay (0: none), and is it marked dead
          fw,        \* the laptop's side of each forward
          links,     \* every relay: its link, the hub's session, lines unread
          hub,       \* the hub daemon: transport up, port and owners per guest
          faults

hvars == <<wanted, far, fw, links, hub, faults>>

Relays == 1..(MaxFaults + 1)
NoLink == [wire |-> "none", session |-> "none", lines |-> <<>>]
Unbound == [port |-> 0, owners |-> {}]

HubTypeOK ==
    /\ wanted \subseteq Guests
    /\ far \in [relay : {0} \cup Relays, dead : BOOLEAN]
    /\ fw \in [Guests -> [state : {"pending", "asking", "pendingreply", "replied", "up"}, port : {0} \cup HubPorts]]
    /\ links \in [Relays -> [wire : {"none", "up", "silent", "closed"},
                             session : {"none", "open", "condemned", "ended", "closed"},
                             lines : Seq([op : {"add", "remove"}, guest : Guests])]]
    /\ hub \in [up : BOOLEAN, fwd : [Guests -> [port : {0} \cup HubPorts, owners : SUBSET Relays]]]
    /\ faults \in 0..MaxFaults
    /\ \A g \in Guests : fw[g].port # 0 <=> fw[g].state \in {"replied", "up"}

HubInit ==
    /\ wanted = {} /\ far = [relay |-> 0, dead |-> FALSE]
    /\ fw = [g \in Guests |-> [state |-> "pending", port |-> 0]]
    /\ links = [n \in Relays |-> NoLink]
    /\ hub = [up |-> TRUE, fwd |-> [g \in Guests |-> Unbound]]
    /\ faults = 0

(* A forward loses an owner; with none left its port is freed. *)
Without(fwd, owners) ==
    [g \in Guests |-> LET left == fwd[g].owners \ owners
                      IN IF left = {} THEN Unbound ELSE [fwd[g] EXCEPT !.owners = left]]

(* A line written on a relay the laptop has not found dead. *)
Send(op, g) ==
    links' = IF far.dead \/ links[far.relay].wire = "closed" THEN links
             ELSE [links EXCEPT ![far.relay].lines = Append(@, [op |-> op, guest |-> g])]

Want(g) ==
    /\ g \notin wanted /\ wanted' = wanted \cup {g}
    /\ UNCHANGED <<far, fw, links, hub, faults>>

(* remove: the -L is cancelled and the hub told; a bind still in flight    *)
(* finds its slot gone and does the same when it comes.                    *)
Unwant(g) ==
    /\ g \in wanted /\ wanted' = wanted \ {g}
    /\ IF fw[g].state = "up"
       THEN fw' = [fw EXCEPT ![g] = [state |-> "pending", port |-> 0]] /\ Send("remove", g)
       ELSE UNCHANGED <<fw, links>>
    /\ UNCHANGED <<far, hub, faults>>

(***************************************************************************)
(* The laptop's daemon.                                                    *)
(***************************************************************************)

(* The hub's daemon refuses a relay while its own transport is down. *)
OpenRelay ==
    /\ far.relay = 0 /\ hub.up
    /\ \E n \in Relays :
          /\ links[n].wire = "none" /\ \A k \in 1..n - 1 : links[k].wire # "none"
          /\ links' = [links EXCEPT ![n] = [NoLink EXCEPT !.wire = "up", !.session = "open"]]
          /\ far' = [relay |-> n, dead |-> FALSE]
    /\ UNCHANGED <<wanted, fw, hub, faults>>

(* restore, the retry ticker, or an add: the hub is asked for the port. *)
Ask(g) ==
    /\ far.relay # 0 /\ ~far.dead /\ g \in wanted /\ fw[g].state = "pending"
    /\ fw' = [fw EXCEPT ![g] = [state |-> "asking", port |-> 0]]
    /\ Send("add", g)
    /\ UNCHANGED <<wanted, far, hub, faults>>

(* The -L binds; or the forward was removed meanwhile. *)
BindLocal(g) ==
    /\ fw[g].state = "replied" /\ ~far.dead
    /\ IF g \in wanted THEN fw' = [fw EXCEPT ![g].state = "up"] /\ UNCHANGED links
       ELSE fw' = [fw EXCEPT ![g] = [state |-> "pending", port |-> 0]] /\ Send("remove", g)
    /\ UNCHANGED <<wanted, far, hub, faults>>

(* The -L fails: the hub's side is given back and the forward waits. *)
LocalFails(g) ==
    /\ fw[g].state = "replied" /\ ~far.dead /\ faults < MaxFaults
    /\ fw' = [fw EXCEPT ![g] = [state |-> "pending", port |-> 0]]
    /\ Send("remove", g) /\ faults' = faults + 1
    /\ UNCHANGED <<wanted, far, hub>>

(* markDead: the hub answered `pending`, or closed the relay. *)
SeesEnd ==
    /\ far.relay # 0 /\ ~far.dead
    /\ \/ links[far.relay].wire = "closed"
       \/ \E g \in Guests : fw[g].state = "pendingreply"
    /\ far' = [far EXCEPT !.dead = TRUE]
    /\ UNCHANGED <<wanted, fw, links, hub, faults>>

(* Mutant of PingMissed: no heartbeat, only an add that is not answered. *)
PingMissed_AddsOnly ==
    /\ \E g \in Guests : fw[g].state = "asking"
    /\ far.relay # 0 /\ ~far.dead /\ links[far.relay].wire = "silent"
    /\ far' = [far EXCEPT !.dead = TRUE]
    /\ UNCHANGED <<wanted, fw, links, hub, faults>>

(* An add or a heartbeat that no answer comes to. *)
PingMissed ==
    /\ far.relay # 0 /\ ~far.dead /\ links[far.relay].wire = "silent"
    /\ far' = [far EXCEPT !.dead = TRUE]
    /\ UNCHANGED <<wanted, fw, links, hub, faults>>

(* The master dies, or a call is slow: the relay is given up all the same. *)
MasterDies ==
    /\ far.relay # 0 /\ ~far.dead /\ faults < MaxFaults
    /\ far' = [far EXCEPT !.dead = TRUE] /\ faults' = faults + 1
    /\ UNCHANGED <<wanted, fw, links, hub>>

(* onDead closes the transport: every -L goes with the master. *)
LaptopOnDead ==
    /\ far.dead
    /\ links' = [links EXCEPT ![far.relay].wire = IF @ = "up" THEN "closed" ELSE @]
    /\ fw' = [g \in Guests |-> [state |-> "pending", port |-> 0]]
    /\ far' = [relay |-> 0, dead |-> FALSE]
    /\ UNCHANGED <<wanted, hub, faults>>

(***************************************************************************)
(* The hub's daemon.                                                       *)
(***************************************************************************)

(* Mutant of Answer: `pending` in an answer is not looked at. *)
Answer_AnyState(n, g, state, port) ==
    fw' = IF far.relay = n /\ ~far.dead /\ links[n].wire = "up" /\ fw[g].state = "asking"
          THEN [fw EXCEPT ![g] = [state |-> "replied", port |-> port]] ELSE fw

Answer(n, g, state, port) ==
    fw' = IF far.relay = n /\ ~far.dead /\ links[n].wire = "up" /\ fw[g].state = "asking"
          THEN [fw EXCEPT ![g] = [state |-> state, port |-> port]] ELSE fw

Taken == UNION {{hub.fwd[g].port} : g \in Guests}

(* The relay's worker runs one line: an add joins the forward there is or  *)
(* binds a port; with the transport gone it only records it as pending.    *)
HubAdd(n) ==
    /\ links[n].lines # <<>> /\ Head(links[n].lines).op = "add" /\ links[n].session \in {"open", "condemned"}
    /\ LET g == Head(links[n].lines).guest
           held == hub.fwd[g]
       IN \E p \in IF held.port # 0 \/ ~hub.up THEN {held.port} ELSE HubPorts \ Taken :
             /\ hub' = [hub EXCEPT !.fwd[g] = [port |-> p, owners |-> held.owners \cup {n}]]
             /\ Answer(n, g, IF p = 0 THEN "pendingreply" ELSE "replied", p)
    /\ links' = [links EXCEPT ![n].lines = Tail(@)]
    /\ UNCHANGED <<wanted, far, faults>>

HubRemove(n) ==
    /\ links[n].lines # <<>> /\ Head(links[n].lines).op = "remove" /\ links[n].session \in {"open", "condemned"}
    /\ LET g == Head(links[n].lines).guest
       IN hub' = [hub EXCEPT !.fwd[g] = Without(hub.fwd, {n})[g]]
    /\ links' = [links EXCEPT ![n].lines = Tail(@)]
    /\ UNCHANGED <<wanted, far, fw, faults>>

(* Mutant of HubOnDead: relays stay open across the outage. *)
HubOnDead_KeepsRelays ==
    /\ hub.up /\ faults < MaxFaults /\ faults' = faults + 1
    /\ hub' = [up |-> FALSE, fwd |-> [g \in Guests |-> [hub.fwd[g] EXCEPT !.port = 0]]]
    /\ UNCHANGED <<wanted, far, fw, links>>

(* onDead on the hub: the relays' forwards go in the critical section that *)
(* marks it reconnecting; their connections are closed after it.           *)
HubOnDead ==
    /\ hub.up /\ faults < MaxFaults /\ faults' = faults + 1
    /\ LET gone == {n \in Relays : links[n].session = "open"}
       IN /\ hub' = [up |-> FALSE, fwd |-> Without(hub.fwd, gone)]
          /\ links' = [n \in Relays |-> IF n \in gone THEN [links[n] EXCEPT !.session = "condemned"] ELSE links[n]]
    /\ UNCHANGED <<wanted, far, fw>>

(* restore on the hub: what is pending is bound again, at any free port. *)
HubRestore ==
    /\ ~hub.up
    /\ \E p \in [Guests -> {0} \cup HubPorts] :
          /\ \A g \in Guests : (p[g] # 0) <=> (hub.fwd[g].owners # {})
          /\ \A g, k \in Guests : p[g] = p[k] /\ p[g] # 0 => g = k
          /\ hub' = [up |-> TRUE, fwd |-> [g \in Guests |-> [hub.fwd[g] EXCEPT !.port = p[g]]]]
    /\ UNCHANGED <<wanted, far, fw, links, faults>>

(* Mutant of SessionEnds: a silent relay has no read deadline. *)
SessionEnds_NoDeadline(n) ==
    /\ \/ links[n].session = "condemned"
       \/ links[n].session = "open" /\ links[n].wire = "closed"
    /\ links' = [links EXCEPT ![n].session = "ended", ![n].lines = <<>>,
                              ![n].wire = IF @ = "up" THEN "closed" ELSE @]
    /\ UNCHANGED <<wanted, far, fw, hub, faults>>

(* The session's reader ends: closed here, closed there, or silent for     *)
(* heartbeatMisses intervals.  Lines not begun are skipped.                *)
SessionEnds(n) ==
    /\ \/ links[n].session = "condemned"
       \/ links[n].session = "open" /\ links[n].wire \in {"closed", "silent"}
    /\ links' = [links EXCEPT ![n].session = "ended", ![n].lines = <<>>,
                              ![n].wire = IF @ = "up" THEN "closed" ELSE @]
    /\ UNCHANGED <<wanted, far, fw, hub, faults>>

CloseHubSession(n) ==
    /\ links[n].session = "ended"
    /\ links' = [links EXCEPT ![n].session = "closed"]
    /\ hub' = [hub EXCEPT !.fwd = Without(@, {n})]
    /\ UNCHANGED <<wanted, far, fw, faults>>

(* A link goes without a FIN: a laptop asleep, a network gone. *)
GoesSilent(n) ==
    /\ links[n].wire = "up" /\ faults < MaxFaults /\ faults' = faults + 1
    /\ links' = [links EXCEPT ![n].wire = "silent", ![n].lines = <<>>]
    /\ UNCHANGED <<wanted, far, fw, hub>>

Relayed(n) == HubAdd(n) \/ HubRemove(n) \/ CloseHubSession(n)
Laptop(g) == Ask(g) \/ BindLocal(g)

HubNext ==
    \/ \E g \in Guests : Want(g) \/ Unwant(g) \/ Laptop(g) \/ LocalFails(g)
    \/ OpenRelay \/ SeesEnd \/ PingMissed \/ MasterDies \/ LaptopOnDead
    \/ HubOnDead \/ HubRestore
    \/ \E n \in Relays : Relayed(n) \/ SessionEnds(n) \/ GoesSilent(n)

(* Every goroutine goes on (a relay's reader and its worker are two), both *)
(* reconnect loops redial and both ends count missed heartbeats.           *)
HubFair ==
    /\ \A g \in Guests : WF_hvars(Laptop(g))
    /\ WF_hvars(OpenRelay) /\ WF_hvars(SeesEnd) /\ WF_hvars(PingMissed)
    /\ WF_hvars(LaptopOnDead) /\ WF_hvars(HubRestore)
    /\ \A n \in Relays : WF_hvars(Relayed(n)) /\ WF_hvars(SessionEnds(n))

HubSpec == HubInit /\ [][HubNext]_hvars /\ HubFair

Carried(g) ==
    /\ fw[g].state = "up" /\ far.relay # 0
    /\ hub.fwd[g].port = fw[g].port /\ far.relay \in hub.fwd[g].owners

(***************************************************************************)
(* A forward the laptop reports up, on a relay neither end has given up,   *)
(* points at the port the hub has bound for that guest port and holds for  *)
(* this relay: never at a port nothing, or another guest, listens on.      *)
(***************************************************************************)
UpMeansCarried ==
    \A g \in Guests :
        /\ fw[g].state = "up" /\ ~far.dead
        /\ links[far.relay].session = "open" /\ links[far.relay].wire = "up"
        => Carried(g)

(***************************************************************************)
(* Once the links hold, a forward that stays wanted comes up end to end    *)
(* and stays.                                                              *)
(***************************************************************************)
EndToEnd == \A g \in Guests : <>[](g \in wanted) => <>[]Carried(g)

(***************************************************************************)
(* The hub lets go of a relay whose laptop is gone without a word, and of  *)
(* everything that relay owned.                                            *)
(***************************************************************************)
HubReleases ==
    \A n \in Relays : links[n].wire = "silent" ~> \A g \in Guests : n \notin hub.fwd[g].owners
==============================================================================
