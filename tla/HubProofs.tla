------------------------------ MODULE HubProofs ------------------------------
(***************************************************************************)
(* What holds between a laptop and its hub, and between a daemon and its   *)
(* agent, for any ports, any bounds and any number of outages: a forward a *)
(* laptop reports up is carried by the hub, a closed transport leaves no   *)
(* agent exec behind, and a watcher shows rows of the hub they came from.  *)
(***************************************************************************)
EXTENDS MCHub, TLAPS

(***************************************************************************)
(* Forwards over a relay (HubForwards).                                    *)
(***************************************************************************)
Lines == [op : {"add", "remove"}, guest : Guests]
Sides == [state : {"pending", "asking", "pendingreply", "replied", "up"}, port : {0} \cup HubPorts]
Ends == [wire : {"none", "up", "silent", "closed"},
         session : {"none", "open", "condemned", "ended", "closed"}, lines : Seq(Lines)]
HubSides == [port : {0} \cup HubPorts, owners : SUBSET Relays]

(* The hub has no relay open while its transport is down, the laptop no    *)
(* forward while it has no relay.                                          *)
Down ==
    /\ ~hub.up => \A n \in Relays : links[n].session # "open"
    /\ far.relay = 0 => ~far.dead /\ \A g \in Guests : fw[g].state = "pending"

(* Neither end has given the relay up. *)
Live == far.relay # 0 /\ ~far.dead /\ links[far.relay].session = "open" /\ links[far.relay].wire = "up"

(* What of the unread lines is about g. *)
NoAdd(ls, g) == \A i \in 1..Len(ls) : ls[i].op = "add" => ls[i].guest # g
AddIsLast(ls, g) == \A i, j \in 1..Len(ls) : ls[i].op = "add" /\ ls[i].guest = g /\ i < j => ls[j].guest # g
NoLine(ls, g) == \A i \in 1..Len(ls) : ls[i].guest # g

(* No add is unread unless one is awaited, and then nothing comes after    *)
(* it; once it is answered nothing unread takes the port back.             *)
Settled(ls, g) ==
    /\ fw[g].state # "asking" => NoAdd(ls, g)
    /\ fw[g].state = "asking" => AddIsLast(ls, g)
    /\ fw[g].state \in {"replied", "up"} =>
          NoLine(ls, g) /\ hub.fwd[g].port = fw[g].port /\ far.relay \in hub.fwd[g].owners

Agreed == Live => \A g \in Guests : Settled(links[far.relay].lines, g)

HubInv == HubTypeOK /\ Down /\ Agreed

(* What is left of a relay's lines once the first is read. *)
LEMMA Tails ==
  ASSUME NEW s \in Seq(Lines), s # <<>>
  PROVE  /\ Tail(s) \in Seq(Lines) /\ Len(Tail(s)) = Len(s) - 1 /\ Len(s) \in Nat /\ Len(s) >= 1
         /\ Head(s) = s[1] /\ s[1] \in Lines
         /\ \A j \in 1..Len(Tail(s)) : Tail(s)[j] = s[j + 1] /\ j + 1 \in 1..Len(s)
  OBVIOUS

(* A relay's lines with one more written. *)
LEMMA Appends ==
  ASSUME NEW s \in Seq(Lines), NEW x \in Lines
  PROVE  /\ Append(s, x) \in Seq(Lines) /\ Len(Append(s, x)) = Len(s) + 1 /\ Len(s) \in Nat
         /\ Append(s, x)[Len(s) + 1] = x
         /\ \A j \in 1..Len(s) : Append(s, x)[j] = s[j]
  OBVIOUS

(* Reading a line and writing one. *)
LEMMA TailKeeps ==
  ASSUME NEW s \in Seq(Lines), s # <<>>, NEW g \in Guests
  PROVE  /\ NoAdd(s, g) => NoAdd(Tail(s), g)
         /\ AddIsLast(s, g) => AddIsLast(Tail(s), g)
         /\ NoLine(s, g) => NoLine(Tail(s), g)
         /\ NoLine(s, g) => Head(s).guest # g
         /\ Head(s).op = "add" /\ Head(s).guest = g => ~NoAdd(s, g)
         /\ Head(s).op = "add" /\ Head(s).guest = g /\ AddIsLast(s, g) => NoLine(Tail(s), g)
<1>1. /\ Len(Tail(s)) = Len(s) - 1 /\ Len(s) \in Nat /\ Len(s) >= 1 /\ Head(s) = s[1]
      /\ \A j \in 1..Len(Tail(s)) : Tail(s)[j] = s[j + 1] /\ j + 1 \in 1..Len(s) /\ 1 < j + 1 /\ 1 \in 1..Len(s)
  BY Tails
<1>2. NoAdd(s, g) => NoAdd(Tail(s), g)
  BY <1>1 DEF NoAdd
<1>3. AddIsLast(s, g) => AddIsLast(Tail(s), g)
  <2>1. \A i, j \in 1..Len(Tail(s)) : i < j => i + 1 < j + 1
    BY <1>1
  <2> QED  BY <1>1, <2>1 DEF AddIsLast
<1>4. NoLine(s, g) => NoLine(Tail(s), g) /\ Head(s).guest # g
  BY <1>1 DEF NoLine
<1>5. Head(s).op = "add" /\ Head(s).guest = g => ~NoAdd(s, g)
  BY <1>1 DEF NoAdd
<1>6. Head(s).op = "add" /\ Head(s).guest = g /\ AddIsLast(s, g) => NoLine(Tail(s), g)
  BY <1>1 DEF AddIsLast, NoLine
<1> QED  BY <1>2, <1>3, <1>4, <1>5, <1>6

(* What a line for one port says about the others, and about its own. *)
LEMMA AppendKeeps ==
  ASSUME NEW s \in Seq(Lines), NEW x \in Lines, NEW g \in Guests
  PROVE  /\ NoAdd(s, g) /\ (x.op = "remove" \/ x.guest # g) => NoAdd(Append(s, x), g)
         /\ AddIsLast(s, g) /\ x.guest # g => AddIsLast(Append(s, x), g)
         /\ NoAdd(s, g) => AddIsLast(Append(s, x), g)
         /\ NoLine(s, g) /\ x.guest # g => NoLine(Append(s, x), g)
<1>1. /\ Len(s) \in Nat
      /\ \A i \in 1..Len(Append(s, x)) : \/ i \in 1..Len(s) /\ Append(s, x)[i] = s[i]
                                         \/ i = Len(s) + 1 /\ Append(s, x)[i] = x
  BY Appends
<1>2. \A i, j \in 1..Len(Append(s, x)) : i < j => i \in 1..Len(s)
  BY Appends
<1>3. NoAdd(s, g) /\ (x.op = "remove" \/ x.guest # g) => NoAdd(Append(s, x), g)
  BY <1>1 DEF NoAdd
<1>4. AddIsLast(s, g) /\ x.guest # g => AddIsLast(Append(s, x), g)
  BY <1>1, <1>2 DEF AddIsLast
<1>5. NoAdd(s, g) => AddIsLast(Append(s, x), g)
  BY <1>1, <1>2 DEF AddIsLast, NoAdd
<1>6. NoLine(s, g) /\ x.guest # g => NoLine(Append(s, x), g)
  BY <1>1 DEF NoLine
<1> QED  BY <1>3, <1>4, <1>5, <1>6

(* The types, part by part. *)
LEMMA TypeParts == HubTypeOK =>
    /\ wanted \subseteq Guests /\ far \in [relay : {0} \cup Relays, dead : BOOLEAN]
    /\ fw \in [Guests -> Sides] /\ links \in [Relays -> Ends]
    /\ hub \in [up : BOOLEAN, fwd : [Guests -> HubSides]]
    /\ \A g \in Guests : fw[g].port # 0 <=> fw[g].state \in {"replied", "up"}
  BY DEF HubTypeOK, Sides, Ends, HubSides, Lines

(* No relay is the absence of one. *)
LEMMA RelaysNotZero == 0 \notin Relays
  BY DEF Relays

(* At first nothing is linked and nothing is up. *)
LEMMA HubInitInv == HubInit => HubInv
<1> SUFFICES ASSUME HubInit PROVE HubInv
  OBVIOUS
<1>1. [state |-> "pending", port |-> 0] \in Sides /\ NoLink \in Ends /\ Unbound \in HubSides
  BY DEF Sides, NoLink, Ends, Unbound, HubSides
<1>2. HubTypeOK
  BY <1>1, HubAssumption DEF HubInit, HubTypeOK, Sides, Ends, HubSides, Lines
<1>3. Down /\ Agreed
  BY DEF HubInit, Down, Agreed, Live
<1> QED  BY <1>2, <1>3 DEF HubInv

(* Who loses an owner keeps its port while another is left. *)
LEMMA WithoutParts ==
  ASSUME NEW fwd \in [Guests -> HubSides], NEW lost
  PROVE  /\ Without(fwd, lost) \in [Guests -> HubSides]
         /\ \A g \in Guests, n \in Relays : n \in fwd[g].owners /\ n \notin lost
               => /\ Without(fwd, lost)[g].port = fwd[g].port
                  /\ n \in Without(fwd, lost)[g].owners
<1>1. ASSUME NEW g \in Guests
      PROVE  /\ Without(fwd, lost)[g] = IF fwd[g].owners \ lost = {} THEN Unbound
                                        ELSE [fwd[g] EXCEPT !.owners = fwd[g].owners \ lost]
             /\ fwd[g] \in HubSides
  BY DEF Without
<1>2. Unbound \in HubSides
  BY DEF Unbound, HubSides
<1>3. ASSUME NEW g \in Guests PROVE Without(fwd, lost)[g] \in HubSides
  <2>1. [fwd[g] EXCEPT !.owners = fwd[g].owners \ lost] \in HubSides
    BY <1>1, <1>3 DEF HubSides
  <2> QED  BY <1>1, <1>2, <1>3, <2>1
<1>4. Without(fwd, lost) \in [Guests -> HubSides]
  BY <1>3 DEF Without
<1>5. ASSUME NEW g \in Guests, NEW n \in Relays, n \in fwd[g].owners, n \notin lost
      PROVE  Without(fwd, lost)[g].port = fwd[g].port /\ n \in Without(fwd, lost)[g].owners
  <2>1. n \in fwd[g].owners \ lost /\ fwd[g] \in HubSides
    BY <1>1, <1>5
  <2>2. Without(fwd, lost)[g] = [fwd[g] EXCEPT !.owners = fwd[g].owners \ lost]
    BY <1>1, <2>1
  <2> QED  BY <2>1, <2>2 DEF HubSides
<1> QED  BY <1>4, <1>5

(* A line sent, if it is, is the last. *)
LEMMA Sent ==
  ASSUME HubTypeOK, NEW op \in {"add", "remove"}, NEW g \in Guests, Send(op, g), far.relay # 0
  PROVE  /\ links' \in [Relays -> Ends]
         /\ \A n \in Relays : links'[n].wire = links[n].wire /\ links'[n].session = links[n].session
         /\ \/ links'[far.relay].lines = Append(links[far.relay].lines, [op |-> op, guest |-> g])
            \/ far.dead \/ links[far.relay].wire = "closed"
<1>1. far.relay \in Relays /\ links \in [Relays -> Ends] /\ [op |-> op, guest |-> g] \in Lines
  BY TypeParts DEF Lines
<1>2. CASE far.dead \/ links[far.relay].wire = "closed"
  BY <1>1, <1>2 DEF Send
<1>3. CASE ~(far.dead \/ links[far.relay].wire = "closed")
  <2>1. links' = [links EXCEPT ![far.relay].lines = Append(links[far.relay].lines, [op |-> op, guest |-> g])]
    BY <1>3 DEF Send
  <2>2. Append(links[far.relay].lines, [op |-> op, guest |-> g]) \in Seq(Lines)
    BY <1>1, Appends DEF Ends
  <2> QED  BY <1>1, <2>1, <2>2 DEF Ends
<1> QED  BY <1>2, <1>3

(***************************************************************************)
(* Types.                                                                  *)
(***************************************************************************)

(* What a laptop's forward becomes keeps its type. *)
LEMMA SideTypes ==
  /\ \A s \in {"pending", "asking"} : [state |-> s, port |-> 0] \in Sides
  /\ \A x \in Sides, s \in {"up", "replied"} : [x EXCEPT !.state = s] \in Sides
  BY DEF Sides

Wires == {"none", "up", "silent", "closed"}

(* What a relay's end becomes keeps its type. *)
LEMMA EndTypes ==
  ASSUME NEW l \in Ends
  PROVE  /\ l.wire \in Wires /\ l.lines \in Seq(Lines)
         /\ \A w \in Wires : [l EXCEPT !.wire = w] \in Ends
         /\ [l EXCEPT !.session = "condemned"] \in Ends
         /\ \A ls \in Seq(Lines) : [l EXCEPT !.lines = ls] \in Ends
         /\ \A w \in Wires, ls \in Seq(Lines) : [l EXCEPT !.wire = w, !.lines = ls] \in Ends
         /\ \A w \in Wires, ls \in Seq(Lines) : [l EXCEPT !.session = "ended", !.lines = ls, !.wire = w] \in Ends
         /\ [l EXCEPT !.wire = "up", !.session = "open"] \in Ends
  BY DEF Ends, Wires

(* No link is a link's value, without lines. *)
LEMMA NoLinkType == NoLink \in Ends /\ NoLink.lines = <<>> /\ <<>> \in Seq(Lines)
  BY DEF NoLink, Ends

(* Every step keeps the types. *)
LEMMA HubStepTypes == HubTypeOK /\ [HubNext]_hvars => HubTypeOK'
<1> SUFFICES ASSUME HubTypeOK, [HubNext]_hvars PROVE HubTypeOK'
  OBVIOUS
<1>a. /\ wanted \subseteq Guests /\ far \in [relay : {0} \cup Relays, dead : BOOLEAN]
      /\ fw \in [Guests -> Sides] /\ links \in [Relays -> Ends]
      /\ hub \in [up : BOOLEAN, fwd : [Guests -> HubSides]] /\ faults \in 0..MaxFaults
      /\ \A g \in Guests : fw[g].port # 0 <=> fw[g].state \in {"replied", "up"}
  BY TypeParts DEF HubTypeOK
<1>b. ASSUME wanted' \subseteq Guests, far' \in [relay : {0} \cup Relays, dead : BOOLEAN],
             fw' \in [Guests -> Sides], links' \in [Relays -> Ends],
             hub' \in [up : BOOLEAN, fwd : [Guests -> HubSides]], faults' \in 0..MaxFaults,
             \A g \in Guests : fw'[g].port # 0 <=> fw'[g].state \in {"replied", "up"}
      PROVE  HubTypeOK'
  BY <1>b DEF HubTypeOK, Sides, Ends, HubSides, Lines
<1>c. faults < MaxFaults /\ faults' = faults + 1 => faults' \in 0..MaxFaults
  BY <1>a, HubAssumption
<1>1. ASSUME NEW g \in Guests, Want(g) PROVE HubTypeOK'
  BY <1>1, <1>a, <1>b DEF Want
<1>2. ASSUME NEW g \in Guests, Unwant(g) PROVE HubTypeOK'
  <2>1. CASE fw[g].state = "up"
    <3>1. fw' = [fw EXCEPT ![g] = [state |-> "pending", port |-> 0]] /\ Send("remove", g)
      BY <1>2, <2>1 DEF Unwant
    <3>2. links' \in [Relays -> Ends]
      <4>1. CASE far.relay # 0
        BY <3>1, <4>1, Sent
      <4>2. CASE far.relay = 0
        BY <3>1, <4>2, <1>a, RelaysNotZero DEF Send
      <4> QED  BY <4>1, <4>2
    <3> QED  BY <1>2, <1>a, <1>b, <3>1, <3>2, SideTypes DEF Unwant
  <2>2. CASE fw[g].state # "up"
    BY <1>2, <2>2, <1>a, <1>b DEF Unwant
  <2> QED  BY <2>1, <2>2
<1>3. CASE OpenRelay
  <2>1. [NoLink EXCEPT !.wire = "up", !.session = "open"] \in Ends
    BY NoLinkType, EndTypes
  <2> QED  BY <1>3, <1>a, <1>b, <2>1 DEF OpenRelay
<1>4. ASSUME NEW g \in Guests, Ask(g) PROVE HubTypeOK'
  BY <1>4, <1>a, <1>b, Sent, SideTypes DEF Ask
<1>5. ASSUME NEW g \in Guests, BindLocal(g) \/ LocalFails(g) PROVE HubTypeOK'
  <2>1. far' = far /\ wanted' = wanted /\ hub' = hub /\ faults' \in 0..MaxFaults /\ fw[g].state = "replied"
    BY <1>5, <1>a, <1>c DEF BindLocal, LocalFails
  <2>2. CASE fw' = [fw EXCEPT ![g].state = "up"] /\ UNCHANGED links
    <3>1. fw[g] \in Sides /\ fw[g].port # 0
      BY <1>a, <2>1
    <3>2. fw'[g] \in Sides /\ fw'[g].state = "up" /\ fw'[g].port # 0
      BY <1>a, <2>2, <3>1 DEF Sides
    <3> QED  BY <1>a, <1>b, <2>1, <2>2, <3>2
  <2>3. CASE fw' = [fw EXCEPT ![g] = [state |-> "pending", port |-> 0]] /\ Send("remove", g)
    <3>2. links' \in [Relays -> Ends]
      <4>1. CASE far.relay # 0
        BY <2>3, <4>1, Sent
      <4>2. CASE far.relay = 0
        BY <2>3, <4>2, <1>a, RelaysNotZero DEF Send
      <4> QED  BY <4>1, <4>2
    <3> QED  BY <1>a, <1>b, <2>1, <2>3, <3>2, SideTypes
  <2> QED  BY <1>5, <2>2, <2>3 DEF BindLocal, LocalFails
<1>6. CASE SeesEnd \/ PingMissed \/ MasterDies
  BY <1>6, <1>a, <1>b, <1>c DEF SeesEnd, PingMissed, MasterDies
<1>7. CASE LaptopOnDead
  <2>1. links' \in [Relays -> Ends]
    <3>1. far.relay \in Relays => (IF links[far.relay].wire = "up" THEN "closed" ELSE links[far.relay].wire) \in Wires
      BY <1>a, EndTypes DEF Wires
    <3>2. far.relay \in Relays =>
            [links[far.relay] EXCEPT !.wire = IF links[far.relay].wire = "up" THEN "closed" ELSE links[far.relay].wire] \in Ends
      BY <1>a, <3>1, EndTypes
    <3> QED  BY <1>7, <1>a, <3>2 DEF LaptopOnDead
  <2>2. fw' \in [Guests -> Sides] /\ \A g \in Guests : fw'[g].port = 0 /\ fw'[g].state = "pending"
    BY <1>7, SideTypes DEF LaptopOnDead
  <2> QED  BY <1>7, <1>a, <1>b, <2>1, <2>2 DEF LaptopOnDead
<1>8. ASSUME NEW n \in Relays, HubAdd(n) PROVE HubTypeOK'
  <2>1. /\ links[n].lines # <<>> /\ links[n] \in Ends /\ links[n].lines \in Seq(Lines)
        /\ links' = [links EXCEPT ![n].lines = Tail(@)] /\ UNCHANGED <<wanted, far, faults>>
    BY <1>8, <1>a DEF HubAdd, Ends
  <2>2. links' \in [Relays -> Ends]
    BY <1>a, <2>1, Tails DEF Ends
  <2>3. PICK g \in Guests : g = Head(links[n].lines).guest
    BY <2>1, Tails DEF Lines
  <2>4. PICK p \in IF hub.fwd[g].port # 0 \/ ~hub.up THEN {hub.fwd[g].port} ELSE HubPorts \ Taken :
            /\ hub' = [hub EXCEPT !.fwd[g] = [port |-> p, owners |-> hub.fwd[g].owners \cup {n}]]
            /\ Answer(n, g, IF p = 0 THEN "pendingreply" ELSE "replied", p)
    BY <1>8, <2>3 DEF HubAdd
  <2>5. p \in {0} \cup HubPorts /\ hub.fwd[g] \in HubSides
    BY <1>a, <2>4 DEF HubSides
  <2>6. [port |-> p, owners |-> hub.fwd[g].owners \cup {n}] \in HubSides
    BY <2>5 DEF HubSides
  <2>7. hub' \in [up : BOOLEAN, fwd : [Guests -> HubSides]]
    BY <1>a, <2>4, <2>6
  <2>8. [state |-> IF p = 0 THEN "pendingreply" ELSE "replied", port |-> p] \in Sides
    BY <2>5 DEF Sides
  <2>9. fw' \in [Guests -> Sides] /\ \A k \in Guests : fw'[k].port # 0 <=> fw'[k].state \in {"replied", "up"}
    BY <1>a, <2>4, <2>8 DEF Answer
  <2> QED  BY <1>a, <1>b, <2>1, <2>2, <2>7, <2>9
<1>9. ASSUME NEW n \in Relays, HubRemove(n) PROVE HubTypeOK'
  <2>1. /\ links[n].lines # <<>> /\ links[n] \in Ends /\ links[n].lines \in Seq(Lines)
        /\ links' = [links EXCEPT ![n].lines = Tail(@)] /\ UNCHANGED <<wanted, far, fw, faults>>
    BY <1>9, <1>a DEF HubRemove, Ends
  <2>2. links' \in [Relays -> Ends]
    BY <1>a, <2>1, Tails DEF Ends
  <2>3. PICK g \in Guests : g = Head(links[n].lines).guest
    BY <2>1, Tails DEF Lines
  <2>4. hub' = [hub EXCEPT !.fwd[g] = Without(hub.fwd, {n})[g]]
    BY <1>9, <2>3 DEF HubRemove
  <2>5. Without(hub.fwd, {n})[g] \in HubSides
    BY <1>a, WithoutParts
  <2>6. hub' \in [up : BOOLEAN, fwd : [Guests -> HubSides]]
    BY <1>a, <2>4, <2>5
  <2> QED  BY <1>a, <1>b, <2>1, <2>2, <2>6
<1>10. CASE HubOnDead
  <2>1. PICK gone \in SUBSET Relays :
            /\ hub' = [up |-> FALSE, fwd |-> Without(hub.fwd, gone)]
            /\ links' = [n \in Relays |-> IF n \in gone THEN [links[n] EXCEPT !.session = "condemned"] ELSE links[n]]
    BY <1>10 DEF HubOnDead
  <2>2. links' \in [Relays -> Ends]
    <3>1. \A n \in Relays : [links[n] EXCEPT !.session = "condemned"] \in Ends
      BY <1>a, EndTypes
    <3> QED  BY <1>a, <2>1, <3>1
  <2>3. hub' \in [up : BOOLEAN, fwd : [Guests -> HubSides]]
    BY <1>a, <2>1, WithoutParts
  <2> QED  BY <1>10, <1>a, <1>b, <1>c, <2>2, <2>3 DEF HubOnDead
<1>11. CASE HubRestore
  <2>1. PICK p \in [Guests -> {0} \cup HubPorts] :
            hub' = [up |-> TRUE, fwd |-> [g \in Guests |-> [hub.fwd[g] EXCEPT !.port = p[g]]]]
    BY <1>11 DEF HubRestore
  <2>2. \A g \in Guests : [hub.fwd[g] EXCEPT !.port = p[g]] \in HubSides
    BY <1>a DEF HubSides
  <2> QED  BY <1>11, <1>a, <1>b, <2>1, <2>2 DEF HubRestore
<1>12. ASSUME NEW n \in Relays, SessionEnds(n) \/ GoesSilent(n) PROVE HubTypeOK'
  <2>1. <<>> \in Seq(Lines)
    OBVIOUS
  <2>2. links' \in [Relays -> Ends]
    <3>0. links[n] \in Ends
      BY <1>a
    <3>1. PICK w \in Wires : w = IF links[n].wire = "up" THEN "closed" ELSE links[n].wire
      BY <3>0, EndTypes DEF Wires
    <3>2. [links[n] EXCEPT !.session = "ended", !.lines = <<>>, !.wire = w] \in Ends
      BY <3>0, <2>1, EndTypes
    <3>3. [links[n] EXCEPT !.wire = "silent", !.lines = <<>>] \in Ends
      BY <3>0, <2>1, EndTypes DEF Wires
    <3>4. CASE SessionEnds(n)
      BY <3>4, <1>a, <3>1, <3>2 DEF SessionEnds
    <3>5. CASE GoesSilent(n)
      BY <3>5, <1>a, <3>3 DEF GoesSilent
    <3> QED  BY <1>12, <3>4, <3>5
  <2> QED  BY <1>12, <1>a, <1>b, <1>c, <2>2 DEF SessionEnds, GoesSilent
<1>13. ASSUME NEW n \in Relays, CloseHubSession(n) PROVE HubTypeOK'
  <2>1. links' \in [Relays -> Ends]
    BY <1>13, <1>a DEF CloseHubSession, Ends
  <2>2. hub' \in [up : BOOLEAN, fwd : [Guests -> HubSides]]
    BY <1>13, <1>a, WithoutParts DEF CloseHubSession
  <2> QED  BY <1>13, <1>a, <1>b, <2>1, <2>2 DEF CloseHubSession
<1>14. CASE UNCHANGED hvars
  BY <1>14, <1>a, <1>b DEF hvars
<1> QED
  BY <1>1, <1>2, <1>3, <1>4, <1>5, <1>6, <1>7, <1>8, <1>9, <1>10, <1>11, <1>12, <1>13, <1>14
     DEF HubNext, Laptop, Relayed

(***************************************************************************)
(* What the two ends agree on.                                             *)
(***************************************************************************)

(* A hub that is down has no relay open, and a laptop without a relay no forward up. *)
LEMMA HubStepDown == HubInv /\ [HubNext]_hvars => Down'
<1> SUFFICES ASSUME HubInv, [HubNext]_hvars PROVE Down'
  OBVIOUS
<1>a. /\ far \in [relay : {0} \cup Relays, dead : BOOLEAN] /\ fw \in [Guests -> Sides]
      /\ links \in [Relays -> Ends] /\ hub \in [up : BOOLEAN, fwd : [Guests -> HubSides]] /\ Down
  BY TypeParts DEF HubInv
<1>b. ASSUME \A n \in Relays : links'[n].session = "open" => links[n].session = "open",
             hub'.up \/ ~hub.up
      PROVE  ~hub'.up => \A n \in Relays : links'[n].session # "open"
  BY <1>a, <1>b DEF Down
<1>c. ASSUME UNCHANGED far, \A g \in Guests : fw[g].state = "pending" /\ far.relay = 0 => fw'[g].state = "pending"
      PROVE  far'.relay = 0 => ~far'.dead /\ \A g \in Guests : fw'[g].state = "pending"
  BY <1>a, <1>c DEF Down
<1>1. ASSUME NEW g \in Guests, Want(g) PROVE Down'
  BY <1>1, <1>a DEF Want, Down
<1>2. ASSUME NEW g \in Guests, Unwant(g) \/ BindLocal(g) \/ LocalFails(g) PROVE Down'
  <2>1. UNCHANGED <<far, hub>> /\ fw[g].state # "pending" => far.relay # 0
    BY <1>2, <1>a DEF Unwant, BindLocal, LocalFails, Down
  <2>2. \A n \in Relays : links'[n].session = links[n].session
    <3>1. CASE UNCHANGED links
      BY <3>1
    <3>2. CASE Send("remove", g) /\ far.relay # 0
      BY <3>2, Sent DEF HubInv
    <3>3. fw[g].state \in {"up", "replied"} => far.relay # 0
      BY <1>a DEF Down
    <3> QED  BY <1>2, <3>1, <3>2, <3>3 DEF Unwant, BindLocal, LocalFails
  <2>3. far.relay = 0 => UNCHANGED fw
    BY <1>2, <1>a DEF Unwant, BindLocal, LocalFails, Down
  <2>4. UNCHANGED <<far, hub>>
    BY <1>2 DEF Unwant, BindLocal, LocalFails
  <2> QED  BY <1>b, <1>c, <2>2, <2>3, <2>4 DEF Down
<1>3. CASE OpenRelay
  BY <1>3, <1>a, RelaysNotZero DEF OpenRelay, Down
<1>4. ASSUME NEW g \in Guests, Ask(g) PROVE Down'
  <2>1. \A n \in Relays : links'[n].session = links[n].session
    BY <1>4, Sent DEF Ask, HubInv
  <2> QED  BY <1>4, <1>a, <2>1 DEF Ask, Down
<1>5. CASE SeesEnd \/ PingMissed \/ MasterDies
  BY <1>5, <1>a DEF SeesEnd, PingMissed, MasterDies, Down
<1>6. CASE LaptopOnDead
  <2>1. \A n \in Relays : links'[n].session = links[n].session
    BY <1>6, <1>a DEF LaptopOnDead, Ends
  <2> QED  BY <1>6, <1>a, <2>1 DEF LaptopOnDead, Down
<1>7. ASSUME NEW n \in Relays, HubAdd(n) PROVE Down'
  <2>1. \A k \in Relays : links'[k].session = links[k].session
    BY <1>7, <1>a DEF HubAdd, Ends
  <2>2. \A g \in Guests : fw[g].state = "pending" => fw'[g].state = "pending"
    BY <1>7, <1>a DEF HubAdd, Answer
  <2>3. hub'.up = hub.up /\ UNCHANGED far
    BY <1>7, <1>a DEF HubAdd
  <2> QED  BY <1>a, <1>b, <1>c, <2>1, <2>2, <2>3 DEF Down
<1>8. ASSUME NEW n \in Relays, HubRemove(n) \/ SessionEnds(n) \/ CloseHubSession(n) \/ GoesSilent(n) PROVE Down'
  <2>1. \A k \in Relays : links'[k].session = "open" => links[k].session = "open"
    BY <1>8, <1>a DEF HubRemove, SessionEnds, CloseHubSession, GoesSilent, Ends
  <2>2. hub'.up = hub.up /\ UNCHANGED <<far, fw>>
    BY <1>8, <1>a DEF HubRemove, SessionEnds, CloseHubSession, GoesSilent
  <2> QED  BY <1>b, <1>c, <2>1, <2>2 DEF Down
<1>9. CASE HubOnDead
  <2>1. \A n \in Relays : links'[n].session # "open"
    BY <1>9, <1>a DEF HubOnDead, Ends
  <2> QED  BY <1>9, <1>c, <2>1 DEF HubOnDead, Down
<1>10. CASE HubRestore
  BY <1>10, <1>c DEF HubRestore, Down
<1>11. CASE UNCHANGED hvars
  BY <1>11, <1>a DEF hvars, Down
<1> QED
  BY <1>1, <1>2, <1>3, <1>4, <1>5, <1>6, <1>7, <1>8, <1>9, <1>10, <1>11 DEF HubNext, Laptop, Relayed

(* A live relay was live before, unless it is the one just opened. *)
LEMMA HubStepAgreed == HubInv /\ [HubNext]_hvars => Agreed'
<1> SUFFICES ASSUME HubInv, [HubNext]_hvars, Live' PROVE \A g \in Guests : Settled(links[far.relay].lines, g)'
  BY DEF Agreed
<1>a. /\ far \in [relay : {0} \cup Relays, dead : BOOLEAN] /\ fw \in [Guests -> Sides]
      /\ links \in [Relays -> Ends] /\ hub \in [up : BOOLEAN, fwd : [Guests -> HubSides]] /\ Down
      /\ \A g \in Guests : fw[g].port # 0 <=> fw[g].state \in {"replied", "up"}
  BY TypeParts DEF HubInv
<1>n. \A n \in Relays : links[n].lines \in Seq(Lines) /\ links[n] \in Ends /\ n # 0
  BY <1>a, EndTypes, RelaysNotZero
<1>l. Live => /\ far.relay \in Relays /\ links[far.relay].lines \in Seq(Lines)
              /\ \A g \in Guests : Settled(links[far.relay].lines, g)
  BY <1>a, <1>n DEF HubInv, Agreed, Live
<1>q. ASSUME NEW k \in Guests, NEW ls, links'[far'.relay].lines = ls,
             fw'[k].state # "asking" => NoAdd(ls, k),
             fw'[k].state = "asking" => AddIsLast(ls, k),
             fw'[k].state \in {"replied", "up"} =>
                 NoLine(ls, k) /\ hub'.fwd[k].port = fw'[k].port /\ far'.relay \in hub'.fwd[k].owners
      PROVE  Settled(links[far.relay].lines, k)'
  BY <1>q DEF Settled, NoAdd, AddIsLast, NoLine
(* Nothing that it speaks of changes. *)
<1>b. ASSUME Live, UNCHANGED far, links'[far.relay].lines = links[far.relay].lines,
             \A k \in Guests : fw'[k].port = fw[k].port,
             \A k \in Guests : fw'[k].state = fw[k].state \/ (fw[k].state = "replied" /\ fw'[k].state = "up"),
             \A k \in Guests : hub.fwd[k].port # 0 => hub'.fwd[k].port = hub.fwd[k].port,
             \A k \in Guests : far.relay \in hub.fwd[k].owners => far.relay \in hub'.fwd[k].owners
      PROVE  \A g \in Guests : Settled(links[far.relay].lines, g)'
  <2> SUFFICES ASSUME NEW g \in Guests PROVE Settled(links[far.relay].lines, g)'
    OBVIOUS
  <2>1. Settled(links[far.relay].lines, g)
    BY <1>b, <1>l
  <2>2. fw[g].state \in {"replied", "up"} => hub.fwd[g].port # 0
    BY <1>a, <2>1 DEF Settled
  <2>3. links'[far'.relay].lines = links[far.relay].lines
    BY <1>b
  <2>a. fw'[g].state = fw[g].state \/ (fw[g].state = "replied" /\ fw'[g].state = "up")
    BY <1>b
  <2>b. fw'[g].port = fw[g].port /\ far'.relay = far.relay
    BY <1>b
  <2>4. /\ hub.fwd[g].port # 0 => hub'.fwd[g].port = hub.fwd[g].port
        /\ far.relay \in hub.fwd[g].owners => far.relay \in hub'.fwd[g].owners
    BY <1>b
  <2>5. NoLine(links[far.relay].lines, g) => NoAdd(links[far.relay].lines, g)
    BY DEF NoLine, NoAdd
  <2>6. CASE fw'[g].state = fw[g].state
    BY <1>q, <2>b, <2>1, <2>2, <2>3, <2>4, <2>6 DEF Settled
  <2>7. CASE fw[g].state = "replied" /\ fw'[g].state = "up"
    BY <1>q, <2>b, <2>1, <2>2, <2>3, <2>4, <2>5, <2>7 DEF Settled
  <2> QED  BY <2>a, <2>6, <2>7
(* A remove is sent for a forward that is given up. *)
<1>r. ASSUME NEW g \in Guests, fw[g].state \in {"up", "replied"}, UNCHANGED <<far, hub>>,
             fw' = [fw EXCEPT ![g] = [state |-> "pending", port |-> 0]], Send("remove", g)
      PROVE  \A k \in Guests : Settled(links[far.relay].lines, k)'
  <2>1. far.relay # 0
    BY <1>a, <1>r DEF Down
  <2>2. Live
    BY <1>r, <2>1, <1>a, Sent DEF Live, HubInv
  <2> DEFINE ls == links[far.relay].lines
             x == [op |-> "remove", guest |-> g]
  <2>3. links'[far.relay].lines = Append(ls, x)
    BY <1>r, <2>1, <2>2, Sent DEF HubInv, Live
  <2>4. ls \in Seq(Lines) /\ x \in Lines /\ \A k \in Guests : Settled(ls, k)
    BY <1>l, <2>2 DEF Lines
  <2>6. x.op = "remove" /\ x.guest = g
    OBVIOUS
  <2> HIDE DEF x
  <2>7. ASSUME NEW k \in Guests PROVE Settled(links[far.relay].lines, k)'
    <3>1. fw'[k] = IF k = g THEN [state |-> "pending", port |-> 0] ELSE fw[k]
      BY <1>r, <1>a
    <3>2. Settled(ls, k)
      BY <2>4
    <3>5. links'[far'.relay].lines = Append(ls, x)
      BY <1>r, <2>3
    <3>3. CASE k = g
      BY <1>r, <2>3, <2>4, <2>6, <3>1, <3>2, <3>5, <3>3, <1>q, AppendKeeps DEF Settled
    <3>4. CASE k # g
      BY <1>r, <2>3, <2>4, <2>6, <3>1, <3>2, <3>5, <3>4, <1>q, AppendKeeps DEF Settled
    <3> QED  BY <3>3, <3>4
  <2> QED  BY <2>7
<1>1. ASSUME NEW g \in Guests, Want(g) PROVE \A k \in Guests : Settled(links[far.relay].lines, k)'
  BY <1>1, <1>b DEF Want, Live
<1>2. ASSUME NEW g \in Guests, Unwant(g) PROVE \A k \in Guests : Settled(links[far.relay].lines, k)'
  <2>1. CASE fw[g].state = "up"
    BY <1>2, <2>1, <1>r DEF Unwant
  <2>2. CASE fw[g].state # "up"
    BY <1>2, <2>2, <1>b DEF Unwant, Live
  <2> QED  BY <2>1, <2>2
<1>3. CASE OpenRelay
  <2>1. PICK n \in Relays : /\ links' = [links EXCEPT ![n] = [NoLink EXCEPT !.wire = "up", !.session = "open"]]
                             /\ far' = [relay |-> n, dead |-> FALSE]
    BY <1>3 DEF OpenRelay
  <2>2. links'[far'.relay].lines = <<>>
    BY <2>1, <1>a DEF NoLink
  <2>3. UNCHANGED <<fw, hub>> /\ \A g \in Guests : fw[g].state = "pending"
    BY <1>3, <1>a DEF OpenRelay, Down
  <2>4. \A g \in Guests : NoAdd(<<>>, g)
    BY DEF NoAdd
  <2> QED  BY <1>q, <2>2, <2>3, <2>4
<1>4. ASSUME NEW g \in Guests, Ask(g) PROVE \A k \in Guests : Settled(links[far.relay].lines, k)'
  <2>1. /\ far.relay # 0 /\ UNCHANGED <<far, hub>> /\ fw[g].state = "pending" /\ Send("add", g)
        /\ fw' = [fw EXCEPT ![g] = [state |-> "asking", port |-> 0]]
    BY <1>4 DEF Ask
  <2>2. Live
    BY <2>1, <1>a, Sent DEF Live, HubInv
  <2> DEFINE ls == links[far.relay].lines
             x == [op |-> "add", guest |-> g]
  <2>3. links'[far.relay].lines = Append(ls, x)
    BY <2>1, <2>2, Sent DEF HubInv, Live
  <2>4. ls \in Seq(Lines) /\ x \in Lines /\ \A k \in Guests : Settled(ls, k)
    BY <1>l, <2>2 DEF Lines
  <2>6. x.op = "add" /\ x.guest = g
    OBVIOUS
  <2> HIDE DEF x
  <2>7. ASSUME NEW k \in Guests PROVE Settled(links[far.relay].lines, k)'
    <3>1. fw'[k] = IF k = g THEN [state |-> "asking", port |-> 0] ELSE fw[k]
      BY <2>1, <1>a
    <3>2. Settled(ls, k)
      BY <2>4
    <3>5. links'[far'.relay].lines = Append(ls, x)
      BY <2>1, <2>3
    <3>3. CASE k = g
      BY <2>1, <2>3, <2>4, <2>6, <3>1, <3>2, <3>5, <3>3, <1>q, AppendKeeps DEF Settled
    <3>4. CASE k # g
      BY <2>1, <2>3, <2>4, <2>6, <3>1, <3>2, <3>5, <3>4, <1>q, AppendKeeps DEF Settled
    <3> QED  BY <3>3, <3>4
  <2> QED  BY <2>7
<1>5. ASSUME NEW g \in Guests, BindLocal(g) \/ LocalFails(g)
      PROVE  \A k \in Guests : Settled(links[far.relay].lines, k)'
  <2>1. fw[g].state = "replied" /\ UNCHANGED <<far, hub>>
    BY <1>5 DEF BindLocal, LocalFails
  <2>2. CASE fw' = [fw EXCEPT ![g].state = "up"] /\ UNCHANGED links
    <3>1. ASSUME NEW k \in Guests
          PROVE  /\ fw'[k].port = fw[k].port
                 /\ fw'[k].state = fw[k].state \/ (fw[k].state = "replied" /\ fw'[k].state = "up")
      <4>1. fw[k] \in Sides /\ fw'[k] = IF k = g THEN [fw[k] EXCEPT !.state = "up"] ELSE fw[k]
        BY <1>a, <2>2
      <4> QED  BY <2>1, <4>1 DEF Sides
    <3> QED  BY <1>b, <2>1, <2>2, <3>1 DEF Live
  <2>3. CASE fw' = [fw EXCEPT ![g] = [state |-> "pending", port |-> 0]] /\ Send("remove", g)
    BY <2>1, <2>3, <1>r
  <2> QED  BY <1>5, <2>2, <2>3 DEF BindLocal, LocalFails
<1>6. CASE SeesEnd \/ PingMissed \/ MasterDies \/ LaptopOnDead
  BY <1>6, <1>a DEF SeesEnd, PingMissed, MasterDies, LaptopOnDead, Live
<1>7. ASSUME NEW n \in Relays, HubAdd(n) PROVE \A k \in Guests : Settled(links[far.relay].lines, k)'
  <2>1. /\ links[n].lines # <<>> /\ Head(links[n].lines).op = "add" /\ UNCHANGED far
        /\ links' = [links EXCEPT ![n].lines = Tail(links[n].lines)]
    BY <1>7 DEF HubAdd
  <2>2. Live /\ far.relay \in Relays
    BY <2>1, <1>a DEF Live
  <2>3. PICK g \in Guests : g = Head(links[n].lines).guest
    BY <2>1, <1>n, Tails DEF Lines
  <2>4. PICK p \in IF hub.fwd[g].port # 0 \/ ~hub.up THEN {hub.fwd[g].port} ELSE HubPorts \ Taken :
            /\ hub' = [hub EXCEPT !.fwd[g] = [port |-> p, owners |-> hub.fwd[g].owners \cup {n}]]
            /\ Answer(n, g, IF p = 0 THEN "pendingreply" ELSE "replied", p)
    BY <1>7, <2>3 DEF HubAdd
  <2>5. /\ hub'.fwd[g].port = p /\ hub'.fwd[g].owners = hub.fwd[g].owners \cup {n}
        /\ \A k \in Guests \ {g} : hub'.fwd[k] = hub.fwd[k]
    BY <1>a, <2>4
  <2>6. \A k \in Guests : /\ hub.fwd[k].port # 0 => hub'.fwd[k].port = hub.fwd[k].port
                          /\ far.relay \in hub.fwd[k].owners => far.relay \in hub'.fwd[k].owners
    BY <2>4, <2>5
  <2>7. CASE n # far.relay
    <3>1. UNCHANGED fw /\ links'[far.relay].lines = links[far.relay].lines
      BY <2>1, <2>2, <2>4, <2>7, <1>a DEF Answer
    <3>2. far' = far
      BY <2>1
    <3>3. \A k \in Guests : fw'[k].port = fw[k].port
      BY <3>1
    <3>4. \A k \in Guests : fw'[k].state = fw[k].state \/ (fw[k].state = "replied" /\ fw'[k].state = "up")
      BY <3>1
    <3>5. \A k \in Guests : hub.fwd[k].port # 0 => hub'.fwd[k].port = hub.fwd[k].port
      BY <2>6
    <3>6. \A k \in Guests : far.relay \in hub.fwd[k].owners => far.relay \in hub'.fwd[k].owners
      BY <2>6
    <3>7. links'[far.relay].lines = links[far.relay].lines
      BY <3>1
    <3>8. Live
      BY <2>2
    <3> QED  BY <1>b, <3>2, <3>3, <3>4, <3>5, <3>6, <3>7, <3>8
  <2>8. CASE n = far.relay
    <3> DEFINE ls == links[n].lines
    <3>1. links'[far'.relay].lines = Tail(ls)
      BY <2>1, <2>8, <1>a
    <3>2. ls \in Seq(Lines) /\ ls # <<>> /\ Head(ls).op = "add" /\ Head(ls).guest = g
      BY <2>1, <2>3, <1>n
    <3>3. \A k \in Guests : Settled(ls, k)
      BY <1>l, <2>2, <2>8
    <3>4. fw[g].state = "asking"
      BY <3>2, <3>3, TailKeeps DEF Settled
    <3>5. p # 0
      <4>1. hub.up
        BY <1>a, <2>2 DEF Down, Live
      <4> QED  BY <2>4, <4>1, HubAssumption
    <3>6. fw' = [fw EXCEPT ![g] = [state |-> "replied", port |-> p]]
      BY <2>2, <2>4, <2>8, <3>4, <3>5 DEF Answer, Live
    <3>7. Settled(links[far.relay].lines, g)'
      <4>1. fw'[g].state = "replied" /\ fw'[g].port = p
        BY <3>6, <1>a
      <4>2. NoLine(Tail(ls), g) /\ NoAdd(Tail(ls), g)
        BY <3>2, <3>3, <3>4, TailKeeps DEF Settled, NoLine, NoAdd
      <4>3. hub'.fwd[g].port = p /\ far'.relay \in hub'.fwd[g].owners
        BY <2>1, <2>5, <2>8
      <4> HIDE DEF ls
      <4> QED  BY <1>q, <3>1, <4>1, <4>2, <4>3
    <3>8. ASSUME NEW k \in Guests, k # g PROVE Settled(links[far.relay].lines, k)'
      <4>1. fw'[k] = fw[k] /\ hub'.fwd[k] = hub.fwd[k]
        BY <3>6, <3>8, <1>a, <2>5
      <4>2. Settled(ls, k)
        BY <3>3
      <4> HIDE DEF ls
      <4>3. /\ NoAdd(ls, k) => NoAdd(Tail(ls), k)
            /\ AddIsLast(ls, k) => AddIsLast(Tail(ls), k)
            /\ NoLine(ls, k) => NoLine(Tail(ls), k)
        BY <3>2, TailKeeps
      <4>4. far' = far
        BY <2>1
      <4> QED  BY <1>q, <3>1, <4>1, <4>2, <4>3, <4>4 DEF Settled
    <3> QED  BY <3>7, <3>8
  <2> QED  BY <2>7, <2>8
<1>8. ASSUME NEW n \in Relays, HubRemove(n) PROVE \A k \in Guests : Settled(links[far.relay].lines, k)'
  <2>1. /\ links[n].lines # <<>> /\ Head(links[n].lines).op = "remove" /\ UNCHANGED <<far, fw>>
        /\ links' = [links EXCEPT ![n].lines = Tail(links[n].lines)]
    BY <1>8 DEF HubRemove
  <2>2. Live /\ far.relay \in Relays
    BY <2>1, <1>a DEF Live
  <2>3. PICK g \in Guests : g = Head(links[n].lines).guest
    BY <2>1, <1>n, Tails DEF Lines
  <2>4. hub' = [hub EXCEPT !.fwd[g] = Without(hub.fwd, {n})[g]]
    BY <1>8, <2>3 DEF HubRemove
  <2>5. hub'.fwd[g] = Without(hub.fwd, {n})[g] /\ \A k \in Guests \ {g} : hub'.fwd[k] = hub.fwd[k]
    BY <1>a, <2>4
  <2>6. CASE n # far.relay
    <3>1. links'[far.relay].lines = links[far.relay].lines
      BY <2>1, <2>2, <2>6, <1>a
    <3>2. ASSUME NEW k \in Guests PROVE Settled(links[far.relay].lines, k)'
      <4>1. Settled(links[far.relay].lines, k)
        BY <1>l, <2>2
      <4>2. far.relay \in hub.fwd[k].owners =>
              hub'.fwd[k].port = hub.fwd[k].port /\ far.relay \in hub'.fwd[k].owners
        BY <1>a, <2>2, <2>5, <2>6, WithoutParts
      <4> QED  BY <1>q, <2>1, <3>1, <4>1, <4>2 DEF Settled
    <3> QED  BY <3>2
  <2>7. CASE n = far.relay
    <3> DEFINE ls == links[n].lines
    <3>1. links'[far'.relay].lines = Tail(ls)
      BY <2>1, <2>7, <1>a
    <3>2. ls \in Seq(Lines) /\ ls # <<>> /\ Head(ls).guest = g
      BY <2>1, <2>3, <1>n
    <3>3. ASSUME NEW k \in Guests PROVE Settled(links[far.relay].lines, k)'
      <4>1. Settled(ls, k)
        BY <1>l, <2>2, <2>7
      <4>2. fw[k].state \in {"replied", "up"} => k # g
        BY <3>2, <4>1, TailKeeps DEF Settled
      <4>3. k # g => hub'.fwd[k] = hub.fwd[k]
        BY <2>5
      <4> HIDE DEF ls
      <4> QED  BY <1>q, <2>1, <3>1, <3>2, <4>1, <4>2, <4>3, TailKeeps DEF Settled
    <3> QED  BY <3>3
  <2> QED  BY <2>6, <2>7
<1>9. CASE HubOnDead
  <2>1. links'[far'.relay].session # "open"
    BY <1>9, <1>a DEF HubOnDead, Ends, Live
  <2> QED  BY <2>1 DEF Live
<1>10. CASE HubRestore
  <2>1. Live /\ ~hub.up
    BY <1>10 DEF HubRestore, Live
  <2> QED  BY <2>1, <1>a, <1>l DEF Down, Live
<1>11. ASSUME NEW n \in Relays, SessionEnds(n) \/ GoesSilent(n)
       PROVE  \A k \in Guests : Settled(links[far.relay].lines, k)'
  <2>1. UNCHANGED <<far, fw, hub>>
    BY <1>11 DEF SessionEnds, GoesSilent
  <2>2. far.relay \in Relays /\ n # far.relay
    BY <1>11, <2>1, <1>a, <1>n DEF SessionEnds, GoesSilent, Live, Ends
  <2>3. links'[far.relay] = links[far.relay]
    BY <1>11, <2>2, <1>a DEF SessionEnds, GoesSilent
  <2> QED  BY <1>b, <2>1, <2>3 DEF Live
<1>12. ASSUME NEW n \in Relays, CloseHubSession(n) PROVE \A k \in Guests : Settled(links[far.relay].lines, k)'
  <2>1. UNCHANGED <<far, fw>> /\ hub'.fwd = Without(hub.fwd, {n})
    BY <1>12, <1>a DEF CloseHubSession
  <2>2. far.relay \in Relays /\ n # far.relay
    BY <1>12, <2>1, <1>a, <1>n DEF CloseHubSession, Live, Ends
  <2>3. links'[far.relay] = links[far.relay] /\ Live
    BY <1>12, <2>1, <2>2, <1>a DEF CloseHubSession, Live
  <2>4. ASSUME NEW k \in Guests PROVE Settled(links[far.relay].lines, k)'
    <3>1. Settled(links[far.relay].lines, k)
      BY <1>l, <2>3
    <3>2. far.relay \in hub.fwd[k].owners =>
            hub'.fwd[k].port = hub.fwd[k].port /\ far.relay \in hub'.fwd[k].owners
      BY <1>a, <2>1, <2>2, WithoutParts
    <3> QED  BY <1>q, <2>1, <2>3, <3>1, <3>2 DEF Settled
  <2> QED  BY <2>4
<1>13. CASE UNCHANGED hvars
  BY <1>13, <1>b DEF hvars, Live
<1> QED
  BY <1>1, <1>2, <1>3, <1>4, <1>5, <1>6, <1>7, <1>8, <1>9, <1>10, <1>11, <1>12, <1>13
     DEF HubNext, Laptop, Relayed

(* transport_hub.go's forward and closer, the hub's relay session and its  *)
(* daemon's onDead: while neither end has given their relay up, a forward  *)
(* that is up on the laptop points at the port the hub holds for it.       *)
THEOREM UpIsCarried == HubSpec => []UpMeansCarried
<1>1. HubInv => UpMeansCarried
  <2> SUFFICES ASSUME HubInv, NEW g \in Guests, fw[g].state = "up", ~far.dead,
                      links[far.relay].session = "open", links[far.relay].wire = "up"
               PROVE  Carried(g)
    BY DEF UpMeansCarried
  <2>1. far.relay # 0
    BY DEF HubInv, Down
  <2> QED  BY <2>1 DEF HubInv, Agreed, Live, Settled, Carried
<1>2. HubInv /\ [HubNext]_hvars => HubInv'
  BY HubStepTypes, HubStepDown, HubStepAgreed DEF HubInv
<1> QED  BY <1>1, <1>2, HubInitInv, PTL DEF HubSpec

-----------------------------------------------------------------------------

(***************************************************************************)
(* The agent exec and its transport (AgentExec).                           *)
(***************************************************************************)
(* The types, but for the bounded counters. *)
Types ==
    /\ managed \in BOOLEAN /\ guest \in Agents
    /\ sup \in [at : {"prepare", "spawn", "record", "up", "look", "await", "backoff", "ended"},
                found : Agents, shim : BOOLEAN]
    /\ exec \in [new : {"none", "live", "dead"}, held : {"none", "live", "dead"}]
    /\ ends \in [stop : BOOLEAN, closed : BOOLEAN, gone : BOOLEAN, dead : BOOLEAN, master : BOOLEAN]

(* An exec that is spawned and not recorded is in the supervisor's hands;  *)
(* one that is recorded is the transport's to close, and was not yet.      *)
InHands == /\ exec.new # "none" => sup.at = "record"
           /\ exec.held # "none" => sup.at \in {"up", "ended"} /\ ~ends.closed

HandsInv == Types /\ InHands

(* At first the supervisor holds no exec. *)
LEMMA HandsInit == AgentInit => HandsInv
  BY DEF AgentInit, HandsInv, Types, InHands, Agents

(* Whatever the supervisor does, an exec that runs is recorded or in its hands. *)
LEMMA SupervisorStep ==
  ASSUME HandsInv, Supervisor
  PROVE  HandsInv'
<1> USE DEF HandsInv, Types, InHands, Retry, Agents, Env
<1>1. CASE Prepare
  BY <1>1 DEF Prepare
<1>2. CASE PrepareFails
  BY <1>2 DEF PrepareFails
<1>3. CASE Spawn
  <2>1. /\ sup.at = "spawn" /\ UNCHANGED <<guest, ends, managed>>
        /\ \/ UNCHANGED exec /\ \E to \in {"await", "backoff", "ended"}, b \in BOOLEAN :
                                   sup' = [sup EXCEPT !.at = to, !.shim = b]
           \/ sup' = [sup EXCEPT !.at = "record"] /\ exec' = [exec EXCEPT !.new = "live"]
    <3>1. \A to : [sup EXCEPT !.at = to] = [sup EXCEPT !.at = to, !.shim = sup.shim]
      OBVIOUS
    <3> QED  BY <1>3, <3>1 DEF Spawn
  <2> QED  BY <2>1
<1>4. CASE Record
  <2>1. CASE Refused
    <3>1. sup'.at \in {"backoff", "ended"} /\ sup' = [sup EXCEPT !.at = sup'.at]
      BY <1>4, <2>1 DEF Record
    <3>2. exec' = [exec EXCEPT !.new = "none"] /\ exec.held = "none" /\ UNCHANGED <<guest, ends, managed>>
      BY <1>4, <2>1 DEF Record
    <3> QED  BY <3>1, <3>2
  <2>2. CASE ~Refused
    <3>1. /\ sup' = [sup EXCEPT !.at = "up", !.shim = TRUE] /\ ~ends.closed
          /\ exec' = [new |-> "none", held |-> exec.new] /\ UNCHANGED <<guest, ends, managed>>
      BY <1>4, <2>2 DEF Record, Refused
    <3> QED  BY <3>1
  <2> QED  BY <2>1, <2>2
<1>5. CASE Idle
  BY <1>5 DEF Idle
<1>6. CASE Ended
  BY <1>6 DEF Ended
<1>7. CASE Look
  BY <1>7, ZenonT(40) DEF Look
<1>8. CASE Wake
  BY <1>8 DEF Wake
<1>9. CASE Stopped
  BY <1>9 DEF Stopped
<1> QED  BY <1>1, <1>2, <1>3, <1>4, <1>5, <1>6, <1>7, <1>8, <1>9 DEF Supervisor

(* What dies is still there to be closed; Close itself takes what is held. *)
LEMMA TransportStep ==
  ASSUME HandsInv, CloseStop \/ CloseAgent \/ CloseMaster \/ ExecDies \/ MuxDies \/ Monitor
  PROVE  HandsInv'
<1> USE DEF HandsInv, Types, InHands, Agents, Env
<1>1. CASE CloseStop
  BY <1>1 DEF CloseStop
<1>2. CASE CloseAgent
  BY <1>2 DEF CloseAgent
<1>3. CASE CloseMaster
  <2>1. PICK m \in BOOLEAN :
          /\ ends' = [ends EXCEPT !.gone = TRUE, !.dead = TRUE, !.master = m]
          /\ exec' = IF m THEN exec
                     ELSE [k \in DOMAIN exec |-> IF exec[k] = "live" THEN "dead" ELSE exec[k]]
    BY <1>3 DEF CloseMaster
  <2>2. exec' \in [new : {"none", "live", "dead"}, held : {"none", "live", "dead"}]
        /\ (exec'.new # "none" => exec.new # "none") /\ (exec'.held # "none" => exec.held # "none")
    BY <2>1
  <2> QED  BY <1>3, <2>1, <2>2 DEF CloseMaster
<1>4. CASE ExecDies
  BY <1>4 DEF ExecDies
<1>5. CASE MuxDies
  BY <1>5, ZenonT(40) DEF MuxDies
<1>6. CASE Monitor
  BY <1>6 DEF Monitor
<1> QED  BY <1>1, <1>2, <1>3, <1>4, <1>5, <1>6

(* And so does what goes on beside it. *)
LEMMA OthersStep ==
  ASSUME HandsInv, Swap \/ AuthInstalls \/ Nudge \/ UNCHANGED avars
  PROVE  HandsInv'
  BY DEF HandsInv, Types, InHands, Agents, Swap, AuthInstalls, Nudge, avars

(* sshAgent.close against supervise: whatever the supervisor was in the    *)
(* middle of when the transport closed, and whatever died or was installed *)
(* meanwhile, once both are over no exec of theirs is left in the guest.   *)
THEOREM ClosedLeavesNone == AgentSpec => []NoneLeft
<1>1. HandsInv /\ [AgentNext]_avars => HandsInv'
  BY SupervisorStep, TransportStep, OthersStep DEF AgentNext
<1>2. HandsInv => NoneLeft
  BY DEF HandsInv, Types, InHands, NoneLeft
<1> QED  BY <1>1, <1>2, HandsInit, PTL DEF AgentSpec

-----------------------------------------------------------------------------

(***************************************************************************)
(* Whose rows they are (Watch).  Of a pipe the proof needs only which host *)
(* it was dialled to; of the rows, what they say of themselves.            *)
(***************************************************************************)
PipeSays == [dest : Dests \cup {"none"}, live : BOOLEAN, ver : Nat]
RowSays == [ver : Nat, dest : Dests \cup {"none"}, fresh : BOOLEAN]
RowsShape ==
    /\ pipe \in [now : PipeSays, old : PipeSays]
    /\ rows \in [last : RowSays, cache : Nat, wake : BOOLEAN]
    /\ disk \in [ver : Nat, dest : Dests, net : Nat, reach : Nat, ask : BOOLEAN]
    /\ remote \in [ver : Nat, up : BOOLEAN]
    /\ RowsOfItsHub

(* What a pipe says is recorded only if it is the current one.             *)
LEMMA SaidKeeps ==
    ASSUME RowsShape, NEW p \in {"now", "old"}, NEW r \in RowSays, r.dest = pipe[p].dest,
           NEW c \in Nat, pipe' \in [now : PipeSays, old : PipeSays], pipe'.now.dest = pipe.now.dest,
           rows' = Said(p, r) \/ rows' = Cached(Said(p, r), c), UNCHANGED <<disk, remote>>
    PROVE  RowsShape'
<1>0. rows \in [last : RowSays, cache : Nat, wake : BOOLEAN] /\ RowsOfItsHub
    BY DEF RowsShape
<1> DEFINE l == IF Current(p) THEN r ELSE rows.last
           said == [rows EXCEPT !.last = l, !.wake = TRUE]
<1>1. l \in RowSays /\ (l.fresh => l.dest = pipe.now.dest)
    BY <1>0 DEF Current, RowsOfItsHub
<1>2. Said(p, r) = said
    BY DEF Said
<1> HIDE DEF l
<1>3. [rows EXCEPT !.last = l] \in [last : RowSays, cache : Nat, wake : BOOLEAN]
    BY <1>0, <1>1
<1>4. said \in [last : RowSays, cache : Nat, wake : BOOLEAN] /\ said.last = l
    BY <1>0, <1>3
<1> HIDE DEF said
<1>5. rows' \in [last : RowSays, cache : Nat, wake : BOOLEAN] /\ rows'.last = l
    BY <1>2, <1>4 DEF Cached
<1> QED
    BY <1>1, <1>5 DEF RowsShape, RowsOfItsHub

(***************************************************************************)
(* However a pipe dies, is replaced or comes late, rows said to be the     *)
(* hub's own are those of the destination its current pipe was dialled to. *)
(***************************************************************************)
THEOREM RowsAreOfTheirHub == WatchSpec => []RowsOfItsHub
<1>1. WatchInit => RowsShape
    <2> SUFFICES ASSUME WatchInit PROVE RowsShape
        OBVIOUS
    <2>1. pipe = [now |-> [NoPipe EXCEPT !.dest = "here"], old |-> NoPipe]
          /\ rows = [last |-> NoRows, cache |-> 0, wake |-> FALSE] /\ remote \in [ver : Nat, up : BOOLEAN]
          /\ disk = [ver |-> 0, dest |-> "here", net |-> 0, reach |-> 0, ask |-> FALSE]
        BY DEF WatchInit
    <2>2. NoPipe \in PipeSays /\ [NoPipe EXCEPT !.dest = "here"] \in PipeSays /\ NoRows \in RowSays /\ ~NoRows.fresh
        BY DEF NoPipe, NoRows, PipeSays, RowSays, Dests
    <2> QED
        BY <2>1, <2>2 DEF RowsShape, RowsOfItsHub, Dests
<1>2. RowsShape /\ [WatchNext]_wvars => RowsShape'
    <2> SUFFICES ASSUME RowsShape, [WatchNext]_wvars PROVE RowsShape'
        OBVIOUS
    <2>0. /\ pipe \in [now : PipeSays, old : PipeSays]
          /\ rows \in [last : RowSays, cache : Nat, wake : BOOLEAN]
          /\ disk \in [ver : Nat, dest : Dests, net : Nat, reach : Nat, ask : BOOLEAN]
          /\ remote \in [ver : Nat, up : BOOLEAN] /\ RowsOfItsHub
        BY DEF RowsShape
    (* A pipe redialled, heard or dead is still the pipe to its destination. *)
    <2>1. ASSUME NEW p \in {"now", "old"}, NEW ver \in Nat, NEW l \in BOOLEAN, NEW fresh \in BOOLEAN
          PROVE  /\ [ver |-> ver, dest |-> pipe[p].dest, fresh |-> fresh] \in RowSays
                 /\ \A x \in PipeSays : [x EXCEPT !.live = l] \in PipeSays /\ [x EXCEPT !.ver = ver] \in PipeSays
                       /\ [x EXCEPT !.live = l].dest = x.dest /\ [x EXCEPT !.ver = ver].dest = x.dest
                 /\ pipe[p] \in PipeSays
        BY <2>0 DEF PipeSays, RowSays
    <2>2. ASSUME NEW p \in {"now", "old"}, NEW x \in PipeSays, x.dest = pipe[p].dest, pipe' = [pipe EXCEPT ![p] = x]
          PROVE  pipe' \in [now : PipeSays, old : PipeSays] /\ pipe'.now.dest = pipe.now.dest
        BY <2>0, <2>2
    <2>3. CASE PipeUp
        <3> DEFINE x == [pipe.now EXCEPT !.live = TRUE, !.ver = remote.ver]
        <3>1. x \in PipeSays /\ x.dest = pipe["now"].dest
            BY <2>0 DEF PipeSays
        <3>2. pipe' = [pipe EXCEPT !["now"] = x] /\ UNCHANGED <<disk, remote>>
            BY <2>3 DEF PipeUp
        <3>3. rows' = Cached(Said("now", [ver |-> remote.ver, dest |-> pipe["now"].dest, fresh |-> TRUE]), remote.ver)
            BY <2>3 DEF PipeUp, Heard
        <3> HIDE DEF x
        <3> QED
            BY <2>0, <2>1, <2>2, <3>1, <3>2, <3>3, SaidKeeps
    <2>4. ASSUME NEW p \in {"now", "old"}, Block(p) PROVE RowsShape'
        <3> DEFINE x == [pipe[p] EXCEPT !.ver = remote.ver, !.live = (p = "now")]
        <3>1. x \in PipeSays /\ x.dest = pipe[p].dest
            BY <2>0 DEF PipeSays
        <3>2. pipe' = [pipe EXCEPT ![p] = x] /\ UNCHANGED <<disk, remote>>
            BY <2>4 DEF Block
        <3>3. rows' = Cached(Said(p, [ver |-> remote.ver, dest |-> pipe[p].dest, fresh |-> TRUE]), remote.ver)
            BY <2>4 DEF Block, Heard
        <3> HIDE DEF x
        <3> QED
            BY <2>0, <2>1, <2>2, <3>1, <3>2, <3>3, SaidKeeps
    <2>5. ASSUME NEW p \in {"now", "old"}, PipeDies(p) PROVE RowsShape'
        <3> DEFINE x == [pipe[p] EXCEPT !.live = FALSE]
        <3>1. x \in PipeSays /\ x.dest = pipe[p].dest
            BY <2>0 DEF PipeSays
        <3>2. pipe' = [pipe EXCEPT ![p] = x] /\ UNCHANGED <<disk, remote>>
            BY <2>5 DEF PipeDies
        <3>3. rows' = Said(p, [ver |-> rows.cache, dest |-> pipe[p].dest, fresh |-> FALSE])
            BY <2>5 DEF PipeDies, Stale
        <3> HIDE DEF x
        <3> QED
            BY <2>0, <2>1, <2>2, <3>1, <3>2, <3>3, SaidKeeps
    <2>6. CASE Snapshot
        <3>1. CASE UNCHANGED <<pipe, rows>>
            BY <2>0, <2>6, <3>1 DEF Snapshot, RowsShape, RowsOfItsHub
        <3>2. CASE /\ pipe' = [now |-> [NoPipe EXCEPT !.dest = disk.dest], old |-> pipe.now]
                   /\ rows' = [rows EXCEPT !.last = NoRows]
            <4>1. [NoPipe EXCEPT !.dest = disk.dest] \in PipeSays /\ NoRows \in RowSays /\ ~NoRows.fresh
                BY <2>0 DEF NoPipe, NoRows, PipeSays, RowSays, Dests
            <4>2. pipe' \in [now : PipeSays, old : PipeSays]
                BY <2>0, <3>2, <4>1
            <4>3. rows' \in [last : RowSays, cache : Nat, wake : BOOLEAN] /\ rows'.last = NoRows
                BY <2>0, <3>2, <4>1
            <4> QED
                BY <2>0, <2>6, <4>1, <4>2, <4>3 DEF Snapshot, RowsShape, RowsOfItsHub
        <3> QED
            BY <2>6, <3>1, <3>2 DEF Snapshot
    <2>7. CASE Write
        <3>1. PICK d \in Dests : disk' = [disk EXCEPT !.ver = @ + 1, !.dest = d]
            BY <2>7 DEF Write
        <3>2. [disk EXCEPT !.ver = @ + 1] \in [ver : Nat, dest : Dests, net : Nat, reach : Nat, ask : BOOLEAN]
            BY <2>0
        <3>3. disk' \in [ver : Nat, dest : Dests, net : Nat, reach : Nat, ask : BOOLEAN]
            BY <2>0, <3>1, <3>2
        <3> QED
            BY <2>0, <2>7, <3>3 DEF Write, RowsShape, RowsOfItsHub
    <2>8. CASE BoxMoves \/ RequestRefresh \/ Probe \/ Event
        <3>1. disk' \in [ver : Nat, dest : Dests, net : Nat, reach : Nat, ask : BOOLEAN]
            <4>1. CASE BoxMoves
                BY <2>0, <4>1 DEF BoxMoves
            <4>2. CASE RequestRefresh
                BY <2>0, <4>2 DEF RequestRefresh
            <4>3. CASE Probe
                BY <2>0, <4>3 DEF Probe
            <4>4. CASE Event
                BY <2>0, <4>4 DEF Event
            <4> QED
                BY <2>8, <4>1, <4>2, <4>3, <4>4
        <3> QED
            BY <2>0, <2>8, <3>1 DEF BoxMoves, RequestRefresh, Probe, Event, RowsShape, RowsOfItsHub
    <2>9. CASE HubChanges \/ HubMoves
        <3>1. remote' \in [ver : Nat, up : BOOLEAN]
            <4>1. CASE HubChanges
                BY <2>0, <4>1 DEF HubChanges
            <4>2. CASE HubMoves
                <5>1. remote' = [remote EXCEPT !.up = ~remote.up]
                    BY <4>2 DEF HubMoves
                <5>2. (~remote.up) \in BOOLEAN
                    OBVIOUS
                <5> QED
                    BY <2>0, <5>1, <5>2
            <4> QED
                BY <2>9, <4>1, <4>2
        <3> QED
            BY <2>0, <2>9, <3>1 DEF HubChanges, HubMoves, RowsShape, RowsOfItsHub
    <2>10. CASE Woken
        <3>1. rows' \in [last : RowSays, cache : Nat, wake : BOOLEAN] /\ rows'.last = rows.last
            BY <2>0, <2>10 DEF Woken
        <3> QED
            BY <2>0, <2>10, <3>1 DEF Woken, RowsShape, RowsOfItsHub
    <2>11. CASE \/ DirGone \/ DirBack \/ Overflow \/ Renewed \/ Fire \/ RoundDone \/ Emit \/ ProbeEnds
                \/ UNCHANGED wvars
        BY <2>0, <2>11 DEF DirGone, DirBack, Overflow, Renewed, Fire, RoundDone, Emit, ProbeEnds, wvars, RowsShape, RowsOfItsHub
    <2> QED
        BY <2>3, <2>4, <2>5, <2>6, <2>7, <2>8, <2>9, <2>10, <2>11 DEF WatchNext, Loop
<1> QED
    BY <1>1, <1>2, PTL DEF WatchSpec, RowsShape

(* The agent's types, with the mishaps' bounds. *)
AgentInv == HandsInv /\ AgentTypeOK

(* At first there was no mishap. *)
LEMMA AgentInitInv == AgentInit => AgentInv
<1> SUFFICES ASSUME AgentInit PROVE AgentInv
  OBVIOUS
<1>1. HandsInv
  BY HandsInit
<1>2. mishaps \in [end : 0..MaxEnds, swap : 0..MaxSwaps]
  BY AgentAssumption DEF AgentInit
<1>3. nudged \in BOOLEAN /\ auth \in {"idle", "installed"}
  BY DEF AgentInit
<1> QED  BY <1>1, <1>2, <1>3 DEF AgentInv, AgentTypeOK, HandsInv, Types

(* One more mishap is counted while there is room. *)
LEMMA FaultTypes ==
  ASSUME mishaps \in [end : 0..MaxEnds, swap : 0..MaxSwaps],
         Fault("end", MaxEnds) \/ Fault("swap", MaxSwaps) \/ mishaps' = mishaps
  PROVE  mishaps' \in [end : 0..MaxEnds, swap : 0..MaxSwaps]
  BY AgentAssumption DEF Fault

(* The agent's steps keep its types. *)
LEMMA AgentStepInv == AgentInv /\ [AgentNext]_avars => AgentInv'
<1> SUFFICES ASSUME AgentInv, [AgentNext]_avars PROVE AgentInv'
  OBVIOUS
<1>1. HandsInv'
  BY SupervisorStep, TransportStep, OthersStep DEF AgentNext, AgentInv
<1>2. nudged' \in BOOLEAN /\ auth' \in {"idle", "installed"}
  BY DEF AgentInv, AgentTypeOK, AgentNext, Supervisor, Prepare, PrepareFails, Spawn, Record, Idle, Ended, Look, Wake, Stopped,
         CloseStop, CloseAgent, CloseMaster, ExecDies, MuxDies, Monitor, Swap, AuthInstalls, Nudge, Env, avars, Kept
<1>3. Fault("end", MaxEnds) \/ Fault("swap", MaxSwaps) \/ mishaps' = mishaps
  BY DEF AgentNext, Supervisor, Prepare, PrepareFails, Spawn, Record, Idle, Ended, Look, Wake, Stopped,
         CloseStop, CloseAgent, CloseMaster, ExecDies, MuxDies, Monitor, Swap, AuthInstalls, Nudge, Env, avars
<1> QED  BY <1>1, <1>2, <1>3, FaultTypes DEF AgentInv, AgentTypeOK, HandsInv, Types

-----------------------------------------------------------------------------

(***************************************************************************)
(* The types of whichever component runs (MCHub), with the bounded         *)
(* counters.  A type of its own per variable keeps the steps apart.        *)
(***************************************************************************)
Pipes == [dest : Dests \cup {"none"}, live : BOOLEAN, ver : 0..MaxBlocks]
Disks == [ver : 0..MaxWrites, dest : Dests, net : 0..MaxWrites, reach : 0..MaxWrites, ask : BOOLEAN]
Watches == [dir : BOOLEAN, on : BOOLEAN, event : BOOLEAN, gone : BOOLEAN, lost : BOOLEAN]
Loops == [armed : BOOLEAN, changed : BOOLEAN, wanted : BOOLEAN, round : {"none", "asked", "probing", "done"},
          at : {"start", "wait", "read", "print"}, conf : 0..MaxWrites]
AllRows == [last : RowSet, cache : 0..MaxBlocks, wake : BOOLEAN]

(* The watcher's types, variable by variable. *)
LEMMA WatchTypeParts == WatchTypeOK <=>
   /\ disk \in Disks /\ remote \in [ver : 0..MaxBlocks, up : BOOLEAN] /\ watch \in Watches /\ loop \in Loops
   /\ pipe \in [now : Pipes, old : Pipes] /\ rows \in AllRows /\ shown \in Listing /\ hitches \in 0..MaxHitches
  BY DEF WatchTypeOK, Disks, Watches, Loops, Pipes, AllRows

(* No pipe, no rows and no listing are of their types. *)
LEMMA NoneTypes == NoPipe \in Pipes /\ NoRows \in RowSet /\ Nothing \in Listing
              /\ \A d \in Dests : [NoPipe EXCEPT !.dest = d] \in Pipes
<1>1. 0 \in 0..MaxBlocks /\ 0 \in 0..MaxWrites
  BY WatchAssumption
<1>2. NoPipe \in Pipes /\ NoRows \in RowSet
  BY <1>1 DEF NoPipe, NoRows, Pipes, RowSet
<1>3. \A d \in Dests : [NoPipe EXCEPT !.dest = d] \in Pipes
  BY <1>2 DEF Pipes
<1> QED  BY <1>1, <1>2, <1>3 DEF Nothing, Listing

(* At first nothing was printed. *)
LEMMA WatchInitTypes == WatchInit => WatchTypeOK
<1> SUFFICES ASSUME WatchInit PROVE WatchTypeOK
  OBVIOUS
<1>1. [NoPipe EXCEPT !.dest = "here"] \in Pipes
  BY NoneTypes DEF Dests
<1>2. disk \in Disks /\ remote \in [ver : 0..MaxBlocks, up : BOOLEAN] /\ watch \in Watches /\ loop \in Loops
  BY WatchAssumption DEF WatchInit, Disks, Watches, Loops, Dests
<1>3. pipe \in [now : Pipes, old : Pipes] /\ rows \in AllRows /\ shown \in Listing /\ hitches \in 0..MaxHitches
  BY NoneTypes, <1>1, WatchAssumption DEF WatchInit, AllRows
<1> QED  BY <1>2, <1>3, WatchTypeParts

(* What the files become. *)
LEMMA DiskTypes ==
  ASSUME WatchTypeOK, [WatchNext]_wvars
  PROVE  disk' \in Disks
<1>0. disk \in Disks
  BY WatchTypeParts
<1>1. CASE Write
  <2>1. PICK d \in Dests : disk.ver < MaxWrites /\ disk' = [disk EXCEPT !.ver = @ + 1, !.dest = d]
    BY <1>1 DEF Write
  <2>2. [disk EXCEPT !.ver = @ + 1] \in Disks
    BY <1>0, <2>1, WatchAssumption DEF Disks
  <2> QED  BY <2>1, <2>2 DEF Disks
<1>2. CASE BoxMoves
  BY <1>0, <1>2, WatchAssumption DEF BoxMoves, Disks
<1>3. CASE RequestRefresh \/ Event
  <2>1. disk' = [disk EXCEPT !.ask = TRUE] \/ disk' = [disk EXCEPT !.ask = FALSE]
    BY <1>3 DEF RequestRefresh, Event
  <2> QED  BY <1>0, <2>1 DEF Disks
<1>4. CASE Probe
  BY <1>0, <1>4 DEF Probe, Disks
<1>5. CASE ~(Write \/ BoxMoves \/ RequestRefresh \/ Event \/ Probe)
  <2>1. disk' = disk
    BY <1>5 DEF WatchNext, Loop, DirGone, DirBack, Overflow, HubChanges, HubMoves, PipeUp, Block, PipeDies,
                Renewed, Woken, Fire, RoundDone, Snapshot, Emit, ProbeEnds, wvars
  <2> QED  BY <1>0, <2>1
<1> QED  BY <1>1, <1>2, <1>3, <1>4, <1>5

(* What the hub and the number of hitches become. *)
LEMMA RemoteTypes ==
  ASSUME WatchTypeOK, [WatchNext]_wvars
  PROVE  remote' \in [ver : 0..MaxBlocks, up : BOOLEAN] /\ hitches' \in 0..MaxHitches
<1>0. remote \in [ver : 0..MaxBlocks, up : BOOLEAN] /\ hitches \in 0..MaxHitches
  BY WatchTypeParts
<1>1. \/ remote' = remote
      \/ remote.ver < MaxBlocks /\ remote' = [remote EXCEPT !.ver = @ + 1]
      \/ remote' = [remote EXCEPT !.up = ~@]
  BY DEF WatchNext, Loop, Write, BoxMoves, RequestRefresh, DirGone, DirBack, Overflow, HubChanges, HubMoves, PipeUp, Block,
         PipeDies, Event, Renewed, Woken, Fire, RoundDone, Snapshot, Emit, Probe, ProbeEnds, wvars
<1>2. (~remote.up) \in BOOLEAN
  OBVIOUS
<1>3. remote' \in [ver : 0..MaxBlocks, up : BOOLEAN]
  <2>1. CASE remote.ver < MaxBlocks /\ remote' = [remote EXCEPT !.ver = remote.ver + 1]
    <3>1. remote.ver + 1 \in 0..MaxBlocks
      BY <1>0, <2>1, WatchAssumption
    <3> QED  BY <1>0, <2>1, <3>1
  <2>2. CASE remote' = [remote EXCEPT !.up = ~remote.up]
    BY <1>0, <1>2, <2>2
  <2> QED  BY <1>0, <1>1, <2>1, <2>2
<1>4. hitches' = hitches \/ Fails
  BY DEF WatchNext, Loop, Write, BoxMoves, RequestRefresh, DirGone, DirBack, Overflow, HubChanges, HubMoves, PipeUp, Block,
         PipeDies, Event, Renewed, Woken, Fire, RoundDone, Snapshot, Emit, Probe, ProbeEnds, wvars
<1>5. hitches' \in 0..MaxHitches
  BY <1>0, <1>4, WatchAssumption DEF Fails
<1> QED  BY <1>3, <1>5

(* What the watched directory and its watch become. *)
LEMMA WatchesTypes ==
  ASSUME WatchTypeOK, [WatchNext]_wvars
  PROVE  watch' \in Watches
<1>0. watch \in Watches
  BY WatchTypeParts
<1>1. \/ watch' = watch \/ Reported
      \/ watch' = [watch EXCEPT !.dir = FALSE, !.on = FALSE, !.gone = @ \/ watch.on]
      \/ watch' = [watch EXCEPT !.dir = TRUE]
      \/ watch' = [watch EXCEPT !.event = FALSE, !.lost = TRUE]
      \/ watch' = [watch EXCEPT !.event = FALSE]
      \/ watch' = [Rewatched(watch) EXCEPT !.gone = FALSE, !.lost = FALSE]
  BY DEF WatchNext, Loop, Write, BoxMoves, RequestRefresh, DirGone, DirBack, Overflow, HubChanges, HubMoves, PipeUp, Block,
         PipeDies, Event, Renewed, Woken, Fire, RoundDone, Snapshot, Emit, Probe, ProbeEnds, wvars
<1>2. \A x \in Watches : \A b \in BOOLEAN :
        /\ [x EXCEPT !.dir = b] \in Watches /\ [x EXCEPT !.on = b] \in Watches /\ [x EXCEPT !.event = b] \in Watches
        /\ [x EXCEPT !.gone = b] \in Watches /\ [x EXCEPT !.lost = b] \in Watches
  BY DEF Watches
<1>3. (watch.event \/ watch.on) \in BOOLEAN /\ (watch.gone \/ watch.on) \in BOOLEAN
  OBVIOUS
<1> QED  BY <1>0, <1>1, <1>2, <1>3 DEF Reported, Rewatched

(* What the loop's own state becomes. *)
LEMMA LoopTypes ==
  ASSUME WatchTypeOK, [WatchNext]_wvars
  PROVE  loop' \in Loops
<1>0. loop \in Loops /\ disk \in Disks
  BY WatchTypeParts
<1>1. \A x \in Loops : \A b \in BOOLEAN :
        [x EXCEPT !.armed = b] \in Loops /\ [x EXCEPT !.changed = b] \in Loops /\ [x EXCEPT !.wanted = b] \in Loops
  BY DEF Loops
<1>2. Arm(loop) \in Loops
  <2>1. Arm(loop) = [[loop EXCEPT !.armed = TRUE] EXCEPT !.changed = TRUE]
    BY DEF Arm
  <2> QED  BY <1>0, <1>1, <2>1
<1>3. CASE Event
  <2>1. loop' = [Arm(loop) EXCEPT !.wanted = Arm(loop).wanted \/ disk.ask] /\ (Arm(loop).wanted \/ disk.ask) \in BOOLEAN
    BY <1>3 DEF Event
  <2> QED  BY <1>1, <1>2, <2>1
<1>4. CASE Fire
  <2>1. PICK r \in {"none", "asked", "probing", "done"}, a \in {"start", "wait", "read", "print"} :
          loop' = [loop EXCEPT !.armed = FALSE, !.changed = FALSE, !.wanted = FALSE, !.round = r, !.at = a]
    <3>1. loop.round \in {"none", "asked", "probing", "done"} /\ loop.at \in {"start", "wait", "read", "print"}
      BY <1>0 DEF Loops
    <3>2. /\ (IF loop.wanted /\ loop.round = "none" THEN "asked" ELSE loop.round) \in {"none", "asked", "probing", "done"}
          /\ (IF loop.changed THEN "read" ELSE loop.at) \in {"start", "wait", "read", "print"}
      BY <3>1
    <3>3. loop' = [loop EXCEPT !.armed = FALSE, !.changed = FALSE, !.wanted = FALSE,
                               !.round = IF loop.wanted /\ loop.round = "none" THEN "asked" ELSE loop.round,
                               !.at = IF loop.changed THEN "read" ELSE loop.at]
      BY <1>4 DEF Fire
    <3> QED  BY <3>2, <3>3
  <2>2. [[[loop EXCEPT !.armed = FALSE] EXCEPT !.changed = FALSE] EXCEPT !.wanted = FALSE] \in Loops
    BY <1>0, <1>1
  <2>3. \A x \in Loops : [x EXCEPT !.round = r, !.at = a] \in Loops
    BY DEF Loops
  <2>4. loop' = [[[[loop EXCEPT !.armed = FALSE] EXCEPT !.changed = FALSE] EXCEPT !.wanted = FALSE] EXCEPT !.round = r, !.at = a]
    BY <2>1
  <2> QED  BY <2>2, <2>3, <2>4
<1>5. CASE Snapshot
  <2>1. disk.ver \in 0..MaxWrites /\ loop' = [loop EXCEPT !.at = "print", !.conf = disk.ver]
    BY <1>0, <1>5 DEF Snapshot, Disks
  <2> QED  BY <1>0, <2>1 DEF Loops
<1>6. CASE ~(Event \/ Fire \/ Snapshot)
  <2>1. \/ loop' = loop \/ loop' = Arm(loop)
        \/ loop' = [loop EXCEPT !.round = "probing"] \/ loop' = [loop EXCEPT !.round = "done"]
        \/ loop' = [loop EXCEPT !.round = "none", !.at = "read"] \/ loop' = [loop EXCEPT !.at = "wait"]
    BY <1>6 DEF WatchNext, Loop, Write, BoxMoves, RequestRefresh, DirGone, DirBack, Overflow, HubChanges, HubMoves, PipeUp, Block,
         PipeDies, Renewed, Woken, RoundDone, Emit, Probe, ProbeEnds, wvars
  <2>2. \A x \in Loops : /\ [x EXCEPT !.round = "probing"] \in Loops /\ [x EXCEPT !.round = "done"] \in Loops
                         /\ [x EXCEPT !.round = "none", !.at = "read"] \in Loops /\ [x EXCEPT !.at = "wait"] \in Loops
    BY DEF Loops
  <2> QED  BY <1>0, <1>2, <2>1, <2>2
<1> QED  BY <1>3, <1>4, <1>5, <1>6

(* What the pipes become. *)
LEMMA PipeTypes ==
  ASSUME WatchTypeOK, [WatchNext]_wvars
  PROVE  pipe' \in [now : Pipes, old : Pipes]
<1>0. pipe \in [now : Pipes, old : Pipes] /\ remote.ver \in 0..MaxBlocks /\ disk.dest \in Dests
  BY WatchTypeParts DEF Disks
<1>1. \A x \in Pipes : \A b \in BOOLEAN, n \in 0..MaxBlocks : [x EXCEPT !.live = b] \in Pipes /\ [x EXCEPT !.ver = n] \in Pipes
  BY DEF Pipes
<1>2. \A p \in {"now", "old"}, x \in Pipes : [pipe EXCEPT ![p] = x] \in [now : Pipes, old : Pipes]
  BY <1>0
<1>3. \A p \in {"now", "old"} : pipe[p] \in Pipes
  BY <1>0
<1>4. CASE PipeUp
  <2>1. pipe' = [pipe EXCEPT !["now"] = [pipe["now"] EXCEPT !.live = TRUE, !.ver = remote.ver]]
    BY <1>4 DEF PipeUp
  <2> QED  BY <1>0, <1>1, <1>2, <1>3, <2>1
<1>5. ASSUME NEW p \in {"now", "old"}, Block(p) PROVE pipe' \in [now : Pipes, old : Pipes]
  <2>1. pipe' = [pipe EXCEPT ![p] = [pipe[p] EXCEPT !.ver = remote.ver, !.live = (p = "now")]] /\ (p = "now") \in BOOLEAN
    BY <1>5 DEF Block
  <2> QED  BY <1>0, <1>1, <1>2, <1>3, <2>1
<1>6. ASSUME NEW p \in {"now", "old"}, PipeDies(p) PROVE pipe' \in [now : Pipes, old : Pipes]
  <2>1. pipe' = [pipe EXCEPT ![p] = [pipe[p] EXCEPT !.live = FALSE]]
    BY <1>6 DEF PipeDies
  <2> QED  BY <1>0, <1>1, <1>2, <1>3, <2>1
<1>7. CASE Snapshot
  BY <1>0, <1>3, <1>7, NoneTypes DEF Snapshot
<1>8. CASE pipe' = pipe
  BY <1>0, <1>8
<1> QED
  BY <1>4, <1>5, <1>6, <1>7, <1>8 DEF WatchNext, Loop, Write, BoxMoves, RequestRefresh, DirGone, DirBack, Overflow, HubChanges,
     HubMoves, Event, Renewed, Woken, Fire, RoundDone, Emit, Probe, ProbeEnds, wvars

(* What is said of a pipe are rows, and so is what is printed of them. *)
LEMMA RowTypes ==
  ASSUME WatchTypeOK, [WatchNext]_wvars
  PROVE  rows' \in AllRows /\ shown' \in Listing
<1>0. /\ rows \in AllRows /\ shown \in Listing /\ rows.last \in RowSet /\ rows.cache \in 0..MaxBlocks
      /\ remote.ver \in 0..MaxBlocks /\ loop.conf \in 0..MaxWrites /\ disk.reach \in 0..MaxWrites
      /\ \A p \in {"now", "old"} : pipe[p].dest \in Dests \cup {"none"}
  BY WatchTypeParts DEF AllRows, Disks, Loops, Pipes
<1>1. ASSUME NEW p \in {"now", "old"}, NEW n \in 0..MaxBlocks, NEW b \in BOOLEAN, NEW c \in 0..MaxBlocks
      PROVE  /\ Said(p, [ver |-> n, dest |-> pipe[p].dest, fresh |-> b]) \in AllRows
             /\ Cached(Said(p, [ver |-> n, dest |-> pipe[p].dest, fresh |-> b]), c) \in AllRows
  <2>1. [ver |-> n, dest |-> pipe[p].dest, fresh |-> b] \in RowSet
    BY <1>0 DEF RowSet
  <2>2. PICK l \in RowSet : Said(p, [ver |-> n, dest |-> pipe[p].dest, fresh |-> b]) = [rows EXCEPT !.last = l, !.wake = TRUE]
    BY <1>0, <2>1 DEF Said
  <2>3. [rows EXCEPT !.last = l, !.wake = TRUE] \in AllRows
    BY <1>0 DEF AllRows
  <2>4. \A x \in AllRows : [x EXCEPT !.cache = c] \in AllRows
    BY DEF AllRows
  <2> QED  BY <2>2, <2>3, <2>4 DEF Cached
<1>2. rows' \in AllRows
  <2>1. CASE PipeUp
    BY <1>0, <1>1, <2>1 DEF PipeUp, Heard
  <2>2. ASSUME NEW p \in {"now", "old"}, Block(p) PROVE rows' \in AllRows
    BY <1>0, <1>1, <2>2 DEF Block, Heard
  <2>3. ASSUME NEW p \in {"now", "old"}, PipeDies(p) PROVE rows' \in AllRows
    BY <1>0, <1>1, <2>3 DEF PipeDies, Stale
  <2>4. CASE Snapshot
    BY <1>0, <2>4, NoneTypes DEF Snapshot, AllRows
  <2>5. CASE Woken
    BY <1>0, <2>5 DEF Woken, AllRows
  <2>6. CASE rows' = rows
    BY <1>0, <2>6
  <2> QED
    BY <2>1, <2>2, <2>3, <2>4, <2>5, <2>6 DEF WatchNext, Loop, Write, BoxMoves, RequestRefresh, DirGone, DirBack, Overflow,
       HubChanges, HubMoves, Event, Renewed, Fire, RoundDone, Emit, Probe, ProbeEnds, wvars
<1>3. shown' = shown \/ shown' = [ver |-> loop.conf, reach |-> disk.reach, hub |-> rows.last]
  BY DEF WatchNext, Loop, Write, BoxMoves, RequestRefresh, DirGone, DirBack, Overflow, HubChanges, HubMoves, PipeUp, Block,
         PipeDies, Event, Renewed, Woken, Fire, RoundDone, Snapshot, Emit, Probe, ProbeEnds, wvars
<1> QED  BY <1>0, <1>2, <1>3 DEF Listing

(* The watcher's steps keep its types. *)
LEMMA WatchStepTypes == WatchTypeOK /\ [WatchNext]_wvars => WatchTypeOK'
<1> SUFFICES ASSUME WatchTypeOK, [WatchNext]_wvars PROVE WatchTypeOK'
  OBVIOUS
<1> QED  BY DiskTypes, RemoteTypes, WatchesTypes, LoopTypes, PipeTypes, RowTypes
         DEF WatchTypeOK, Disks, Watches, Loops, Pipes, AllRows

(* Of the component that runs, what is inductive. *)
SystemsInv ==
  /\ part \in {"hub", "agent", "watch"}
  /\ part = "hub" => HubTypeOK
  /\ part = "agent" => AgentInv
  /\ part = "watch" => WatchTypeOK

(***************************************************************************)
(* Whatever a hub, an agent's supervisor or a watcher goes through, every  *)
(* variable keeps its type and every counter its bound, for any guest      *)
(* ports, hub ports and bounds.                                            *)
(***************************************************************************)
THEOREM SystemsKeepTypes == SystemsSpec => []SystemsTypeOK
<1>1. SystemsInit => SystemsInv
  BY HubInitInv, AgentInitInv, WatchInitTypes DEF SystemsInit, SystemsInv, HubInv
<1>2. SystemsInv /\ [SystemsNext]_systems => SystemsInv'
  <2> SUFFICES ASSUME SystemsInv, [SystemsNext]_systems PROVE SystemsInv'
    OBVIOUS
  <2>1. CASE part = "hub" /\ HubNext /\ UNCHANGED part
    BY <2>1, HubStepTypes DEF SystemsInv
  <2>2. CASE part = "agent" /\ AgentNext /\ UNCHANGED part
    BY <2>2, AgentStepInv DEF SystemsInv
  <2>3. CASE part = "watch" /\ WatchNext /\ UNCHANGED part
    BY <2>3, WatchStepTypes DEF SystemsInv
  <2>4. CASE UNCHANGED systems
    <3>1. part' = part /\ UNCHANGED hvars /\ UNCHANGED avars /\ UNCHANGED wvars
      BY <2>4 DEF systems
    <3> QED  BY <3>1, HubStepTypes, AgentStepInv, WatchStepTypes DEF SystemsInv
  <2> QED  BY <2>1, <2>2, <2>3, <2>4 DEF SystemsNext
<1>3. SystemsInv => SystemsTypeOK
  BY DEF SystemsInv, SystemsTypeOK, AgentInv
<1> QED  BY <1>1, <1>2, <1>3, PTL DEF SystemsSpec
=============================================================================
