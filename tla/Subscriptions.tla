---------------------------- MODULE Subscriptions ----------------------------
(***************************************************************************)
(* Who hears a machine's browser events.  A held session subscribes to its *)
(* daemon and re-subscribes when it reconnects (session/session_client.go);*)
(* the daemon of a hub machine subscribes its relay on the hub while it    *)
(* has a subscriber of its own (session/daemon.go, syncUpstream;           *)
(* session/transport_hub.go, setSubscribed).  One action is one critical   *)
(* section, one line written or one reply read.                            *)
(***************************************************************************)
EXTENDS Naturals, Sequences, FiniteSets

CONSTANTS Clients,   \* held sessions: attach, shell, auth
          MaxLines,  \* bounds the lines unread on a relay
          MaxConns,  \* bounds the session connections opened
          MaxTurns   \* bounds those, the transports dialed and the calls that
                     \* outlive their bound, together

ASSUME SubsAssumption == MaxConns \in Nat /\ MaxLines \in Nat /\ MaxTurns \in Nat \ {0}

VARIABLES sessions,  \* Session: its wish, what opMu is held for, its connections
          conns,     \* the daemon's side of each connection (serveSession)
          subs,      \* daemon.subs, as a set
          up,        \* daemon: tr, upOn, upDirty, upInflight, re-syncs due
          upMu,      \* who holds upMu, and the call it makes
          relay      \* the live relay, and the hub's view of it

uvars == <<sessions, conns, subs, up, upMu, relay>>

Conns == 1..MaxConns

(* The daemon's threads that take upMu. *)
Threads == ({"worker", "reader"} \X Conns) \cup {<<"restore", 0>>, <<"resync", 0>>}
Restorer == <<"restore", 0>>
Resyncer == <<"resync", 0>>
Nobody == <<"nobody", 0>>
FreeMu == [by |-> Nobody, phase |-> "call", on |-> FALSE, to |-> 0, result |-> "open"]

NoConn == [state |-> "unused", line |-> "none", worker |-> "idle"]

SubsTypeOK ==
    /\ sessions \in [Clients -> [subscribed : BOOLEAN, conn : 0..MaxConns, cur : 0..MaxConns,
                                 op : {"none", "opened", "resub", "install", "sub", "unsub"}]]
    /\ conns \in [Conns -> [state : {"unused", "open", "broken", "sync", "drain", "closed"},
                            line : {"none", "sub", "unsub"},
                            worker : {"idle", "sub", "unsub", "syncsub", "syncunsub"}]]
    /\ subs \subseteq Conns
    /\ up \in [tr : 0..MaxTurns, fresh : BOOLEAN, on : BOOLEAN, dirty : BOOLEAN,
               inflight : {"none", "open", "done"}, resyncs : 0..2, slow : 0..MaxTurns]
    /\ upMu \in [by : Threads \cup {Nobody}, phase : {"prev", "call"}, on : BOOLEAN,
                 to : 0..MaxTurns, result : {"open", "ok", "err"}]
    /\ relay \in [live : 0..MaxTurns, dialed : 0..MaxTurns, subscribed : BOOLEAN,
                  lines : Seq([on : BOOLEAN, call : {"held", "abandoned", "forgotten"}])]

SubsInit ==
    /\ sessions = [c \in Clients |-> [subscribed |-> FALSE, conn |-> 0, cur |-> 0, op |-> "none"]]
    /\ conns = [n \in Conns |-> NoConn]
    /\ subs = {}
    /\ up = [tr |-> 1, fresh |-> FALSE, on |-> FALSE, dirty |-> FALSE, inflight |-> "none", resyncs |-> 0, slow |-> 0]
    /\ upMu = FreeMu
    /\ relay = [live |-> 1, dialed |-> 1, subscribed |-> FALSE, lines |-> <<>>]

daemonSide == <<subs, up, upMu, relay>>

Turns == Cardinality({n \in Conns : conns[n].state # "unused"}) + relay.dialed + up.slow

(***************************************************************************)
(* The session client.  opMu is held from the start of an op to its end.   *)
(***************************************************************************)

Alive(c) == sessions[c].conn # 0
Queue(n, line) == conns' = [conns EXCEPT ![n].line = line]
Room(n) == conns[n].line = "none"

(* supervise clears cur when the connection is gone, and connects again. *)
Connect(c) ==
    /\ sessions[c].op = "none" /\ ~Alive(c) /\ Turns < MaxTurns
    /\ \E n \in Conns :
          /\ conns[n].state = "unused" /\ \A k \in 1..n - 1 : conns[k].state # "unused"
          /\ conns' = [conns EXCEPT ![n].state = "open"]
          /\ sessions' = [sessions EXCEPT ![c].op = "opened", ![c].cur = 0, ![c].conn = n]
    /\ UNCHANGED daemonSide

(* connect re-subscribes before it installs the connection. *)
Resubscribe(c) ==
    /\ sessions[c].op = "opened"
    /\ IF sessions[c].subscribed /\ Alive(c)
       THEN Queue(sessions[c].conn, "sub") /\ sessions' = [sessions EXCEPT ![c].op = "resub"]
       ELSE sessions' = [sessions EXCEPT ![c].op = "install"] /\ UNCHANGED conns
    /\ UNCHANGED daemonSide

Install(c) ==
    /\ sessions[c].op = "install"
    /\ sessions' = [sessions EXCEPT ![c].op = "none", ![c].cur = sessions[c].conn]
    /\ UNCHANGED <<conns, daemonSide>>

(* With no connection the caller is told so: the reconnect re-sends it. *)
Subscribe(c) ==
    /\ sessions[c].op = "none"
    /\ LET n == sessions[c].cur
       IN IF n = 0 \/ n # sessions[c].conn
          THEN sessions' = [sessions EXCEPT ![c].subscribed = TRUE] /\ UNCHANGED conns
          ELSE /\ Room(n) /\ Queue(n, "sub")
               /\ sessions' = [sessions EXCEPT ![c].subscribed = TRUE, ![c].op = "sub"]
    /\ UNCHANGED daemonSide

Unsubscribe(c) ==
    /\ sessions[c].op = "none" /\ sessions[c].subscribed
    /\ LET n == sessions[c].cur
           quiet == [sessions[c] EXCEPT !.subscribed = FALSE]
       IN IF n = 0 \/ n # sessions[c].conn
          THEN sessions' = [sessions EXCEPT ![c] = quiet] /\ UNCHANGED conns
          ELSE /\ Room(n) /\ Queue(n, "unsub")
               /\ sessions' = [sessions EXCEPT ![c] = [quiet EXCEPT !.op = "unsub"]]
    /\ UNCHANGED daemonSide

(* The call ends, with its reply, the connection's death or callTimeout:   *)
(* the session keeps nothing of which it was.                              *)
Called(c) ==
    /\ sessions[c].op \in {"resub", "sub", "unsub"}
    /\ sessions' = [sessions EXCEPT ![c].op = IF @ = "resub" THEN "install" ELSE "none"]
    /\ UNCHANGED <<conns, daemonSide>>

(* The connection breaks: a client killed, or a write that failed. *)
Break(c) ==
    /\ Alive(c)
    /\ conns' = [conns EXCEPT ![sessions[c].conn].state = "broken"]
    /\ sessions' = [sessions EXCEPT ![c].conn = 0]
    /\ UNCHANGED daemonSide

Client(c) ==
    \/ Connect(c) \/ Resubscribe(c) \/ Install(c)
    \/ Subscribe(c) \/ Unsubscribe(c) \/ Called(c) \/ Break(c)

(***************************************************************************)
(* The daemon's upstream subscription.                                     *)
(***************************************************************************)

(* callUpstream: behind a call still in flight it waits for that one first. *)
Hold(t, on, inflight) ==
    /\ upMu' = [by |-> t, phase |-> IF inflight = "open" THEN "prev" ELSE "call", on |-> on, to |-> up.tr,
                result |-> IF up.tr # relay.live THEN "err" ELSE "open"]
    /\ relay' = IF inflight = "open" \/ up.tr # relay.live THEN relay
                ELSE [relay EXCEPT !.lines = Append(@, [on |-> on, call |-> "held"])]

Want == subs # {}

(* syncUpstream has nothing to send: no transport, or nothing changed. *)
InStep(subscribing) == up.tr = 0 \/ (~up.dirty /\ Want = up.on /\ ~(Want /\ subscribing))

SyncUpstream(t, subscribing) ==
    /\ upMu.by = Nobody /\ Len(relay.lines) < MaxLines
    /\ ~InStep(subscribing)
    /\ Hold(t, Want, up.inflight)
    /\ up' = [up EXCEPT !.inflight = IF @ = "done" THEN "none" ELSE @]

(* The call before it returned: this one is sent. *)
PrevReturned ==
    /\ upMu.by # Nobody /\ upMu.phase = "prev" /\ up.inflight = "done" /\ Len(relay.lines) < MaxLines
    /\ up' = [up EXCEPT !.inflight = "none"]
    /\ upMu' = [upMu EXCEPT !.phase = "call", !.result = IF upMu.to # relay.live THEN "err" ELSE "open"]
    /\ relay' = IF upMu.to # relay.live THEN relay
                ELSE [relay EXCEPT !.lines = Append(@, [on |-> upMu.on, call |-> "held"])]
    /\ UNCHANGED <<sessions, conns, subs>>

(* The thread that held upMu goes on. *)
Finish(t) ==
    CASE t[1] = "worker" -> conns' = [conns EXCEPT ![t[2]].worker = "idle"]
      [] t[1] = "reader" -> conns' = [conns EXCEPT ![t[2]].state = "drain"]
      [] OTHER -> UNCHANGED conns

Returned ==
    /\ upMu.by # Nobody /\ upMu.phase = "call" /\ upMu.result # "open"
    /\ up' = [up EXCEPT !.on = IF upMu.result = "ok" THEN upMu.on ELSE @,
                        !.dirty = IF upMu.result = "ok" THEN FALSE ELSE @]
    /\ upMu' = FreeMu /\ Finish(upMu.by)
    /\ UNCHANGED <<sessions, subs, relay>>

(* Mutant of GaveUp: what the hub was told last is believed. *)
GaveUp_Clean ==
    /\ upMu.by # Nobody
    /\ IF upMu.phase = "prev" THEN up.inflight = "open" ELSE upMu.result = "open"
    /\ Turns < MaxTurns
    /\ up' = [up EXCEPT !.inflight = "open", !.slow = @ + 1]
    /\ relay' = IF upMu.phase = "prev" THEN relay
                ELSE [relay EXCEPT !.lines = [i \in DOMAIN @ |->
                         IF @[i].call = "held" THEN [@[i] EXCEPT !.call = "abandoned"] ELSE @[i]]]
    /\ upMu' = FreeMu /\ Finish(upMu.by)
    /\ UNCHANGED <<sessions, subs>>

(* upTimeout: the call is abandoned, counted in flight, and the upstream   *)
(* state is unknown; or the one before it still has not returned.          *)
GaveUp ==
    /\ upMu.by # Nobody
    /\ IF upMu.phase = "prev" THEN up.inflight = "open" ELSE upMu.result = "open"
    /\ Turns < MaxTurns
    /\ up' = [up EXCEPT !.dirty = TRUE, !.inflight = "open", !.slow = @ + 1]
    /\ relay' = IF upMu.phase = "prev" THEN relay
                ELSE [relay EXCEPT !.lines = [i \in DOMAIN @ |->
                         IF @[i].call = "held" THEN [@[i] EXCEPT !.call = "abandoned"] ELSE @[i]]]
    /\ upMu' = FreeMu /\ Finish(upMu.by)
    /\ UNCHANGED <<sessions, subs>>

(* The abandoned call returns at last, with the relay call's own timeout:  *)
(* the hub may still read the line.                                        *)
LateError ==
    /\ up.inflight = "open" /\ up.resyncs < 2
    /\ \E i \in DOMAIN relay.lines : relay.lines[i].call = "abandoned"
    /\ up' = [up EXCEPT !.inflight = "done", !.resyncs = @ + 1]
    /\ relay' = [relay EXCEPT !.lines = [i \in DOMAIN @ |->
                     IF @[i].call = "abandoned" THEN [@[i] EXCEPT !.call = "forgotten"] ELSE @[i]]]
    /\ UNCHANGED <<sessions, conns, subs, upMu>>

(* The re-sync that the late answer starts. *)
Resync ==
    /\ up.resyncs > 0
    /\ IF InStep(FALSE)
       THEN upMu.by = Nobody /\ up' = [up EXCEPT !.resyncs = @ - 1] /\ UNCHANGED <<upMu, relay>>
       ELSE /\ upMu.by = Nobody /\ Len(relay.lines) < MaxLines
            /\ Hold(Resyncer, Want, up.inflight)
            /\ up' = [up EXCEPT !.inflight = IF @ = "done" THEN "none" ELSE @, !.resyncs = @ - 1]
    /\ UNCHANGED <<sessions, conns, subs>>

(* restore: the new transport is in place before upMu is taken. *)
Restore ==
    /\ up.tr = 0 /\ Turns < MaxTurns
    /\ relay' = [live |-> relay.dialed + 1, dialed |-> relay.dialed + 1, subscribed |-> FALSE, lines |-> <<>>]
    /\ up' = [up EXCEPT !.tr = relay.dialed + 1, !.fresh = TRUE]
    /\ UNCHANGED <<sessions, conns, subs, upMu>>

ResubscribeUpstream ==
    /\ up.fresh /\ upMu.by = Nobody /\ Len(relay.lines) < MaxLines
    /\ up' = [up EXCEPT !.fresh = FALSE, !.on = FALSE, !.dirty = FALSE, !.inflight = "none"]
    /\ IF Want THEN Hold(Restorer, TRUE, "none") ELSE UNCHANGED <<upMu, relay>>
    /\ UNCHANGED <<sessions, conns, subs>>

(* The relay dies: every call on it fails, and the hub forgets it. *)
RelayDies ==
    /\ relay.live # 0
    /\ relay' = [relay EXCEPT !.live = 0, !.subscribed = FALSE, !.lines = <<>>]
    /\ upMu' = IF upMu.by # Nobody /\ upMu.phase = "call" /\ upMu.result = "open"
               THEN [upMu EXCEPT !.result = "err"] ELSE upMu
    /\ up' = IF up.inflight = "open" /\ up.resyncs < 2
             THEN [up EXCEPT !.inflight = "done", !.resyncs = @ + 1] ELSE up
    /\ UNCHANGED <<sessions, conns, subs>>

OnDead ==
    /\ up.tr # 0 /\ relay.live = 0 /\ ~up.fresh
    /\ up' = [up EXCEPT !.tr = 0]
    /\ UNCHANGED <<sessions, conns, subs, upMu, relay>>

(* The hub reads a line, registers it and answers. *)
HubReads ==
    /\ relay.lines # <<>>
    /\ LET line == Head(relay.lines)
       IN /\ relay' = [relay EXCEPT !.subscribed = line.on, !.lines = Tail(@)]
          /\ upMu' = IF line.call = "held" THEN [upMu EXCEPT !.result = "ok"] ELSE upMu
          /\ line.call = "abandoned" => up.resyncs < 2
          /\ up' = IF line.call = "abandoned"
                   THEN [up EXCEPT !.inflight = IF @ = "open" THEN "done" ELSE @, !.resyncs = @ + 1] ELSE up
    /\ UNCHANGED <<sessions, conns, subs>>

(***************************************************************************)
(* serveSession: a worker that runs the requests, and the reader's end.    *)
(***************************************************************************)

(* The worker looks whether the session is done before each request. *)
Take(n) ==
    /\ conns[n].worker = "idle" /\ conns[n].line # "none"
    /\ conns[n].state \in {"open", "broken"}
    /\ conns' = [conns EXCEPT ![n].line = "none", ![n].worker = conns[n].line]
    /\ UNCHANGED <<sessions, daemonSide>>

Register(n) ==
    /\ conns[n].worker \in {"sub", "unsub"}
    /\ subs' = IF conns[n].worker = "sub" THEN subs \cup {n} ELSE subs \ {n}
    /\ conns' = [conns EXCEPT ![n].worker = IF @ = "sub" THEN "syncsub" ELSE "syncunsub"]
    /\ UNCHANGED <<sessions, up, upMu, relay>>

(* With no transport a subscribe is refused: its ack would mean nothing. *)
WorkerSync(n) ==
    LET subscribing == conns[n].worker = "syncsub"
    IN /\ conns[n].worker \in {"syncsub", "syncunsub"}
       /\ IF InStep(subscribing)
          THEN upMu.by = Nobody /\ Finish(<<"worker", n>>) /\ UNCHANGED <<up, upMu, relay>>
          ELSE SyncUpstream(<<"worker", n>>, subscribing) /\ UNCHANGED conns
       /\ UNCHANGED <<sessions, subs>>

(* The reader meets the end: done is closed, the session unsubscribed. *)
ReaderEnds(n) ==
    /\ conns[n].state = "broken"
    /\ conns' = [conns EXCEPT ![n].state = "sync", ![n].line = "none"]
    /\ subs' = subs \ {n}
    /\ UNCHANGED <<sessions, up, upMu, relay>>

ReaderSync(n) ==
    /\ conns[n].state = "sync" /\ upMu.by # <<"reader", n>>
    /\ IF InStep(FALSE)
       THEN upMu.by = Nobody /\ Finish(<<"reader", n>>) /\ UNCHANGED <<up, upMu, relay>>
       ELSE SyncUpstream(<<"reader", n>>, FALSE) /\ UNCHANGED conns
    /\ UNCHANGED <<sessions, subs>>

(* closeSession, once the worker has run out. *)
CloseSession(n) ==
    /\ conns[n].state = "drain" /\ conns[n].worker = "idle"
    /\ conns' = [conns EXCEPT ![n].state = "closed"]
    /\ subs' = subs \ {n}
    /\ UNCHANGED <<sessions, up, upMu, relay>>

Serve(n) == Take(n) \/ Register(n) \/ WorkerSync(n) \/ ReaderEnds(n) \/ ReaderSync(n) \/ CloseSession(n)

SubsNext ==
    \/ \E c \in Clients : Client(c)
    \/ \E n \in Conns : Serve(n)
    \/ PrevReturned \/ Returned \/ GaveUp \/ LateError \/ Resync
    \/ Restore \/ ResubscribeUpstream \/ RelayDies \/ OnDead \/ HubReads

SubsSpec == SubsInit /\ [][SubsNext]_uvars

(***************************************************************************)
(* A session whose caller wants events and whose connection is installed   *)
(* is registered with the daemon, or its subscribe is on its way: one that *)
(* meets a reconnect is never lost in between.                             *)
(***************************************************************************)
NeverLost ==
    \A c \in Clients :
        LET s == sessions[c]
        IN s.subscribed /\ s.op = "none" /\ s.cur # 0 /\ s.cur = s.conn =>
              s.cur \in subs \/ conns[s.cur].worker = "sub" \/ conns[s.cur].line = "sub"

(***************************************************************************)
(* What the daemon believes of the hub is so: while upOn stands unmarked,  *)
(* with no call under way, the hub has the relay subscribed.  An           *)
(* acknowledged subscriber hears every later event, and an unsubscribe     *)
(* that comes late never undoes a later subscribe.                         *)
(***************************************************************************)
Quiet == upMu.by = Nobody /\ ~up.fresh /\ up.tr = relay.live /\ up.tr # 0 /\ relay.lines = <<>>

BelievedIsSo == Quiet /\ up.on /\ ~up.dirty => relay.subscribed

(***************************************************************************)
(* So whoever wants the hub's events hears them, or knows that it does not.*)
(***************************************************************************)
EventsReach == NeverLost /\ BelievedIsSo

(***************************************************************************)
(* daemon_session.go: "the last subscriber leaving unsubscribes upstream". *)
(***************************************************************************)
LastLeaves ==
    Quiet /\ ~up.dirty /\ subs = {} /\ (\A n \in Conns : conns[n].state \in {"unused", "open", "closed"}
                                          /\ conns[n].worker = "idle") =>
        ~relay.subscribed
==============================================================================
