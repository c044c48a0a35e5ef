-------------------------- MODULE DaemonLifecycle --------------------------
(***************************************************************************)
(* The life of a machine's daemon processes and of the files they meet at: *)
(* the startup lock (an inode under a path), the control socket, the ssh   *)
(* ControlPath.  RunDaemon's startup and shutdown, signals and SIGKILL,    *)
(* and the commands that spawn, stop, cycle, reap and delete a daemon.     *)
(*                                                                         *)
(* One action is one system call, or one run of ssh, that another process  *)
(* can come before or after; a check of the ControlPath and the unlink     *)
(* that follows it are one.  The socket, the master and the agent exec a   *)
(* process makes carry its id: the id is used again only when nothing of   *)
(* it is left.                                                             *)
(***************************************************************************)
EXTENDS Naturals, FiniteSets

CONSTANTS
  Procs,    \* daemon processes
  Clients,  \* commands running at once
  Inodes,   \* inodes the lock path may come to name
  Verbs,    \* what the commands do: a subset of AllVerbs
  Kinds,    \* machines: "smol", an agent exec per process; "ssh", a master on the ControlPath
  Ends,     \* whether a daemon may idle out or be signalled
  Kills,    \* whether a daemon may be SIGKILLed
  Wedges,   \* whether a killed daemon's master may ignore `-O exit`
  None

AllVerbs == {"dial", "stop", "cycle", "reap", "delete"}

ASSUME LifecycleAssumption ==
  /\ Verbs \subseteq AllVerbs /\ Kinds \subseteq {"smol", "ssh"}
  /\ Ends \in BOOLEAN /\ Kills \in BOOLEAN /\ Wedges \in BOOLEAN
  /\ None \notin Procs \union Clients \union Inodes
  /\ Procs \intersect Clients = {}

VARIABLES
  kind,     \* the machine's kind
  known,    \* it resolves
  pc,       \* where each process is
  sig,      \* processes with a signal pending
  stop,     \* processes whose d.stop is closed
  lockAt,   \* the inode NAME.lock names
  ino,      \* the inode a process has open
  holder,   \* who has an inode flocked
  sock,     \* the process whose socket NAME.sock names
  live,     \* agent execs, or ssh masters, by the process that started them
  killed,   \* those of them whose process was SIGKILLed
  wedged,   \* masters among these that answer but never exit
  cpath,    \* the process whose master the ControlPath names
  cl, seen  \* where each command is, and the daemon it stopped

machineVars == <<kind, known>>
filesVars == <<lockAt, ino, holder>>
hostVars  == <<live, killed, wedged, cpath>>
cmdVars   == <<cl, seen>>
vars == <<machineVars, pc, sig, stop, filesVars, sock, hostVars, cmdVars>>

Running(p) == pc[p] # "none"
Ending == {"closing", "lstat", "dialOwn", "remove"}
Listening == {p \in Procs : pc[p] = "serving"}

\* A dial of NAME.sock, or a ping: its creator still listens.
Answers == sock \in Listening
\* `ssh -O check`.
MasterAnswers == cpath \in live

-----------------------------------------------------------------------------
(* Startup: __daemon, RunDaemon. *)

Unlocked(x) == [i \in Inodes |-> IF holder[i] = x THEN None ELSE holder[i]]

\* The process ends: its descriptors close.
Gone(p) ==
  /\ pc' = [pc EXCEPT ![p] = "none"]
  /\ sig' = sig \ {p} /\ stop' = stop \ {p}
  /\ ino' = [ino EXCEPT ![p] = None]
  /\ holder' = Unlocked(p)

Goto(p, at) == pc' = [pc EXCEPT ![p] = at]

\* resolveForwards, before anything else.
Resolve(p) ==
  /\ pc[p] = "spawned"
  /\ IF known THEN Goto(p, "open") /\ UNCHANGED <<sig, stop, ino, holder>> ELSE Gone(p)
  /\ UNCHANGED <<machineVars, lockAt, sock, hostVars, cmdVars>>

\* Inodes nothing names or holds open.
FreeInodes == Inodes \ ({lockAt} \union {ino[p] : p \in Procs} \union {i \in Inodes : holder[i] # None})

\* acquireLock: O_CREATE, then a blocking flock.
OpenLock(p) ==
  /\ pc[p] = "open"
  /\ IF lockAt # None THEN lockAt' = lockAt ELSE lockAt' \in FreeInodes
  /\ ino' = [ino EXCEPT ![p] = lockAt']
  /\ Goto(p, "lock")
  /\ UNCHANGED <<machineVars, sig, stop, holder, sock, hostVars, cmdVars>>

TakeLock(p) ==
  /\ pc[p] = "lock" /\ holder[ino[p]] = None
  /\ holder' = [holder EXCEPT ![ino[p]] = p]
  /\ Goto(p, "probe")
  /\ UNCHANGED <<machineVars, sig, stop, lockAt, ino, sock, hostVars, cmdVars>>

\* Mutant: the start does not look for a daemon that serves.
ProbeNothing(p) ==
  /\ pc[p] = "probe"
  /\ Goto(p, "clear")
  /\ UNCHANGED <<machineVars, sig, stop, filesVars, sock, hostVars, cmdVars>>

\* Another daemon answers: defer to it.
Probe(p) ==
  /\ pc[p] = "probe"
  /\ IF Answers THEN Gone(p) ELSE Goto(p, "clear") /\ UNCHANGED <<sig, stop, ino, holder>>
  /\ UNCHANGED <<machineVars, lockAt, sock, hostVars, cmdVars>>

ClearStale(p) ==
  /\ pc[p] = "clear"
  /\ sock' = None
  /\ Goto(p, "begin")
  /\ UNCHANGED <<machineVars, sig, stop, filesVars, hostVars, cmdVars>>

\* A signal taken while waiting ends it before the dial.
Begin(p) ==
  /\ pc[p] = "begin"
  /\ IF p \in sig THEN Gone(p) ELSE Goto(p, "dial") /\ UNCHANGED <<sig, stop, ino, holder>>
  /\ UNCHANGED <<machineVars, lockAt, sock, hostVars, cmdVars>>

-----------------------------------------------------------------------------
(* The first dial: an agent exec, or startMaster. *)

DialFails(p) ==
  /\ pc[p] \in {"dial", "master"}
  /\ Gone(p)
  /\ UNCHANGED <<machineVars, lockAt, sock, hostVars, cmdVars>>

DialSmol(p) ==
  /\ kind = "smol" /\ pc[p] = "dial"
  /\ live' = live \union {p}
  /\ Goto(p, "dialed")
  /\ UNCHANGED <<machineVars, sig, stop, filesVars, sock, killed, wedged, cpath, cmdVars>>

\* Mutant: a master that answers is left in place.
FindNoMaster(p) ==
  /\ kind = "ssh" /\ pc[p] = "dial"
  /\ Goto(p, "unlink")
  /\ UNCHANGED <<machineVars, sig, stop, filesVars, sock, hostVars, cmdVars>>

\* startMaster looks at the ControlPath.
FindMaster(p) ==
  /\ kind = "ssh" /\ pc[p] = "dial"
  /\ Goto(p, IF MasterAnswers THEN "evict" ELSE "unlink")
  /\ UNCHANGED <<machineVars, sig, stop, filesVars, sock, hostVars, cmdVars>>

\* `ssh -O exit`: whatever master answers there exits and unlinks its socket.
ExitMaster ==
  IF MasterAnswers /\ cpath \notin wedged
    THEN live' = live \ {cpath} /\ killed' = killed \ {cpath} /\ cpath' = None /\ UNCHANGED wedged
    ELSE UNCHANGED hostVars

\* ... and waitMasterGone.
Evict(p) ==
  /\ pc[p] = "evict"
  /\ ExitMaster
  /\ Goto(p, "unlink")
  /\ UNCHANGED <<machineVars, sig, stop, filesVars, sock, cmdVars>>

\* A master's socket nobody answers is removed.
UnlinkMaster(p) ==
  /\ pc[p] = "unlink"
  /\ cpath' = IF MasterAnswers THEN cpath ELSE None
  /\ Goto(p, "master")
  /\ UNCHANGED <<machineVars, sig, stop, filesVars, sock, live, killed, wedged, cmdVars>>

\* `ssh -M`: a socket in its place degrades it to a plain connection.
StartMaster(p) ==
  /\ pc[p] = "master"
  /\ IF cpath = None THEN cpath' = p /\ live' = live \union {p}
                     ELSE UNCHANGED <<cpath, live>>
  /\ Goto(p, "verify")
  /\ UNCHANGED <<machineVars, sig, stop, filesVars, sock, killed, wedged, cmdVars>>
VerifyMaster(p) ==
  /\ pc[p] = "verify"
  /\ IF MasterAnswers THEN Goto(p, "dialed") /\ UNCHANGED <<sig, stop, ino, holder>> ELSE Gone(p)
  /\ UNCHANGED <<machineVars, lockAt, sock, hostVars, cmdVars>>

\* transport.Close: the exec is ended; on ssh, `-O exit` on the ControlPath.
CloseTransport(p) ==
  IF kind = "smol" THEN live' = live \ {p} /\ UNCHANGED <<killed, wedged, cpath>> ELSE ExitMaster

\* Mutant: a signal during the first dial drops what it made.
ForgetDialed(p) ==
  /\ pc[p] = "dialed"
  /\ IF p \in sig THEN Gone(p) ELSE Goto(p, "listen") /\ UNCHANGED <<sig, stop, ino, holder>>
  /\ UNCHANGED <<machineVars, lockAt, sock, hostVars, cmdVars>>

\* A signal during the first dial: release what it made and go.
Dialed(p) ==
  /\ pc[p] = "dialed"
  /\ IF p \in sig THEN CloseTransport(p) /\ Gone(p)
     ELSE Goto(p, "listen") /\ UNCHANGED <<sig, stop, ino, holder, hostVars>>
  /\ UNCHANGED <<machineVars, lockAt, sock, cmdVars>>

\* Mutant: the lock is kept while serving.
ListenLocked(p) ==
  /\ pc[p] = "listen"
  /\ sock' = p
  /\ Goto(p, "serving")
  /\ UNCHANGED <<machineVars, sig, stop, filesVars, hostVars, cmdVars>>

\* listenControl fails on a path that exists; once it listens the lock goes.
Listen(p) ==
  /\ pc[p] = "listen"
  /\ IF sock = None
       THEN /\ sock' = p
            /\ holder' = Unlocked(p) /\ ino' = [ino EXCEPT ![p] = None]
            /\ Goto(p, "serving")
            /\ UNCHANGED <<sig, stop, hostVars>>
       ELSE CloseTransport(p) /\ Gone(p) /\ UNCHANGED sock
  /\ UNCHANGED <<machineVars, lockAt, cmdVars>>

-----------------------------------------------------------------------------
(* Serving and shutdown. *)

\* SIGTERM, SIGINT, SIGHUP: fatal until RunDaemon registers them, then held for
\* the next check; shutdown absorbs them.
Signal(p) ==
  /\ Ends /\ Running(p) /\ pc[p] \notin Ending /\ p \notin sig
  /\ IF pc[p] = "spawned" THEN Gone(p)
     ELSE sig' = sig \union {p} /\ UNCHANGED <<pc, stop, ino, holder>>
  /\ UNCHANGED <<machineVars, lockAt, sock, hostVars, cmdVars>>

\* run's signal goroutine: a stop like any client's.
SignalTaken(p) ==
  /\ pc[p] = "serving" /\ p \in sig /\ p \notin stop
  /\ stop' = stop \union {p}
  /\ UNCHANGED <<machineVars, pc, sig, filesVars, sock, hostVars, cmdVars>>

\* loop ends on a stop, or idle; shutdown closes the listener first.
Shutdown(p, idle) ==
  /\ pc[p] = "serving"
  /\ (idle /\ Ends) \/ p \in stop
  /\ Goto(p, "closing")
  /\ UNCHANGED <<machineVars, sig, stop, filesVars, sock, hostVars, cmdVars>>

Teardown(p) ==
  /\ pc[p] = "closing"
  /\ CloseTransport(p)
  /\ Goto(p, "lstat")
  /\ UNCHANGED <<machineVars, sig, stop, filesVars, sock, cmdVars>>

\* ownsSocket: the inode is the one it made (a successor's may have the same
\* number) and nobody answers it.
Lstat(p, recycled) ==
  /\ pc[p] = "lstat"
  /\ IF sock = p \/ (sock # None /\ recycled)
       THEN Goto(p, "dialOwn") /\ UNCHANGED <<sig, stop, ino, holder>>
       ELSE Gone(p)
  /\ UNCHANGED <<machineVars, lockAt, sock, hostVars, cmdVars>>
DialOwn(p) ==
  /\ pc[p] = "dialOwn"
  /\ IF Answers THEN Gone(p) ELSE Goto(p, "remove") /\ UNCHANGED <<sig, stop, ino, holder>>
  /\ UNCHANGED <<machineVars, lockAt, sock, hostVars, cmdVars>>
RemoveSocket(p) ==
  /\ pc[p] = "remove"
  /\ sock' = None
  /\ Gone(p)
  /\ UNCHANGED <<machineVars, lockAt, hostVars, cmdVars>>

\* SIGKILL: the socket, and the exec or master, stay.
Kill(p, wedge) ==
  /\ Kills /\ Running(p)
  /\ Gone(p)
  /\ killed' = killed \union ({p} \intersect live)
  /\ wedged' = IF wedge /\ Wedges THEN wedged \union ({p} \intersect live) ELSE wedged
  /\ UNCHANGED <<machineVars, lockAt, sock, live, cpath, cmdVars>>

\* An orphan ends by itself; a master may leave its socket behind.
OrphanEnds(p, unlinks) ==
  /\ ~Running(p) /\ p \in live
  /\ live' = live \ {p} /\ killed' = killed \ {p} /\ wedged' = wedged \ {p}
  /\ cpath' = IF cpath = p /\ unlinks THEN None ELSE cpath
  /\ UNCHANGED <<machineVars, pc, sig, stop, filesVars, sock, cmdVars>>

-----------------------------------------------------------------------------
(* Commands: Dial, Stop, update's cycle, Reap, delete. *)

CmdGoto(c, at) == cl' = [cl EXCEPT ![c] = at]

\* Dial: a ping, then a spawn.
DialCmd(c) ==
  /\ \/ cl[c] = "idle" /\ "dial" \in Verbs
     \/ cl[c] = "gone"
  /\ CmdGoto(c, IF Answers THEN "idle" ELSE "spawn")
  /\ seen' = [seen EXCEPT ![c] = None]
  /\ UNCHANGED <<machineVars, pc, sig, stop, filesVars, sock, hostVars>>

\* An id nothing of is left.
Fresh(p) == ~Running(p) /\ p \notin live /\ sock # p /\ cpath # p /\ \A c \in Clients : seen[c] # p
Spawn(c, p) ==
  /\ cl[c] = "spawn" /\ Fresh(p)
  /\ Goto(p, "spawned")
  /\ CmdGoto(c, "idle")
  /\ UNCHANGED <<machineVars, sig, stop, filesVars, sock, hostVars, seen>>

\* Stop: `devvm stop` goes on at once, update and Reap wait; Reap stops a second
\* daemon too, if one answers by then.
StopCmd(c, from, then) ==
  /\ cl[c] = from /\ Answers
  /\ stop' = stop \union {sock}
  /\ CmdGoto(c, then)
  /\ seen' = [seen EXCEPT ![c] = sock]
  /\ UNCHANGED <<machineVars, pc, sig, filesVars, sock, hostVars>>

\* Commands inside WaitGone, the ping of each, and what follows it.
Waiting == {"wait", "reapWait", "againWait"}
Pinging == [wait |-> "waitPing", reapWait |-> "reapPing", againWait |-> "againPing"]
After == [wait |-> "gone", reapWait |-> "reapAgain", againWait |-> "reap"]

\* WaitGone: the socket is not there ...
WaitStat(c) ==
  /\ cl[c] \in Waiting /\ sock = None
  /\ CmdGoto(c, Pinging[cl[c]])
  /\ UNCHANGED <<machineVars, pc, sig, stop, filesVars, sock, hostVars, seen>>
\* ... and nobody answers.
WaitPing(c) ==
  /\ \E w \in Waiting : cl[c] = Pinging[w] /\ CmdGoto(c, IF Answers THEN w ELSE After[w])
  /\ UNCHANGED <<machineVars, pc, sig, stop, filesVars, sock, hostVars, seen>>
\* Its timeout: the command goes on without (Reap's caller) or fails (update).
WaitTimesOut(c) ==
  /\ cl[c] \in Waiting
  /\ CmdGoto(c, IF cl[c] = "wait" THEN "idle" ELSE "reaped")
  /\ seen' = [seen EXCEPT ![c] = None]
  /\ UNCHANGED <<machineVars, pc, sig, stop, filesVars, sock, hostVars>>

\* update, when no configured forward was up: no new daemon.
CycleDone(c) ==
  /\ cl[c] = "gone"
  /\ CmdGoto(c, "idle")
  /\ seen' = [seen EXCEPT ![c] = None]
  /\ UNCHANGED <<machineVars, pc, sig, stop, filesVars, sock, hostVars>>

\* Reap with no daemon to stop.
ReapCmd(c) ==
  /\ cl[c] = "reapAgain" \/ (cl[c] = "idle" /\ "reap" \in Verbs)
  /\ ~Answers
  /\ CmdGoto(c, "reap")
  /\ UNCHANGED <<machineVars, pc, sig, stop, filesVars, sock, hostVars, seen>>

\* reapFiles: the lock without waiting, or none if the file is not there.
ReapLock(c) ==
  /\ cl[c] = "reap"
  /\ seen' = [seen EXCEPT ![c] = None]
  /\ IF lockAt = None THEN CmdGoto(c, "reapProbe") /\ UNCHANGED holder
     ELSE IF holder[lockAt] = None
       THEN CmdGoto(c, "reapProbe") /\ holder' = [holder EXCEPT ![lockAt] = c]
       ELSE CmdGoto(c, "reaped") /\ UNCHANGED holder
  /\ UNCHANGED <<machineVars, pc, sig, stop, lockAt, ino, sock, hostVars>>

ReapProbe(c) ==
  /\ cl[c] = "reapProbe"
  /\ CmdGoto(c, IF Answers THEN "reaped" ELSE "reapSock")
  /\ holder' = IF Answers THEN Unlocked(c) ELSE holder
  /\ UNCHANGED <<machineVars, pc, sig, stop, lockAt, ino, sock, hostVars, seen>>
ReapSock(c) ==
  /\ cl[c] = "reapSock"
  /\ sock' = None
  /\ CmdGoto(c, "reapMaster")
  /\ UNCHANGED <<machineVars, pc, sig, stop, filesVars, hostVars, seen>>
ReapMaster(c) ==
  /\ cl[c] = "reapMaster"
  /\ cpath' = IF MasterAnswers THEN cpath ELSE None
  /\ holder' = Unlocked(c)
  /\ CmdGoto(c, "reaped")
  /\ UNCHANGED <<machineVars, pc, sig, stop, lockAt, ino, sock, live, killed, wedged, seen>>

\* delete, config rm: the machine goes, whatever Reap said, then its lock file;
\* it stays when that fails.
Unregister(c) ==
  /\ cl[c] = "reaped"
  /\ \/ "delete" \in Verbs /\ known' = FALSE /\ CmdGoto(c, "removeLock")
     \/ UNCHANGED known /\ CmdGoto(c, "idle")
  /\ UNCHANGED <<kind, pc, sig, stop, filesVars, sock, hostVars, seen>>
RemoveLock(c) ==
  /\ cl[c] = "removeLock"
  /\ lockAt' = None
  /\ CmdGoto(c, "idle")
  /\ UNCHANGED <<machineVars, pc, sig, stop, ino, holder, sock, hostVars, seen>>

-----------------------------------------------------------------------------
\* Nothing runs, or one daemon serves.
Init ==
  /\ known = TRUE /\ kind \in Kinds
  /\ \E p \in Procs \union {None} :
       /\ pc = [x \in Procs |-> IF x = p THEN "serving" ELSE "none"]
       /\ sock = p
       /\ live = {p} \ {None}
       /\ cpath = IF kind = "ssh" THEN p ELSE None
       /\ \E i \in Inodes : lockAt = IF p = None THEN None ELSE i
  /\ sig = {} /\ stop = {} /\ killed = {} /\ wedged = {}
  /\ ino = [p \in Procs |-> None]
  /\ holder = [i \in Inodes |-> None]
  /\ cl = [c \in Clients |-> "idle"]
  /\ seen = [c \in Clients |-> None]

Start(p) ==
  \/ Resolve(p) \/ OpenLock(p) \/ TakeLock(p) \/ Probe(p) \/ ClearStale(p) \/ Begin(p)
  \/ DialSmol(p) \/ FindMaster(p) \/ Evict(p) \/ UnlinkMaster(p) \/ StartMaster(p) \/ VerifyMaster(p)
  \/ DialFails(p) \/ Dialed(p) \/ Listen(p)
End(p) ==
  \/ SignalTaken(p) \/ Shutdown(p, FALSE) \/ Teardown(p)
  \/ (\E r \in BOOLEAN : Lstat(p, r)) \/ DialOwn(p) \/ RemoveSocket(p)
World(p) == Signal(p) \/ Shutdown(p, TRUE) \/ \E b \in BOOLEAN : Kill(p, b) \/ OrphanEnds(p, b)
Command(c) ==
  \/ DialCmd(c) \/ \E p \in Procs : Spawn(c, p)
  \/ "stop" \in Verbs /\ StopCmd(c, "idle", "idle")
  \/ "cycle" \in Verbs /\ StopCmd(c, "idle", "wait")
  \/ "reap" \in Verbs /\ StopCmd(c, "idle", "reapWait")
  \/ StopCmd(c, "reapAgain", "againWait")
  \/ WaitStat(c) \/ WaitPing(c) \/ WaitTimesOut(c) \/ CycleDone(c)
  \/ ReapCmd(c) \/ ReapLock(c) \/ ReapProbe(c) \/ ReapSock(c) \/ ReapMaster(c)
  \/ Unregister(c) \/ RemoveLock(c)

Next ==
  \/ \E p \in Procs : Start(p) \/ End(p) \/ World(p)
  \/ \E c \in Clients : Command(c)

Spec == Init /\ [][Next]_vars

(* Fairness: a process that can go on does (each ssh run is bounded by
   controlTimeout or ConnectTimeout), a command past its first step too, and
   flock(2) serves a waiter that asks for as long as the lock keeps being
   released.  Commands, signals, kills and idling are never owed.            *)
CommandGoesOn(c) == cl[c] # "idle" /\ Command(c)
FairSpec ==
  /\ Spec
  /\ \A p \in Procs : WF_vars(Start(p)) /\ WF_vars(End(p)) /\ SF_vars(TakeLock(p))
  /\ \A c \in Clients : WF_vars(CommandGoesOn(c))

-----------------------------------------------------------------------------
(* Properties. *)

\* Past the startup lock and not serving yet.
Starting == {"probe", "clear", "begin", "dial", "evict", "unlink", "master", "verify",
             "dialed", "listen"}
CmdStates == {"idle", "spawn", "wait", "waitPing", "gone", "reapWait", "reapPing", "reapAgain",
              "againWait", "againPing", "reap", "reapProbe", "reapSock", "reapMaster",
              "reaped", "removeLock"}

\* Types, and a process has the lock file open exactly from acquireLock to its
\* listener.
TypeOK ==
  /\ known \in BOOLEAN /\ kind \in Kinds
  /\ pc \in [Procs -> {"none", "spawned", "open", "lock", "serving"} \union Starting \union Ending]
  /\ sig \subseteq Procs /\ stop \subseteq Procs
  /\ lockAt \in Inodes \union {None} /\ ino \in [Procs -> Inodes \union {None}]
  /\ holder \in [Inodes -> Procs \union Clients \union {None}]
  /\ sock \in Procs \union {None} /\ cpath \in Procs \union {None}
  /\ live \subseteq Procs /\ killed \subseteq live /\ wedged \subseteq killed
  /\ cl \in [Clients -> CmdStates] /\ seen \in [Clients -> Procs \union {None}]
  /\ \A p \in Procs : ino[p] # None <=> pc[p] \in Starting \union {"lock"}

\* acquireLock: "Serialize startup": until the machine is deleted, one process at
\* a time is between the lock and its listener, whatever is spawned, signalled or
\* killed.
StartersExclusive == known => Cardinality({p \in Procs : pc[p] \in Starting}) <= 1

\* "clear a stale socket (nobody answered it, and we hold the lock)": what a
\* starter unlinks is not answered at that moment either.
StarterClearsStale == [][\A p \in Procs : known /\ ClearStale(p) => ~Answers]_vars

\* Reap: "holding it, no daemon is between its first dial and its listen, so a
\* control socket that does not answer is stale, not about to be served".
ReapClearsStale ==
  [][\A c \in Clients : known /\ ReapSock(c) /\ (\E i \in Inodes : holder[i] = c) => ~Answers]_vars

\* Whoever removes the control socket under the lock removes one nobody serves.
OnlyStaleCleared == StarterClearsStale /\ ReapClearsStale

\* daemonSignals: whatever signal or stop ends a daemon, and whenever it comes,
\* its exec or master does not outlive it; SIGKILL is the one exception.
NoOrphans == \A p \in live \ killed : Running(p)

\* startMaster: the check after `ssh -M` passes on a master of the daemon's own,
\* not on an orphan's answer ("startMaster fails with did not take").
RidesOwnMaster ==
  [][\A p \in Procs : known /\ VerifyMaster(p) /\ pc'[p] = "dialed" => p \in live]_vars

\* A daemon that was spawned serves or gives up: nobody waits for good behind
\* the lock.  A daemon told to stop is gone in the end.
StartsAndStopsEnd ==
  \A p \in Procs : /\ pc[p] = "spawned" ~> pc[p] \in {"serving", "none"}
                   /\ p \in stop ~> pc[p] = "none"

=============================================================================
