----------------------- MODULE DaemonLifecycleProofs -----------------------
(***************************************************************************)
(* Proofs about DaemonLifecycle, for any number of processes, commands and *)
(* inodes: its types; until the machine is deleted, that the startup lock  *)
(* keeps starters apart and that neither a starter nor a reaper that holds *)
(* it unlinks a socket somebody serves; and that only SIGKILL leaves an    *)
(* exec or a master behind.                                                *)
(***************************************************************************)
EXTENDS DaemonLifecycle, FiniteSetTheorems, TLAPS

\* A process that was killed does not run.
KilledGone == \A p \in killed : pc[p] = "none"

TInv == TypeOK /\ KilledGone

USE LifecycleAssumption

\* Where the daemon's files and processes start.
LEMMA InitTypes == Init => TInv
<1> SUFFICES ASSUME Init PROVE TInv
  OBVIOUS
<1> PICK p \in Procs \union {None} :
       /\ pc = [x \in Procs |-> IF x = p THEN "serving" ELSE "none"]
       /\ sock = p
       /\ live = {p} \ {None}
       /\ cpath = IF kind = "ssh" THEN p ELSE None
       /\ \E i \in Inodes : lockAt = IF p = None THEN None ELSE i
  BY DEF Init
<1> QED  BY DEF Init, TInv, TypeOK, KilledGone, Starting, Ending, CmdStates

\* A startup step keeps the types.
LEMMA StartTypes ==
  ASSUME TInv, NEW p \in Procs, Start(p)
  PROVE  TInv'
<1> USE DEF TInv, TypeOK, KilledGone, Goto, Gone, Unlocked, Running, machineVars, filesVars, hostVars, cmdVars,
         Starting, Ending
<1>1. CASE Resolve(p)  BY <1>1 DEF Resolve
<1>2. CASE OpenLock(p)  BY <1>2 DEF OpenLock, FreeInodes
<1>3. CASE TakeLock(p)  BY <1>3 DEF TakeLock
<1>4. CASE Probe(p)  BY <1>4 DEF Probe
<1>5. CASE ClearStale(p)  BY <1>5 DEF ClearStale
<1>6. CASE Begin(p)  BY <1>6 DEF Begin
<1>7. CASE DialSmol(p)  BY <1>7 DEF DialSmol
<1>8. CASE FindMaster(p)  BY <1>8 DEF FindMaster
<1>9. CASE Evict(p)  BY <1>9 DEF Evict, ExitMaster, MasterAnswers
<1>10. CASE UnlinkMaster(p)  BY <1>10 DEF UnlinkMaster
<1>11. CASE StartMaster(p)  BY <1>11 DEF StartMaster
<1>12. CASE VerifyMaster(p)  BY <1>12 DEF VerifyMaster
<1>13. CASE DialFails(p)  BY <1>13 DEF DialFails
<1>14. CASE Dialed(p)  BY <1>14 DEF Dialed, CloseTransport, ExitMaster, MasterAnswers
<1>15. CASE Listen(p)  BY <1>15 DEF Listen, CloseTransport, ExitMaster, MasterAnswers
<1> QED  BY <1>1, <1>2, <1>3, <1>4, <1>5, <1>6, <1>7, <1>8, <1>9, <1>10, <1>11, <1>12, <1>13,
            <1>14, <1>15 DEF Start

\* Serving, ending, and the world outside keep them.
LEMMA EndTypes ==
  ASSUME TInv, NEW p \in Procs, End(p) \/ World(p)
  PROVE  TInv'
<1> USE DEF TInv, TypeOK, KilledGone, Goto, Gone, Unlocked, Running, machineVars, filesVars, hostVars, cmdVars,
         Starting, Ending
<1>1. CASE SignalTaken(p)  BY <1>1 DEF SignalTaken
<1>2. ASSUME NEW idle \in BOOLEAN, Shutdown(p, idle) PROVE TInv'  BY <1>2 DEF Shutdown
<1>3. CASE Teardown(p)  BY <1>3 DEF Teardown, CloseTransport, ExitMaster, MasterAnswers
<1>4. ASSUME NEW r \in BOOLEAN, Lstat(p, r) PROVE TInv'  BY <1>4 DEF Lstat
<1>5. CASE DialOwn(p)  BY <1>5 DEF DialOwn
<1>6. CASE RemoveSocket(p)  BY <1>6 DEF RemoveSocket
<1>7. CASE Signal(p)  BY <1>7 DEF Signal
<1>8. ASSUME NEW b \in BOOLEAN, Kill(p, b) PROVE TInv'  BY <1>8 DEF Kill
<1>9. ASSUME NEW b \in BOOLEAN, OrphanEnds(p, b) PROVE TInv'  BY <1>9 DEF OrphanEnds
<1> QED  BY <1>1, <1>2, <1>3, <1>4, <1>5, <1>6, <1>7, <1>8, <1>9 DEF End, World

\* So do the commands.
LEMMA CommandTypes ==
  ASSUME TInv, NEW c \in Clients, Command(c)
  PROVE  TInv'
<1> USE DEF TInv, TypeOK, KilledGone, Goto, CmdGoto, Unlocked, Running, machineVars, filesVars, hostVars,
         Starting, CmdStates
<1>1. CASE DialCmd(c)  BY <1>1 DEF DialCmd
<1>2. ASSUME NEW p \in Procs, Spawn(c, p) PROVE TInv'  BY <1>2 DEF Spawn, Fresh
<1>3. ASSUME NEW from \in CmdStates, NEW then \in CmdStates, StopCmd(c, from, then) PROVE TInv'
  BY <1>3 DEF StopCmd, Answers, Listening
<1>4. CASE WaitStat(c)  BY <1>4 DEF WaitStat, Waiting, Pinging
<1>5. CASE WaitPing(c)  BY <1>5 DEF WaitPing, Waiting, Pinging, After
<1>6. CASE WaitTimesOut(c)  BY <1>6 DEF WaitTimesOut
<1>7. CASE CycleDone(c)  BY <1>7 DEF CycleDone
<1>8. CASE ReapCmd(c)  BY <1>8 DEF ReapCmd
<1>9. CASE ReapLock(c)  BY <1>9 DEF ReapLock
<1>10. CASE ReapProbe(c)  BY <1>10 DEF ReapProbe
<1>11. CASE ReapSock(c)  BY <1>11 DEF ReapSock
<1>12. CASE ReapMaster(c)  BY <1>12 DEF ReapMaster
<1>13. CASE Unregister(c)  BY <1>13 DEF Unregister
<1>14. CASE RemoveLock(c)  BY <1>14 DEF RemoveLock
<1> QED  BY <1>1, <1>2, <1>3, <1>4, <1>5, <1>6, <1>7, <1>8, <1>9, <1>10, <1>11, <1>12, <1>13,
            <1>14 DEF Command

\* Nothing changes when nothing happens.
LEMMA StutterTypes == TInv /\ UNCHANGED vars => TInv'
BY DEF TInv, TypeOK, KilledGone, vars, machineVars, filesVars, hostVars, cmdVars

\* The types, and: a process has the lock file open from acquireLock until it
\* listens or ends.
THEOREM LifecycleTypes == Spec => []TypeOK
<1>1. TInv /\ [Next]_vars => TInv'
  BY StartTypes, EndTypes, CommandTypes, StutterTypes DEF Next
<1>2. TInv => TypeOK
  BY DEF TInv
<1> QED  BY InitTypes, <1>1, <1>2, PTL DEF Spec

-----------------------------------------------------------------------------
(* The startup lock, until the machine is deleted. *)

\* Only a delete unlinks the lock file.
Deleting == \A c \in Clients : cl[c] = "removeLock" => ~known

\* There is one lock file: what a process has open, and what anyone has locked,
\* is the inode the path names; a starter has it locked.
LockInv ==
  /\ \A p \in Procs : ino[p] \in {None, lockAt}
  /\ \A i \in Inodes : holder[i] # None => i = lockAt
  /\ \A p \in Procs : pc[p] \in Starting => holder[ino[p]] = p

\* What the lock's holder saw when it probed the socket still holds.
StaleInv ==
  /\ \A p \in Procs : pc[p] = "clear" => ~Answers
  /\ \A c \in Clients : cl[c] = "reapSock" /\ (\E i \in Inodes : holder[i] = c) => ~Answers

LInv == TInv /\ Deleting /\ (known => LockInv /\ StaleInv)

\* Two starters hold the same lock.
LEMMA OneStarter ==
  ASSUME TypeOK, LockInv, NEW p \in Procs, NEW q \in Procs, pc[p] \in Starting, pc[q] \in Starting
  PROVE  p = q
BY DEF TypeOK, LockInv

\* Nor is anybody a starter while a command holds it.
LEMMA NoStarterBesideReap ==
  ASSUME TypeOK, LockInv, NEW p \in Procs, pc[p] \in Starting,
         NEW c \in Clients, NEW i \in Inodes, holder[i] = c
  PROVE  FALSE
BY DEF TypeOK, LockInv

\* Nothing is locked at first.
LEMMA InitLock == Init => LInv
<1> SUFFICES ASSUME Init PROVE LInv
  OBVIOUS
<1>1. Deleting /\ LockInv
  BY DEF Init, Deleting, LockInv, Starting
<1>2. StaleInv
  BY DEF Init, StaleInv
<1> QED  BY <1>1, <1>2, InitTypes DEF LInv

\* A startup step of p: it locks the lock it has open and lets go of its own.
LEMMA StartLock ==
  ASSUME LInv, NEW p \in Procs, Start(p)
  PROVE  Deleting' /\ (known' => LockInv')
<1> USE DEF LInv, TInv, TypeOK, Deleting, LockInv, Goto, Gone, Unlocked, machineVars, filesVars, hostVars,
         cmdVars, Starting
<1>1. CASE Resolve(p)  BY <1>1 DEF Resolve
<1>2. CASE OpenLock(p)  BY <1>2 DEF OpenLock, FreeInodes
<1>3. CASE TakeLock(p)  BY <1>3 DEF TakeLock
<1>4. CASE Probe(p)  BY <1>4 DEF Probe
<1>5. CASE ClearStale(p)  BY <1>5 DEF ClearStale
<1>6. CASE Begin(p)  BY <1>6 DEF Begin
<1>7. CASE DialSmol(p)  BY <1>7 DEF DialSmol
<1>8. CASE FindMaster(p)  BY <1>8 DEF FindMaster
<1>9. CASE Evict(p)  BY <1>9 DEF Evict
<1>10. CASE UnlinkMaster(p)  BY <1>10 DEF UnlinkMaster
<1>11. CASE StartMaster(p)  BY <1>11 DEF StartMaster
<1>12. CASE VerifyMaster(p)  BY <1>12 DEF VerifyMaster
<1>13. CASE DialFails(p)  BY <1>13 DEF DialFails
<1>14. CASE Dialed(p)  BY <1>14 DEF Dialed
<1>15. CASE Listen(p)  BY <1>15 DEF Listen
<1> QED  BY <1>1, <1>2, <1>3, <1>4, <1>5, <1>6, <1>7, <1>8, <1>9, <1>10, <1>11, <1>12, <1>13,
            <1>14, <1>15 DEF Start

\* Serving and ending lets go of what the process holds.
LEMMA EndLock ==
  ASSUME LInv, NEW p \in Procs, End(p) \/ World(p)
  PROVE  Deleting' /\ (known' => LockInv')
<1> USE DEF LInv, TInv, TypeOK, Deleting, LockInv, Goto, Gone, Unlocked, machineVars, filesVars, hostVars,
         cmdVars, Starting
<1>1. CASE SignalTaken(p)  BY <1>1 DEF SignalTaken
<1>2. ASSUME NEW idle \in BOOLEAN, Shutdown(p, idle) PROVE Deleting' /\ (known' => LockInv')
  BY <1>2 DEF Shutdown
<1>3. CASE Teardown(p)  BY <1>3 DEF Teardown
<1>4. ASSUME NEW r \in BOOLEAN, Lstat(p, r) PROVE Deleting' /\ (known' => LockInv')  BY <1>4 DEF Lstat
<1>5. CASE DialOwn(p)  BY <1>5 DEF DialOwn
<1>6. CASE RemoveSocket(p)  BY <1>6 DEF RemoveSocket
<1>7. CASE Signal(p)  BY <1>7 DEF Signal
<1>8. ASSUME NEW b \in BOOLEAN, Kill(p, b) PROVE Deleting' /\ (known' => LockInv')  BY <1>8 DEF Kill
<1>9. ASSUME NEW b \in BOOLEAN, OrphanEnds(p, b) PROVE Deleting' /\ (known' => LockInv')
  BY <1>9 DEF OrphanEnds
<1> QED  BY <1>1, <1>2, <1>3, <1>4, <1>5, <1>6, <1>7, <1>8, <1>9 DEF End, World

\* A command locks what the path names and lets go of its own.
LEMMA CommandLock ==
  ASSUME LInv, NEW c \in Clients, Command(c)
  PROVE  Deleting' /\ (known' => LockInv')
<1> USE DEF LInv, TInv, TypeOK, Deleting, LockInv, Goto, CmdGoto, Unlocked, machineVars, filesVars, hostVars,
         Starting
<1>1. CASE DialCmd(c)  BY <1>1 DEF DialCmd
<1>2. ASSUME NEW p \in Procs, Spawn(c, p) PROVE Deleting' /\ (known' => LockInv')  BY <1>2 DEF Spawn
<1>3. ASSUME NEW from, NEW then \in {"idle", "wait", "reapWait", "againWait"}, StopCmd(c, from, then)
      PROVE  Deleting' /\ (known' => LockInv')
  BY <1>3 DEF StopCmd
<1>4. CASE WaitStat(c)  BY <1>4 DEF WaitStat, Waiting, Pinging
<1>5. CASE WaitPing(c)  BY <1>5 DEF WaitPing, Waiting, After
<1>6. CASE WaitTimesOut(c)  BY <1>6 DEF WaitTimesOut
<1>7. CASE CycleDone(c)  BY <1>7 DEF CycleDone
<1>8. CASE ReapCmd(c)  BY <1>8 DEF ReapCmd
<1>9. CASE ReapLock(c)  BY <1>9 DEF ReapLock
<1>10. CASE ReapProbe(c)  BY <1>10 DEF ReapProbe
<1>11. CASE ReapSock(c)  BY <1>11 DEF ReapSock
<1>12. CASE ReapMaster(c)  BY <1>12 DEF ReapMaster
<1>13. CASE Unregister(c)  BY <1>13 DEF Unregister
<1>14. CASE RemoveLock(c)  BY <1>14 DEF RemoveLock
<1> QED  BY <1>1, <1>2, <1>3, <1>4, <1>5, <1>6, <1>7, <1>8, <1>9, <1>10, <1>11, <1>12, <1>13,
            <1>14 DEF Command

\* The socket comes to answer only by a starter's Listen, which neither another
\* starter nor a command with the lock lives to see.
LEMMA StartStale ==
  ASSUME LInv, NEW p \in Procs, Start(p)
  PROVE  known' => StaleInv'
<1> USE DEF LInv, TInv, TypeOK, StaleInv, Answers, Listening, Goto, Gone, Unlocked, machineVars,
         filesVars, hostVars, cmdVars
<1>1. CASE Resolve(p)  BY <1>1 DEF Resolve
<1>2. CASE OpenLock(p)  BY <1>2 DEF OpenLock
<1>3. CASE TakeLock(p)  BY <1>3 DEF TakeLock
<1>4. CASE Probe(p)  BY <1>4 DEF Probe
<1>5. CASE ClearStale(p)  BY <1>5 DEF ClearStale
<1>6. CASE Begin(p)  BY <1>6 DEF Begin
<1>7. CASE DialSmol(p)  BY <1>7 DEF DialSmol
<1>8. CASE FindMaster(p)  BY <1>8 DEF FindMaster
<1>9. CASE Evict(p)  BY <1>9 DEF Evict
<1>10. CASE UnlinkMaster(p)  BY <1>10 DEF UnlinkMaster
<1>11. CASE StartMaster(p)  BY <1>11 DEF StartMaster
<1>12. CASE VerifyMaster(p)  BY <1>12 DEF VerifyMaster
<1>13. CASE DialFails(p)  BY <1>13 DEF DialFails
<1>14. CASE Dialed(p)  BY <1>14 DEF Dialed
<1>15. CASE Listen(p)
  <2>1. known => \A q \in Procs : pc[q] = "clear" => q = p
    BY <1>15, OneStarter DEF Listen, Starting
  <2>2. known => \A c \in Clients : ~\E i \in Inodes : holder[i] = c
    BY <1>15, NoStarterBesideReap DEF Listen, Starting
  <2>3. known' = known
    BY <1>15 DEF Listen
  <2> QED  BY <1>15, <2>1, <2>2, <2>3 DEF Listen
<1> QED  BY <1>1, <1>2, <1>3, <1>4, <1>5, <1>6, <1>7, <1>8, <1>9, <1>10, <1>11, <1>12, <1>13,
            <1>14, <1>15 DEF Start

\* Ending stops answers, and starts none.
LEMMA EndStale ==
  ASSUME LInv, NEW p \in Procs, End(p) \/ World(p)
  PROVE  known' => StaleInv'
<1> USE DEF LInv, TInv, TypeOK, StaleInv, Answers, Listening, Goto, Gone, Unlocked, machineVars,
         filesVars, hostVars, cmdVars
<1>1. CASE SignalTaken(p)  BY <1>1 DEF SignalTaken
<1>2. ASSUME NEW idle \in BOOLEAN, Shutdown(p, idle) PROVE known' => StaleInv'  BY <1>2 DEF Shutdown
<1>3. CASE Teardown(p)  BY <1>3 DEF Teardown
<1>4. ASSUME NEW r \in BOOLEAN, Lstat(p, r) PROVE known' => StaleInv'  BY <1>4 DEF Lstat
<1>5. CASE DialOwn(p)  BY <1>5 DEF DialOwn
<1>6. CASE RemoveSocket(p)  BY <1>6 DEF RemoveSocket
<1>7. CASE Signal(p)  BY <1>7 DEF Signal
<1>8. ASSUME NEW b \in BOOLEAN, Kill(p, b) PROVE known' => StaleInv'  BY <1>8 DEF Kill
<1>9. ASSUME NEW b \in BOOLEAN, OrphanEnds(p, b) PROVE known' => StaleInv'  BY <1>9 DEF OrphanEnds
<1> QED  BY <1>1, <1>2, <1>3, <1>4, <1>5, <1>6, <1>7, <1>8, <1>9 DEF End, World

\* A command that goes on to unlink has seen the socket unanswered.
LEMMA CommandStale ==
  ASSUME LInv, NEW c \in Clients, Command(c)
  PROVE  known' => StaleInv'
<1> USE DEF LInv, TInv, TypeOK, StaleInv, Answers, Listening, Goto, CmdGoto, Unlocked, machineVars,
         filesVars, hostVars
<1>1. CASE DialCmd(c)  BY <1>1 DEF DialCmd
<1>2. ASSUME NEW p \in Procs, Spawn(c, p) PROVE known' => StaleInv'  BY <1>2 DEF Spawn
<1>3. ASSUME NEW from, NEW then \in {"idle", "wait", "reapWait", "againWait"}, StopCmd(c, from, then)
      PROVE  known' => StaleInv'
  BY <1>3 DEF StopCmd
<1>4. CASE WaitStat(c)  BY <1>4 DEF WaitStat, Waiting, Pinging
<1>5. CASE WaitPing(c)  BY <1>5 DEF WaitPing, Waiting, After
<1>6. CASE WaitTimesOut(c)  BY <1>6 DEF WaitTimesOut
<1>7. CASE CycleDone(c)  BY <1>7 DEF CycleDone
<1>8. CASE ReapCmd(c)  BY <1>8 DEF ReapCmd
<1>9. CASE ReapLock(c)  BY <1>9 DEF ReapLock
<1>10. CASE ReapProbe(c)  BY <1>10 DEF ReapProbe
<1>11. CASE ReapSock(c)  BY <1>11 DEF ReapSock
<1>12. CASE ReapMaster(c)  BY <1>12 DEF ReapMaster
<1>13. CASE Unregister(c)  BY <1>13 DEF Unregister
<1>14. CASE RemoveLock(c)  BY <1>14 DEF RemoveLock
<1> QED  BY <1>1, <1>2, <1>3, <1>4, <1>5, <1>6, <1>7, <1>8, <1>9, <1>10, <1>11, <1>12, <1>13,
            <1>14 DEF Command

\* The three parts together.
LEMMA LockStep == LInv /\ [Next]_vars => LInv'
<1> SUFFICES ASSUME LInv, [Next]_vars PROVE LInv'
  OBVIOUS
<1>1. CASE UNCHANGED vars
  <2>1. TInv'  BY <1>1, StutterTypes DEF LInv
  <2>2. Deleting' /\ (known => LockInv /\ StaleInv)'
    BY <1>1 DEF LInv, Deleting, LockInv, StaleInv, Answers, Listening, vars, machineVars, filesVars, hostVars,
                cmdVars
  <2> QED  BY <2>1, <2>2 DEF LInv
<1>2. ASSUME NEW p \in Procs, Start(p) PROVE LInv'
  BY <1>2, StartTypes, StartLock, StartStale DEF LInv
<1>3. ASSUME NEW p \in Procs, End(p) \/ World(p) PROVE LInv'
  BY <1>3, EndTypes, EndLock, EndStale DEF LInv
<1>4. ASSUME NEW c \in Clients, Command(c) PROVE LInv'
  BY <1>4, CommandTypes, CommandLock, CommandStale DEF LInv
<1> QED  BY <1>1, <1>2, <1>3, <1>4 DEF Next

\* acquireLock serializes startup: until the machine is deleted, at most one
\* process at a time is between the lock and its listener.
THEOREM StartupIsSerialized == Spec => []StartersExclusive
<1>1. LInv => StartersExclusive
  <2> SUFFICES ASSUME LInv, known PROVE Cardinality({p \in Procs : pc[p] \in Starting}) <= 1
    BY DEF StartersExclusive
  <2> DEFINE S == {p \in Procs : pc[p] \in Starting}
  <2>1. CASE S = {}
    BY <2>1, FS_EmptySet
  <2>2. CASE S # {}
    <3>1. PICK x : x \in S
      BY <2>2
    <3>2. S = {x}
      BY <3>1, OneStarter DEF LInv, TInv
    <3>3. Cardinality({x}) = 1
      BY FS_Singleton
    <3> QED  BY <3>2, <3>3
  <2> QED  BY <2>1, <2>2
<1> QED  BY <1>1, InitLock, LockStep, PTL DEF Spec

\* RunDaemon's os.Remove of the control socket, and reapFiles' under the lock,
\* only ever hit a socket nobody serves.
THEOREM OnlyStaleSocketsCleared == Spec => OnlyStaleCleared
<1>1. LInv => \A p \in Procs : known /\ ClearStale(p) => ~Answers
  BY DEF LInv, StaleInv, ClearStale
<1>2. LInv => \A c \in Clients :
                known /\ ReapSock(c) /\ (\E i \in Inodes : holder[i] = c) => ~Answers
  BY DEF LInv, StaleInv, ReapSock
<1> QED  BY <1>1, <1>2, InitLock, LockStep, PTL
     DEF Spec, OnlyStaleCleared, StarterClearsStale, ReapClearsStale

-----------------------------------------------------------------------------
(* Transports. *)

\* A transport whose process was not killed belongs to one that dialed it and has
\* not torn it down, and a master that runs is the one on the ControlPath.
TransportInv ==
  /\ \A p \in live \ killed :
       pc[p] \in {"dialed", "listen", "serving", "closing"} \union
                 (IF kind = "ssh" THEN {"verify"} ELSE {})
  /\ kind = "ssh" => live \subseteq {cpath}
  /\ kind = "smol" => \A p \in Procs : pc[p] \notin {"evict", "unlink", "master"}

OInv == TInv /\ TransportInv

\* A startup that gives up after its dial closes what it made.
LEMMA StartTransport ==
  ASSUME OInv, NEW p \in Procs, Start(p)
  PROVE  TransportInv'
<1> USE DEF OInv, TInv, TypeOK, TransportInv, KilledGone, Goto, Gone, machineVars, hostVars, cmdVars
<1>1. CASE Resolve(p)  BY <1>1 DEF Resolve
<1>2. CASE OpenLock(p)  BY <1>2 DEF OpenLock
<1>3. CASE TakeLock(p)  BY <1>3 DEF TakeLock
<1>4. CASE Probe(p)  BY <1>4 DEF Probe
<1>5. CASE ClearStale(p)  BY <1>5 DEF ClearStale
<1>6. CASE Begin(p)  BY <1>6 DEF Begin
<1>7. CASE DialSmol(p)  BY <1>7 DEF DialSmol
<1>8. CASE FindMaster(p)  BY <1>8 DEF FindMaster
<1>9. CASE Evict(p)  BY <1>9 DEF Evict, ExitMaster, MasterAnswers
<1>10. CASE UnlinkMaster(p)  BY <1>10 DEF UnlinkMaster, MasterAnswers
<1>11. CASE StartMaster(p)  BY <1>11 DEF StartMaster
<1>12. CASE VerifyMaster(p)  BY <1>12 DEF VerifyMaster, MasterAnswers
<1>13. CASE DialFails(p)  BY <1>13 DEF DialFails
<1>14. CASE Dialed(p)  BY <1>14 DEF Dialed, CloseTransport, ExitMaster, MasterAnswers
<1>15. CASE Listen(p)  BY <1>15 DEF Listen, CloseTransport, ExitMaster, MasterAnswers
<1> QED  BY <1>1, <1>2, <1>3, <1>4, <1>5, <1>6, <1>7, <1>8, <1>9, <1>10, <1>11, <1>12, <1>13,
            <1>14, <1>15 DEF Start

\* A shutdown ends only after its teardown, and a signal never ends a process
\* that has dialed.
LEMMA EndTransport ==
  ASSUME OInv, NEW p \in Procs, End(p) \/ World(p)
  PROVE  TransportInv'
<1> USE DEF OInv, TInv, TypeOK, TransportInv, KilledGone, Goto, Gone, Running, machineVars, hostVars, cmdVars
<1>1. CASE SignalTaken(p)  BY <1>1 DEF SignalTaken
<1>2. ASSUME NEW idle \in BOOLEAN, Shutdown(p, idle) PROVE TransportInv'  BY <1>2 DEF Shutdown
<1>3. CASE Teardown(p)  BY <1>3 DEF Teardown, CloseTransport, ExitMaster, MasterAnswers
<1>4. ASSUME NEW r \in BOOLEAN, Lstat(p, r) PROVE TransportInv'  BY <1>4 DEF Lstat
<1>5. CASE DialOwn(p)  BY <1>5 DEF DialOwn
<1>6. CASE RemoveSocket(p)  BY <1>6 DEF RemoveSocket
<1>7. CASE Signal(p)  BY <1>7 DEF Signal
<1>8. ASSUME NEW b \in BOOLEAN, Kill(p, b) PROVE TransportInv'  BY <1>8 DEF Kill
<1>9. ASSUME NEW b \in BOOLEAN, OrphanEnds(p, b) PROVE TransportInv'  BY <1>9 DEF OrphanEnds
<1> QED  BY <1>1, <1>2, <1>3, <1>4, <1>5, <1>6, <1>7, <1>8, <1>9 DEF End, World

\* A command touches a master's socket only if nobody answers it.
LEMMA CommandTransport ==
  ASSUME OInv, NEW c \in Clients, Command(c)
  PROVE  TransportInv'
<1> USE DEF OInv, TInv, TypeOK, TransportInv, KilledGone, Goto, CmdGoto, Running, machineVars, filesVars, hostVars
<1>1. CASE DialCmd(c)  BY <1>1 DEF DialCmd
<1>2. ASSUME NEW p \in Procs, Spawn(c, p) PROVE TransportInv'  BY <1>2 DEF Spawn, Fresh
<1>3. ASSUME NEW from, NEW then, StopCmd(c, from, then) PROVE TransportInv'  BY <1>3 DEF StopCmd
<1>4. CASE WaitStat(c)  BY <1>4 DEF WaitStat
<1>5. CASE WaitPing(c)  BY <1>5 DEF WaitPing
<1>6. CASE WaitTimesOut(c)  BY <1>6 DEF WaitTimesOut
<1>7. CASE CycleDone(c)  BY <1>7 DEF CycleDone
<1>8. CASE ReapCmd(c)  BY <1>8 DEF ReapCmd
<1>9. CASE ReapLock(c)  BY <1>9 DEF ReapLock
<1>10. CASE ReapProbe(c)  BY <1>10 DEF ReapProbe
<1>11. CASE ReapSock(c)  BY <1>11 DEF ReapSock
<1>12. CASE ReapMaster(c)  BY <1>12 DEF ReapMaster, MasterAnswers
<1>13. CASE Unregister(c)  BY <1>13 DEF Unregister
<1>14. CASE RemoveLock(c)  BY <1>14 DEF RemoveLock
<1> QED  BY <1>1, <1>2, <1>3, <1>4, <1>5, <1>6, <1>7, <1>8, <1>9, <1>10, <1>11, <1>12, <1>13,
            <1>14 DEF Command

\* daemonSignals: a daemon that is stopped or signalled, at whatever point of its
\* startup or its life, never leaves its exec or its master behind.
THEOREM TransportsDoNotOutlive == Spec => []NoOrphans
<1>1. Init => OInv
  <2> SUFFICES ASSUME Init PROVE TransportInv
    BY InitTypes DEF OInv
  <2> QED  BY DEF Init, TransportInv
<1>2. OInv /\ [Next]_vars => OInv'
  <2> SUFFICES ASSUME OInv, [Next]_vars PROVE OInv'
    OBVIOUS
  <2>1. CASE UNCHANGED vars
    BY <2>1, StutterTypes DEF OInv, TransportInv, vars, machineVars, hostVars
  <2>2. ASSUME NEW p \in Procs, Start(p) PROVE OInv'
    BY <2>2, StartTypes, StartTransport DEF OInv
  <2>3. ASSUME NEW p \in Procs, End(p) \/ World(p) PROVE OInv'
    BY <2>3, EndTypes, EndTransport DEF OInv
  <2>4. ASSUME NEW c \in Clients, Command(c) PROVE OInv'
    BY <2>4, CommandTypes, CommandTransport DEF OInv
  <2> QED  BY <2>1, <2>2, <2>3, <2>4 DEF Next
<1>3. OInv => NoOrphans
  BY DEF OInv, TransportInv, NoOrphans, Running
<1> QED  BY <1>1, <1>2, <1>3, PTL DEF Spec

-----------------------------------------------------------------------------
(* startMaster, as long as no master is wedged. *)

\* Once a starter has looked at the ControlPath, no master but its own comes there.
MasterInv ==
  /\ wedged = {}
  /\ \A p \in Procs :
       /\ pc[p] = "unlink" => ~MasterAnswers
       /\ pc[p] = "master" => cpath = None
       /\ pc[p] = "verify" => cpath \in {p, None}

MInv == LInv /\ (known => MasterInv)

\* A starter's own steps; another's StartMaster would need the lock it holds.
LEMMA StartMasterInv ==
  ASSUME LInv, LockInv, MasterInv, NEW p \in Procs, Start(p)
  PROVE  MasterInv'
<1> USE DEF LInv, TInv, TypeOK, MasterInv, MasterAnswers, Goto, Gone, machineVars, hostVars, cmdVars
<1>1. CASE Resolve(p)  BY <1>1 DEF Resolve
<1>2. CASE OpenLock(p)  BY <1>2 DEF OpenLock
<1>3. CASE TakeLock(p)  BY <1>3 DEF TakeLock
<1>4. CASE Probe(p)  BY <1>4 DEF Probe
<1>5. CASE ClearStale(p)  BY <1>5 DEF ClearStale
<1>6. CASE Begin(p)  BY <1>6 DEF Begin
<1>7. CASE DialSmol(p)
  <2>1. \A q \in Procs : pc[q] \in {"unlink", "master", "verify"} => q = p
    BY <1>7, OneStarter DEF DialSmol, Starting
  <2> QED  BY <1>7, <2>1 DEF DialSmol
<1>8. CASE FindMaster(p)  BY <1>8 DEF FindMaster
<1>9. CASE Evict(p)  BY <1>9 DEF Evict, ExitMaster
<1>10. CASE UnlinkMaster(p)  BY <1>10 DEF UnlinkMaster
<1>11. CASE StartMaster(p)
  <2>1. \A q \in Procs : pc[q] \in {"unlink", "master", "verify"} => q = p
    BY <1>11, OneStarter DEF StartMaster, Starting
  <2> QED  BY <1>11, <2>1 DEF StartMaster
<1>12. CASE VerifyMaster(p)  BY <1>12 DEF VerifyMaster
<1>13. CASE DialFails(p)  BY <1>13 DEF DialFails
<1>14. CASE Dialed(p)  BY <1>14 DEF Dialed, CloseTransport, ExitMaster
<1>15. CASE Listen(p)  BY <1>15 DEF Listen, CloseTransport, ExitMaster
<1> QED  BY <1>1, <1>2, <1>3, <1>4, <1>5, <1>6, <1>7, <1>8, <1>9, <1>10, <1>11, <1>12, <1>13,
            <1>14, <1>15 DEF Start

\* Other processes only end masters.
LEMMA EndMasterInv ==
  ASSUME ~Wedges, LInv, MasterInv, NEW p \in Procs, End(p) \/ World(p)
  PROVE  MasterInv'
<1> USE DEF LInv, TInv, TypeOK, MasterInv, MasterAnswers, Goto, Gone, Running, machineVars, hostVars,
         cmdVars
<1>1. CASE SignalTaken(p)  BY <1>1 DEF SignalTaken
<1>2. ASSUME NEW b \in BOOLEAN, Shutdown(p, b) PROVE MasterInv'  BY <1>2 DEF Shutdown
<1>3. CASE Teardown(p)  BY <1>3 DEF Teardown, CloseTransport, ExitMaster
<1>4. ASSUME NEW b \in BOOLEAN, Lstat(p, b) PROVE MasterInv'  BY <1>4 DEF Lstat
<1>5. CASE DialOwn(p)  BY <1>5 DEF DialOwn
<1>6. CASE RemoveSocket(p)  BY <1>6 DEF RemoveSocket
<1>7. CASE Signal(p)  BY <1>7 DEF Signal
<1>8. ASSUME NEW b \in BOOLEAN, Kill(p, b) PROVE MasterInv'  BY <1>8 DEF Kill
<1>9. ASSUME NEW b \in BOOLEAN, OrphanEnds(p, b) PROVE MasterInv'  BY <1>9 DEF OrphanEnds
<1> QED  BY <1>1, <1>2, <1>3, <1>4, <1>5, <1>6, <1>7, <1>8, <1>9 DEF End, World

\* Commands only unlink masters' sockets.
LEMMA CommandMasterInv ==
  ASSUME LInv, MasterInv, NEW c \in Clients, Command(c)
  PROVE  MasterInv'
<1> USE DEF LInv, TInv, TypeOK, MasterInv, MasterAnswers, Goto, CmdGoto, machineVars, filesVars,
         hostVars
<1>1. CASE DialCmd(c)  BY <1>1 DEF DialCmd
<1>2. ASSUME NEW p \in Procs, Spawn(c, p) PROVE MasterInv'  BY <1>2 DEF Spawn
<1>3. ASSUME NEW from, NEW then, StopCmd(c, from, then) PROVE MasterInv'  BY <1>3 DEF StopCmd
<1>4. CASE WaitStat(c)  BY <1>4 DEF WaitStat
<1>5. CASE WaitPing(c)  BY <1>5 DEF WaitPing
<1>6. CASE WaitTimesOut(c)  BY <1>6 DEF WaitTimesOut
<1>7. CASE CycleDone(c)  BY <1>7 DEF CycleDone
<1>8. CASE ReapCmd(c)  BY <1>8 DEF ReapCmd
<1>9. CASE ReapLock(c)  BY <1>9 DEF ReapLock
<1>10. CASE ReapProbe(c)  BY <1>10 DEF ReapProbe
<1>11. CASE ReapSock(c)  BY <1>11 DEF ReapSock
<1>12. CASE ReapMaster(c)  BY <1>12 DEF ReapMaster
<1>13. CASE Unregister(c)  BY <1>13 DEF Unregister
<1>14. CASE RemoveLock(c)  BY <1>14 DEF RemoveLock
<1> QED  BY <1>1, <1>2, <1>3, <1>4, <1>5, <1>6, <1>7, <1>8, <1>9, <1>10, <1>11, <1>12, <1>13,
            <1>14 DEF Command

\* A deleted machine stays deleted.
LEMMA DeletedStays == [Next]_vars /\ known' => known
<1> SUFFICES ASSUME [Next]_vars, known' PROVE known
  OBVIOUS
<1>1. CASE UNCHANGED vars
  BY <1>1 DEF vars, machineVars
<1>2. ASSUME NEW p \in Procs, Start(p) \/ End(p) \/ World(p) PROVE known
  BY <1>2 DEF Start, End, World, machineVars, Resolve, OpenLock, TakeLock, Probe, ClearStale, Begin,
     DialSmol, FindMaster, Evict, UnlinkMaster, StartMaster, VerifyMaster, DialFails, Dialed, Listen,
     SignalTaken, Shutdown, Teardown, Lstat, DialOwn, RemoveSocket, Signal, Kill, OrphanEnds
<1>3. ASSUME NEW c \in Clients, Command(c) PROVE known
  BY <1>3 DEF Command, machineVars, DialCmd, Spawn, StopCmd, WaitStat, WaitPing, WaitTimesOut,
     CycleDone, ReapCmd, ReapLock, ReapProbe, ReapSock, ReapMaster, Unregister, RemoveLock
<1> QED  BY <1>1, <1>2, <1>3 DEF Next

\* startMaster: unless an orphaned master ignores `-O exit`, the master a daemon
\* goes on with is the one it started.
THEOREM MastersAreOwn ==
  ASSUME ~Wedges
  PROVE  Spec => RidesOwnMaster
<1>1. Init => MInv
  BY InitLock DEF MInv, MasterInv, Init
<1>2. MInv /\ [Next]_vars => MInv'
  <2> SUFFICES ASSUME MInv, [Next]_vars, known' PROVE MasterInv'
    BY LockStep DEF MInv
  <2>1. known /\ LInv /\ LockInv /\ MasterInv
    BY DeletedStays DEF MInv, LInv
  <2>2. CASE UNCHANGED vars
    BY <2>1, <2>2 DEF MasterInv, MasterAnswers, vars, hostVars
  <2>3. ASSUME NEW p \in Procs, Start(p) PROVE MasterInv'
    BY <2>1, <2>3, StartMasterInv
  <2>4. ASSUME NEW p \in Procs, End(p) \/ World(p) PROVE MasterInv'
    BY <2>1, <2>4, EndMasterInv
  <2>5. ASSUME NEW c \in Clients, Command(c) PROVE MasterInv'
    BY <2>1, <2>5, CommandMasterInv
  <2> QED  BY <2>2, <2>3, <2>4, <2>5 DEF Next
<1>3. MInv => \A p \in Procs : known /\ VerifyMaster(p) /\ pc'[p] = "dialed" => p \in live
  BY DEF MInv, MasterInv, LInv, TInv, TypeOK, VerifyMaster, MasterAnswers, Gone
<1> QED  BY <1>1, <1>2, <1>3, PTL DEF Spec, RidesOwnMaster

=============================================================================
