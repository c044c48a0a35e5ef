----------------------------- MODULE SavedPorts -----------------------------
(***************************************************************************)
(* One machine's saved forwards: the file under <State>/ports, its lock,   *)
(* the one-time migration that makes the directory from the old confs      *)
(* (config/ports.go), and the commands that edit, read and clear it        *)
(* (cli/hubforwards.go, forwards.go, machine_cmds.go).  One action is one  *)
(* system call or one critical section; a process may die between any two. *)
(***************************************************************************)
EXTENDS Naturals, FiniteSets

CONSTANTS Procs,     \* devvm processes
          Ports,     \* mappings
          Template,  \* the ones the machine's template saves
          Kinds      \* the kinds of machine: smol, entry, provider, hub

VARIABLES kind,      \* what the machine is
          machine,   \* what of it is there: its box, and its marker or entry
          legacy,    \* the list in the old conf, and whether that conf parses
          dir,       \* <State>/ports: is it there, the list in it, its lock file
          mlock,     \* who holds .ports-migrate.lock
          plock,     \* who holds .NAME.lock
          at, task,  \* the processes
          late       \* the list is one that nobody saved who saw the machine

svars == <<kind, machine, legacy, dir, mlock, plock, at, task, late>>
world == <<kind, machine, legacy>>

Nobody == "nobody"

ASSUME ProcsAssumption == Nobody \notin Procs
ASSUME PortsAssumption == Ports # {} /\ Template \subseteq Ports

Ops == {"add", "rm", "seed", "create", "delete", "up"}
Places == {"rest", "box", "mark", "reg", "stat", "mlock", "recheck", "build", "rename",
           "open", "flock", "check", "save", "clear", "unmark"}

(* registered: what stillThere said as the edit began. *)
Tasks == [op : Ops, port : Ports, registered : BOOLEAN, before : SUBSET Ports]
NoTask == [op |-> "up", port |-> CHOOSE p \in Ports : TRUE, registered |-> FALSE, before |-> {}]

(* A VM devvm made has a marker on this host, a box in devvm.toml only its *)
(* entry, a provider's server and a hub's machine neither.                 *)
Whole == CASE kind = "smol" -> {"box", "mark"} [] kind = "entry" -> {"mark"} [] OTHER -> {"box"}

SavedTypeOK ==
    /\ kind \in Kinds /\ machine \subseteq {"box", "mark"}
    /\ legacy \in [list : SUBSET Ports, parses : BOOLEAN]
    /\ dir \in [there : BOOLEAN, list : SUBSET Ports, lockFile : BOOLEAN]
    /\ mlock \in Procs \cup {Nobody} /\ plock \in Procs \cup {Nobody}
    /\ at \in [Procs -> Places] /\ task \in [Procs -> Tasks] /\ late \in BOOLEAN

SavedInit ==
    /\ kind \in Kinds /\ machine \in {{}, Whole}
    /\ legacy \in [list : SUBSET Ports, parses : BOOLEAN]
    /\ dir = [there |-> FALSE, list |-> {}, lockFile |-> FALSE]
    /\ mlock = Nobody /\ plock = Nobody
    /\ at = [e \in Procs |-> "rest"] /\ task = [e \in Procs |-> NoTask]
    /\ late = (machine = {} /\ legacy.list # {})

Move(e, from, to) == at[e] = from /\ at' = [at EXCEPT ![e] = to]
Leave(e) == at' = [at EXCEPT ![e] = "rest"] /\ task' = [task EXCEPT ![e] = NoTask]

(* HUB/NAME resolves from the hub's entry alone, which no verb on a machine *)
(* of it touches; whether the machine is there is the hub's answer.        *)
OnHub == kind = "hub"

(* resolve's gates: what is not whole is unknown or not managed. *)
Resolves == OnHub \/ machine = Whole

(* stillThere reads this host's files, and a server is in none of them. *)
StillThere == OnHub \/ (kind # "provider" /\ "mark" \in machine)

(* rm and up read the record on this host only; the rest resolve the name. *)
Launch(e, op, p) ==
    /\ op \in {"add", "seed", "delete"} => Resolves
    /\ op = "create" => OnHub \/ machine = {}
    /\ Move(e, "rest", CASE op = "up" -> "stat"
                         [] op \in {"create", "delete"} -> IF kind = "entry" THEN "mark" ELSE "box"
                         [] op = "seed" /\ OnHub -> "box"
                         [] OTHER -> "reg")
    /\ task' = [task EXCEPT ![e] = [NoTask EXCEPT !.op = op, !.port = IF op \in {"add", "rm"} THEN p ELSE @]]
    /\ UNCHANGED <<world, dir, mlock, plock, late>>

(* create makes the box, delete takes it away. *)
Box(e) ==
    LET made == task[e].op = "create"
    IN /\ at[e] = "box" /\ ~OnHub
       /\ \/ /\ machine' = IF made THEN machine \cup {"box"} ELSE machine \ {"box"}
             /\ Move(e, "box", IF ~made THEN "stat" ELSE IF kind = "smol" THEN "mark" ELSE "reg") /\ UNCHANGED task
          \/ Leave(e) /\ UNCHANGED machine
       /\ UNCHANGED <<kind, legacy, dir, mlock, plock, late>>

(* create and setup on a hub: this host saves the list, once the hub's own *)
(* run succeeded.                                                          *)
Seeds(e) == Move(e, "box", "reg")

(* delete on a hub: this host forgets, once the hub deleted. *)
Deregistered(e) == Move(e, "box", "stat")

(* The hub's run failed, or succeeded and ssh lost its answer. *)
Unanswered(e) == Leave(e)

(* The leaf runs on the hub first: create, setup or delete there. *)
Proxied(e) ==
    /\ OnHub /\ at[e] = "box"
    /\ \/ /\ machine' = CASE task[e].op = "create" -> {"box"} [] task[e].op = "delete" -> {} [] OTHER -> machine
          /\ "box" \in machine <=> task[e].op # "create"
          /\ \/ (IF task[e].op = "delete" THEN Deregistered(e) ELSE Seeds(e)) /\ UNCHANGED task
             \/ Unanswered(e)
       \/ Unanswered(e) /\ UNCHANGED machine
    /\ UNCHANGED <<kind, legacy, dir, mlock, plock, late>>

(* Another laptop, or the hub's own user, makes or deletes the machine. *)
Elsewhere ==
    /\ OnHub /\ machine' \in {{}, {"box"}}
    /\ UNCHANGED <<kind, legacy, dir, mlock, plock, at, task, late>>

(* create's marker; config add's entry, which config rm cuts first. *)
Mark(e) ==
    LET made == task[e].op = "create"
    IN /\ at[e] = "mark"
       /\ \/ /\ machine' = IF made THEN machine \cup {"mark"} ELSE machine \ {"mark"}
             /\ IF made /\ kind = "entry" THEN Leave(e)
                ELSE Move(e, "mark", IF made THEN "reg" ELSE "stat") /\ UNCHANGED task
          \/ Leave(e) /\ UNCHANGED machine
       /\ UNCHANGED <<kind, legacy, dir, mlock, plock, late>>

Registered(e) ==
    /\ Move(e, "reg", "stat")
    /\ task' = [task EXCEPT ![e].registered = StillThere]
    /\ UNCHANGED <<world, dir, mlock, plock, late>>

(* Where a command goes once the directory is there. *)
Migrated(e) == at' = [at EXCEPT ![e] = IF task[e].op = "up" THEN "rest" ELSE "open"]

Stat(e) ==
    /\ at[e] = "stat"
    /\ IF dir.there THEN Migrated(e) ELSE at' = [at EXCEPT ![e] = "mlock"]
    /\ UNCHANGED <<world, dir, mlock, plock, task, late>>

MigrateLock(e) ==
    /\ Move(e, "mlock", "recheck") /\ mlock = Nobody /\ mlock' = e
    /\ UNCHANGED <<world, dir, plock, task, late>>

Recheck(e) ==
    /\ at[e] = "recheck"
    /\ IF dir.there THEN Migrated(e) /\ mlock' = Nobody
                    ELSE at' = [at EXCEPT ![e] = "build"] /\ UNCHANGED mlock
    /\ UNCHANGED <<world, dir, plock, task, late>>

(* Every conf read and every file written into a directory of its own, or  *)
(* nothing at all.                                                         *)
Build(e) ==
    /\ at[e] = "build"
    /\ \/ legacy.parses /\ Move(e, "build", "rename") /\ UNCHANGED <<mlock, task>>
       \/ Leave(e) /\ mlock' = Nobody
    /\ UNCHANGED <<world, dir, plock, late>>

(* rename(2) puts it in place unless a directory that holds something is there. *)
Rename(e) ==
    /\ at[e] = "rename"
    /\ IF ~dir.there \/ (dir.list = {} /\ ~dir.lockFile)
       THEN /\ dir' = [there |-> TRUE, list |-> legacy.list, lockFile |-> FALSE]
            /\ Migrated(e) /\ UNCHANGED task
       ELSE Leave(e) /\ UNCHANGED dir
    /\ mlock' = Nobody
    /\ UNCHANGED <<world, plock, late>>

OpenLock(e) ==
    /\ Move(e, "open", "flock") /\ dir' = [dir EXCEPT !.lockFile = TRUE]
    /\ UNCHANGED <<world, mlock, plock, task, late>>

(* Mutant of Flock: the list is edited without the lock. *)
Flock_NotHeld(e) ==
    /\ Move(e, "flock", IF task[e].op = "delete" THEN "clear" ELSE "check")
    /\ UNCHANGED <<world, dir, mlock, plock, task, late>>

Flock(e) ==
    /\ Move(e, "flock", IF task[e].op = "delete" THEN "clear" ELSE "check")
    /\ plock = Nobody /\ plock' = e
    /\ UNCHANGED <<world, dir, mlock, task, late>>

Unlock(e) == plock' = IF plock = e THEN Nobody ELSE plock

(* Mutant of Gone: editPorts asks once, before the lock. *)
Gone_Unasked(e) == FALSE

(* Deleted while the edit waited for the lock. *)
Gone(e) == task[e].registered /\ ~StillThere

Check(e) ==
    /\ at[e] = "check"
    /\ IF Gone(e) THEN Leave(e) /\ Unlock(e)
       ELSE /\ Move(e, "check", "save") /\ task' = [task EXCEPT ![e].before = dir.list]
            /\ UNCHANGED plock
    /\ UNCHANGED <<world, dir, mlock, late>>

(* add and seed keep what is there, a fresh box's seed does not. *)
Edited(t) == CASE t.op = "add" -> t.before \cup {t.port}
               [] t.op = "rm" -> t.before \ {t.port}
               [] t.op = "seed" -> t.before \cup Template
               [] OTHER -> Template

Save(e) ==
    LET after == Edited(task[e])
    IN /\ at[e] = "save" /\ Leave(e) /\ Unlock(e)
       /\ dir' = [dir EXCEPT !.list = IF after = task[e].before THEN @ ELSE after]
       /\ late' = (late \/ (~task[e].registered /\ after # task[e].before))
       /\ UNCHANGED <<world, mlock>>

Clear(e) ==
    /\ dir' = [dir EXCEPT !.list = {}]
    /\ IF kind = "smol" THEN Move(e, "clear", "unmark") /\ UNCHANGED <<plock, task>>
       ELSE at[e] = "clear" /\ Leave(e) /\ Unlock(e)
    /\ UNCHANGED <<world, mlock, late>>

Unmark(e) ==
    /\ at[e] = "unmark" /\ Leave(e) /\ Unlock(e)
    /\ machine' = machine \ {"mark"}
    /\ UNCHANGED <<kind, legacy, dir, mlock, late>>

(* A kill releases the locks and leaves the files. *)
Killed(e) ==
    /\ at[e] # "rest" /\ Leave(e) /\ Unlock(e)
    /\ mlock' = IF mlock = e THEN Nobody ELSE mlock
    /\ UNCHANGED <<world, dir, late>>

(* The user repairs the conf that stopped the migration. *)
Repair == /\ ~legacy.parses /\ legacy' = [legacy EXCEPT !.parses = TRUE]
          /\ UNCHANGED <<kind, machine, dir, mlock, plock, at, task, late>>

SavedNext ==
    \/ \E e \in Procs :
          \/ \E op \in Ops, p \in Ports : Launch(e, op, p)
          \/ Box(e) \/ Proxied(e) \/ Mark(e) \/ Registered(e)
          \/ Stat(e) \/ MigrateLock(e) \/ Recheck(e) \/ Build(e) \/ Rename(e)
          \/ OpenLock(e) \/ Flock(e) \/ Check(e) \/ Save(e) \/ Clear(e) \/ Unmark(e)
          \/ Killed(e)
    \/ Repair \/ Elsewhere

SavedSpec == SavedInit /\ [][SavedNext]_svars

(***************************************************************************)
(* Properties                                                              *)
(***************************************************************************)

(* The list a reader finds: the old conf's until the migration, the file's *)
(* from then on.                                                           *)
Visible == IF dir.there THEN dir.list ELSE legacy.list

Register == INSTANCE PortsRegister WITH list <- Visible

(* Edits, removals and the migration, killed anywhere and run at once,     *)
(* implement a list that changes by one whole edit at a time: no mapping   *)
(* is lost to another's edit, and the migration itself changes nothing     *)
(* (LockPorts, editPorts, MigratePorts).                                   *)
IsRegister == Register!RegisterSpec

(* A machine whose marker is gone has no list, unless somebody saved one   *)
(* who never saw the machine: a ports add that began on a machine which    *)
(* delete then took away refuses (editPorts, forgetHostState).             *)
NoStrayList == kind = "smol" /\ "mark" \notin machine /\ dir.there /\ ~late
               => dir.list = {}

=============================================================================
