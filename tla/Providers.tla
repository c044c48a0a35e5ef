------------------------------ MODULE Providers ------------------------------
(***************************************************************************)
(* Provider servers: what the project at the provider holds, this host's   *)
(* cache of it, and the commands that change either (internal/cli/         *)
(* providers*.go over internal/provider).  One action is one API call, one *)
(* critical section of the cache's lock, or one effect on this host, so    *)
(* whatever happens between a call and the use of its answer is a          *)
(* behaviour.  Servers may also be made and deleted in the console or from *)
(* another host, and an address is used again once its server is gone.     *)
(***************************************************************************)
EXTENDS Naturals, FiniteSets

CONSTANTS Cmds,     \* devvm processes on this host
          Runs,     \* which verbs each of them may run
          Names,    \* server names
          Addrs,    \* public addresses
          Shared,   \* addresses a managed [machines.*] entry reaches as well
          MaxId     \* bound: servers ever made

ASSUME ProvidersAssumption == MaxId \in Nat /\ Names # {} /\ Shared \subseteq Addrs

VARIABLES project,  \* id -> the server at the provider
          next,     \* the id its next server gets
          cache,    \* name -> its row in cache/provider-NAME.list
          pins,     \* known_hosts: address -> the server whose key is pinned
          saved,    \* the names with saved forwards
          daemon,   \* the names whose forward daemon runs
          pc, job   \* the commands

pvars == <<project, next, cache, pins, saved, daemon, pc, job>>
remote == <<project, next>>
hostVars == <<pins, saved, daemon>>

Ids == 1..MaxId
NoId == 0
NoAddr == "no address"
Dash == "-"
Verbs == {"create", "delete", "start", "stop", "setup", "status"}
NoRow == [id |-> NoId, managed |-> FALSE, state |-> "?", addr |-> NoAddr]
Rows == [id : Ids \cup {NoId}, managed : BOOLEAN, state : {"starting", "running", "stopped", "?"},
         addr : Addrs \cup {NoAddr, Dash}]
NoServer == [name |-> "none", row |-> NoRow]
Servers == [name : Names, row : Rows] \cup {NoServer}

Points == {"idle", "get", "merge", "key", "post", "await", "made", "unpin", "shape", "confirm", "delete", "drop",
           "forget", "power", "act", "record", "resume", "list", "listed", "done"}

(* row: the answer a command works from.  made: the server its POST made,  *)
(* known to the command or not.  err: a step failed and was only reported. *)
Jobs == [verb : Verbs, name : Names, row : Rows, listed : [Names -> Rows], err : BOOLEAN,
         made : Ids \cup {NoId}, said : {"", "refused", "maybe", "named", "failed", "done"}]

ProvidersTypeOK == /\ project \in [Ids -> Servers] /\ next \in 1..(MaxId + 1)
          /\ cache \in [Names -> Rows] /\ pins \in [Addrs -> Ids \cup {NoId}]
          /\ saved \subseteq Names /\ daemon \subseteq Names
          /\ pc \in [Cmds -> Points] /\ job \in [Cmds -> Jobs]

Alive(i) == i \in Ids /\ project[i] # NoServer
Free == Addrs \ {project[i].row.addr : i \in {k \in Ids : Alive(k)}}

(* Names are unique in a project, and so are the addresses in use. *)
Named(n) == {i \in Ids : Alive(i) /\ project[i].name = n}
RowOf(n) == IF Named(n) = {} THEN NoRow ELSE project[CHOOSE i \in Named(n) : TRUE].row
At(a) == {i \in Ids : Alive(i) /\ project[i].row.addr = a /\ project[i].row.state = "running"}

Fresh == [verb |-> "status", name |-> CHOOSE n \in Names : TRUE, row |-> NoRow,
          listed |-> [n \in Names |-> NoRow], err |-> FALSE, made |-> NoId, said |-> ""]

Go(c, from, to) == pc[c] = from /\ pc' = [pc EXCEPT ![c] = to]
Ends(c, word) == /\ pc' = [pc EXCEPT ![c] = "done"]
                 /\ job' = [job EXCEPT ![c] = [Fresh EXCEPT !.verb = job[c].verb, !.made = job[c].made,
                                                            !.said = word]]

(* A row as the file gives it back: an empty field is written as a dash. *)
Written(r) == IF r # NoRow /\ r.addr = NoAddr THEN [r EXCEPT !.addr = Dash] ELSE r

(* cacheField's dash is an address to whoever reads it back. *)
Addressed(r) == r.addr # NoAddr

ProvidersInit == /\ project = [i \in Ids |-> NoServer] /\ next = 1
        /\ cache = [n \in Names |-> NoRow] /\ pins = [a \in Addrs |-> NoId]
        /\ saved = {} /\ daemon = {}
        /\ pc = [c \in Cmds |-> "idle"]
        /\ job = [c \in Cmds |-> Fresh]

Begin(c, v, n) ==
    /\ v \in Runs[c]
    /\ Go(c, "idle", IF v = "status" THEN "list" ELSE "get")
    /\ job' = [job EXCEPT ![c].verb = v, ![c].name = n]
    /\ UNCHANGED <<remote, cache, hostVars>>

(* What runCreateProvider refuses before it asks the API anything. *)
RefusedEarly(c) ==
    /\ pc[c] = "get" /\ job[c].verb = "create"
    /\ Ends(c, "refused")
    /\ UNCHANGED <<remote, cache, hostVars>>

(* Get, or no token, or an API that does not answer. *)
Get(c) ==
    /\ pc[c] = "get"
    /\ \/ Go(c, "get", "merge") /\ job' = [job EXCEPT ![c].row = RowOf(job[c].name)]
       \/ Ends(c, IF job[c].verb = "create" THEN "refused" ELSE "failed")
    /\ UNCHANGED <<remote, cache, hostVars>>

Merged(n, r) == cache' = [cache EXCEPT ![n] = Written(r)]

(* The answer goes into the cache under its lock; then each verb's gate. *)
MergeGet(c) ==
    LET j == job[c]
        Refuse == Ends(c, IF j.verb = "create" THEN "refused" ELSE "failed")
        Pass(to) == Go(c, "merge", to) /\ UNCHANGED job
    IN /\ pc[c] = "merge"
       /\ Merged(j.name, j.row)
       /\ CASE j.verb = "create" -> IF j.row = NoRow THEN Pass("key") ELSE Refuse
            [] j.verb = "delete" -> IF j.row # NoRow /\ j.row.managed THEN Pass("confirm") ELSE Refuse
            [] j.verb = "setup"  -> IF j.row.managed /\ Addressed(j.row) THEN Pass("shape") ELSE Refuse
            [] OTHER             -> IF j.row # NoRow /\ Addressed(j.row) THEN Pass("power") ELSE Refuse
       /\ UNCHANGED <<remote, hostVars>>

(* ensureProviderKey: found by name, uploaded, or found by its fingerprint *)
(* when the upload is refused.  Nothing takes a key out of the project.    *)
EnsureKey(c) ==
    /\ pc[c] = "key"
    /\ \/ Go(c, "key", "post") /\ UNCHANGED job
       \/ Ends(c, "refused")
    /\ UNCHANGED <<remote, cache, hostVars>>

Make(n, managed, addr) ==
    /\ next \in Ids
    /\ project' = [project EXCEPT ![next] =
                       [name |-> n, row |-> [id |-> next, managed |-> managed,
                                             state |-> "starting", addr |-> addr]]]
    /\ next' = next + 1

(* Mutant of NoServerErr: no server came back, so none was made. *)
NoServerErr_NoneMade(why) == "refused"

(* createNoServerErr: only an answer of the API says that nothing was made. *)
NoServerErr(why) == IF why = "api" THEN "refused" ELSE "maybe"

PostRefused(c) ==
    /\ pc[c] = "post" /\ Ends(c, NoServerErr("api"))
    /\ UNCHANGED <<remote, cache, hostVars>>

PostAccepted(c) ==
    /\ pc[c] = "post" /\ Named(job[c].name) = {}
    /\ \E a \in Free \cup {NoAddr} : Make(job[c].name, TRUE, a)
    /\ Go(c, "post", "await") /\ job' = [job EXCEPT ![c].made = next, ![c].row = project'[next].row]
    /\ UNCHANGED <<cache, hostVars>>

(* The request or its answer is lost, or the deadline passes in between. *)
PostLost(c) ==
    /\ pc[c] = "post"
    /\ \/ UNCHANGED <<project, next>> /\ Ends(c, NoServerErr("transport"))
       \/ /\ Named(job[c].name) = {}
          /\ \E a \in Free \cup {NoAddr} : Make(job[c].name, TRUE, a)
          /\ pc' = [pc EXCEPT ![c] = "done"]
          /\ job' = [job EXCEPT ![c] = [Fresh EXCEPT !.verb = "create", !.made = next,
                                                     !.said = NoServerErr("transport")]]
    /\ UNCHANGED <<cache, hostVars>>

(* Create waits for its actions and reads the server again; every failure  *)
(* hands back the server the POST answered with.                           *)
Await(c) ==
    LET made == job[c].made
    IN /\ pc[c] = "await"
       /\ \/ /\ Alive(made)
             /\ project' = [project EXCEPT ![made].row.state = "running"]
             /\ job' = [job EXCEPT ![c].row = project'[made].row]
          \/ UNCHANGED project /\ job' = [job EXCEPT ![c].err = TRUE]
       /\ Go(c, "await", "made")
       /\ UNCHANGED <<next, cache, hostVars>>

(* It bills: it goes into the cache at once, whatever happens next. *)
MergeMade(c) ==
    LET j == job[c]
    IN /\ pc[c] = "made"
       /\ Merged(j.name, j.row)
       /\ IF j.err \/ ~Addressed(j.row) THEN Ends(c, "named") ELSE Go(c, "made", "unpin") /\ UNCHANGED job
       /\ UNCHANGED <<remote, hostVars>>

(* forgetHostKey: a pin that a managed entry shares is kept. *)
Unpinned(a) == IF a \in Addrs \ Shared THEN [pins EXCEPT ![a] = NoId] ELSE pins

(* An address that is used again: its old pin goes before setup dials it. *)
Unpin(c) ==
    /\ Go(c, "unpin", "shape")
    /\ \/ pins' = Unpinned(job[c].row.addr) /\ UNCHANGED job
       \/ UNCHANGED pins /\ job' = [job EXCEPT ![c].err = TRUE]
    /\ UNCHANGED <<remote, cache, saved, daemon>>

(* One ssh to the address: whoever answers there now has to match its pin. *)
Reached(a) == /\ a \in Addrs
              /\ \E i \in At(a) : /\ pins[a] \in {NoId, i}
                                  /\ pins' = [pins EXCEPT ![a] = i]

(* setup's steps on the box, seen from here: done, or failed or interrupted. *)
Shape(c) ==
    LET j == job[c]
    IN /\ pc[c] = "shape"
       /\ \/ /\ Reached(j.row.addr)
             /\ saved' \in {saved, saved \cup {j.name}}
             /\ Ends(c, "done")
          \/ /\ Ends(c, IF j.verb = "create" THEN "named" ELSE "failed")
             /\ UNCHANGED <<pins, saved>>
       /\ UNCHANGED <<remote, cache, daemon>>

Confirm(c) ==
    /\ \/ Go(c, "confirm", "delete") /\ daemon' = daemon \ {job[c].name} /\ UNCHANGED job
       \/ pc[c] = "confirm" /\ Ends(c, "failed") /\ UNCHANGED daemon
    /\ UNCHANGED <<remote, cache, pins, saved>>

(* Mutant of Doomed: the name is looked up again. *)
Doomed_ByName(c) == IF Named(job[c].name) = {} THEN job[c].row.id
                    ELSE CHOOSE i \in Named(job[c].name) : TRUE

(* The server a delete is sent for. *)
Doomed(c) == job[c].row.id

(* DELETE by id; a server that is gone already counts as deleted, an answer *)
(* that is lost as a failure.                                               *)
DeleteCall(c) ==
    /\ pc[c] = "delete"
    /\ \/ project' = [project EXCEPT ![Doomed(c)] = NoServer] /\ Go(c, "delete", "drop") /\ UNCHANGED job
       \/ project' \in {project, [project EXCEPT ![Doomed(c)] = NoServer]} /\ Ends(c, "failed")
    /\ UNCHANGED <<next, cache, hostVars>>

DropRow(c) ==
    /\ Go(c, "drop", "forget") /\ Merged(job[c].name, NoRow)
    /\ UNCHANGED <<remote, hostVars, job>>

(* forgetHostState, under the ports lock: the saved forwards first, the    *)
(* pin last; a failure leaves the rest.                                    *)
Forget(c) ==
    LET n == job[c].name
    IN /\ pc[c] = "forget"
       /\ \/ saved' = saved \ {n} /\ pins' = Unpinned(job[c].row.addr) /\ Ends(c, "done")
          \/ saved' \in {saved, saved \ {n}} /\ UNCHANGED pins /\ Ends(c, "failed")
       /\ UNCHANGED <<remote, cache, daemon>>

AfterPower(c) == IF job[c].verb = "stop" THEN Ends(c, "done")
                 ELSE pc' = [pc EXCEPT ![c] = "resume"] /\ UNCHANGED job

Want(c) == IF job[c].verb = "start" THEN "running" ELSE "stopped"

(* A server that is in the asked state is left alone; an unmanaged one is  *)
(* asked about; a stop takes the forwards down first.                      *)
Power(c) ==
    /\ \/ pc[c] = "power" /\ job[c].row.state = Want(c) /\ AfterPower(c) /\ UNCHANGED daemon
       \/ /\ job[c].row.state # Want(c) /\ Go(c, "power", "act") /\ UNCHANGED job
          /\ daemon' = IF job[c].verb = "stop" THEN daemon \ {job[c].name} ELSE daemon
       \/ pc[c] = "power" /\ job[c].row.state # Want(c) /\ Ends(c, "failed") /\ UNCHANGED daemon
    /\ UNCHANGED <<remote, cache, pins, saved>>

PowerCall(c) ==
    LET i == job[c].row.id
        acted == IF Alive(i) THEN [project EXCEPT ![i].row.state = Want(c)] ELSE project
    IN /\ pc[c] = "act"
       /\ \/ Alive(i) /\ project' = acted /\ Go(c, "act", "record") /\ UNCHANGED job
          \/ project' \in {project, acted} /\ Ends(c, "failed")
       /\ UNCHANGED <<next, cache, hostVars>>

(* setProviderState: the row of that name, if the cache has one. *)
SetState(c) ==
    LET n == job[c].name
    IN /\ pc[c] = "record" /\ AfterPower(c)
       /\ cache' = IF cache[n] = NoRow THEN cache ELSE [cache EXCEPT ![n].state = Want(c)]
       /\ UNCHANGED <<remote, hostVars>>

(* resumeProviderForwards: wait for ssh, then the saved forwards by a      *)
(* daemon, which looks the machine up in the cache only.                   *)
Resume(c) ==
    LET j == job[c]
    IN /\ pc[c] = "resume"
       /\ \/ ~j.row.managed /\ Ends(c, "done") /\ UNCHANGED hostVars
          \/ j.row.managed /\ Ends(c, "failed") /\ UNCHANGED hostVars
          \/ /\ j.row.managed /\ Reached(j.row.addr)
             /\ daemon' = IF j.name \in saved /\ cache[j.name].managed THEN daemon \cup {j.name} ELSE daemon
             /\ Ends(c, IF j.name \in saved /\ ~cache[j.name].managed THEN "failed" ELSE "done")
             /\ UNCHANGED saved
       /\ UNCHANGED <<remote, cache>>

ListCall(c) ==
    /\ Go(c, "list", "listed")
    /\ \/ job' = [job EXCEPT ![c].listed = [n \in Names |-> RowOf(n)]]
       \/ job' = [job EXCEPT ![c].err = TRUE]
    /\ UNCHANGED <<remote, cache, hostVars>>

(* A listing replaces the rows, a failed one leaves them. *)
Record(c) ==
    /\ pc[c] = "listed"
    /\ cache' = IF job[c].err THEN cache ELSE [n \in Names |-> Written(job[c].listed[n])]
    /\ Ends(c, IF job[c].err THEN "failed" ELSE "done")
    /\ UNCHANGED <<remote, hostVars>>

Return(c) ==
    /\ Go(c, "done", "idle")
    /\ job' = [job EXCEPT ![c] = Fresh]
    /\ UNCHANGED <<remote, cache, hostVars>>

ConsoleCreate(n, managed, a) ==
    /\ Named(n) = {} /\ a \in Free \cup {NoAddr} /\ Make(n, managed, a)
    /\ UNCHANGED <<cache, hostVars, pc, job>>

ConsoleDelete(i) ==
    /\ Alive(i) /\ project' = [project EXCEPT ![i] = NoServer]
    /\ UNCHANGED <<next, cache, hostVars, pc, job>>

Boots(i) ==
    /\ Alive(i) /\ project[i].row.state = "starting"
    /\ project' = [project EXCEPT ![i].row.state = "running"]
    /\ UNCHANGED <<next, cache, hostVars, pc, job>>

Command(c) == \/ \E v \in Verbs, n \in Names : Begin(c, v, n)
              \/ RefusedEarly(c) \/ Get(c) \/ MergeGet(c) \/ EnsureKey(c)
              \/ PostRefused(c) \/ PostAccepted(c) \/ PostLost(c) \/ Await(c) \/ MergeMade(c)
              \/ Unpin(c) \/ Shape(c)
              \/ Confirm(c) \/ DeleteCall(c) \/ DropRow(c) \/ Forget(c)
              \/ Power(c) \/ PowerCall(c) \/ SetState(c) \/ Resume(c)
              \/ ListCall(c) \/ Record(c) \/ Return(c)

Console == \/ \E n \in Names, managed \in BOOLEAN, a \in Addrs \cup {NoAddr} : ConsoleCreate(n, managed, a)
           \/ \E i \in Ids : ConsoleDelete(i) \/ Boots(i)

ProvidersNext == (\E c \in Cmds : Command(c)) \/ Console

ProvidersSpec == ProvidersInit /\ [][ProvidersNext]_pvars

(***************************************************************************)
(* Properties                                                              *)
(***************************************************************************)

(* A create that tells its user "no server was created" made none: a       *)
(* server nobody knows of would bill.  The answer to the POST may be lost  *)
(* at any moment (createNoServerErr).                                      *)
CreateSaysSo == \A c \in Cmds : job[c].said = "refused" => job[c].made = NoId

(* delete takes from the project only the server it showed when it asked,  *)
(* and only one that has the label, whatever the console did to the name   *)
(* in the meantime (deleteProviderBox).                                    *)
OnlyConfirmedDeleted ==
    [][\A c \in Cmds, i \in Ids :
          pc[c] = "delete" /\ pc'[c] # "delete" /\ Alive(i) /\ ~Alive(i)'
          => i = job[c].row.id /\ project[i].row.managed]_pvars

=============================================================================
