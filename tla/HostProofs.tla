----------------------------- MODULE HostProofs ------------------------------
(***************************************************************************)
(* What holds of the commands on the laptop, for any number of processes,  *)
(* servers and daemons: no start kills the boot of another, a create says  *)
(* what it made and a delete deletes what was confirmed, an update goes    *)
(* upward and leaves no old code running, edits of saved forwards are      *)
(* whole edits of one list, and the types of all that runs on the host.    *)
(***************************************************************************)
EXTENDS MCHost, ConfigFileProofs, OpensProofs, WellFoundedInduction, TLAPS

(***************************************************************************)
(* Starts of one smol VM (SmolStart).                                      *)
(***************************************************************************)
(* A boot in flight that is somebody's is that of the holder of the lock,  *)
(* who waits for it; so the one who starts the VM meets nobody's boot.     *)
OwnersWait == \A s \in Starters : vm.by = s => place[s] = "wait" /\ vm.state = "booting"

BootInv == SmolTypeOK /\ OwnersWait /\ lost = {}

(* No start has begun. *)
LEMMA BootInit == SmolInit => BootInv
  BY StartersAssumption DEF SmolInit, BootInv, SmolTypeOK, OwnersWait, Off, NoStarter

(* Every step leaves the boots that are waited for alone. *)
LEMMA BootStep == BootInv /\ [SmolNext]_bootvars => BootInv'
<1> SUFFICES ASSUME BootInv, [SmolNext]_bootvars PROVE BootInv'
  OBVIOUS
<1> USE StartersAssumption DEF BootInv, SmolTypeOK, OwnersWait, Step, Running, Up, Off
<1>1. CASE Booted
  BY <1>1 DEF Booted
<1>2. CASE PowerStop
  BY <1>2 DEF PowerStop
<1>3. ASSUME NEW s \in Starters, NEW v \in {"start", "session"}, Ask(s, v) PROVE BootInv'
  BY <1>3 DEF Ask
<1>4. ASSUME NEW s \in Starters, FirstStatus(s) PROVE BootInv'
  BY <1>4 DEF FirstStatus
<1>5. ASSUME NEW s \in Starters, LockStart(s) PROVE BootInv'
  BY <1>5 DEF LockStart
<1>6. ASSUME NEW s \in Starters, StatusAgain(s) PROVE BootInv'
  BY <1>6 DEF StatusAgain, Done
<1>7. ASSUME NEW s \in Starters, PowerStart(s) PROVE BootInv'
  <2>1. ~(vm.state = "booting" /\ vm.by \in Starters)
    BY <1>7 DEF PowerStart
  <2> QED  BY <1>7, <2>1 DEF PowerStart
<1>8. ASSUME NEW s \in Starters, WaitRunning(s) PROVE BootInv'
  BY <1>8 DEF WaitRunning, Done
<1>9. ASSUME NEW s \in Starters, GiveUp(s) PROVE BootInv'
  BY <1>9 DEF GiveUp, Done
<1>10. CASE UNCHANGED bootvars
  BY <1>10 DEF bootvars
<1> QED  BY <1>1, <1>2, <1>3, <1>4, <1>5, <1>6, <1>7, <1>8, <1>9, <1>10 DEF SmolNext

(* powerStartWait and startStopped: however many commands start one VM, and *)
(* whenever they are killed or the VM is stopped, a start that waits for    *)
(* its boot never loses it to another start.                                *)
THEOREM BootsSurvive == SmolSpec => []BootNotKilled
<1>1. BootInv => BootNotKilled
  BY DEF BootInv, BootNotKilled
<1> QED  BY <1>1, BootInit, BootStep, PTL DEF SmolSpec

-----------------------------------------------------------------------------

(***************************************************************************)
(* Create and delete of provider servers (Providers).                      *)
(***************************************************************************)
Words == {"", "refused", "maybe", "named", "failed", "done"}

(* What a command starts over with is a job. *)
LEMMA FreshIsAJob == Fresh \in Jobs /\ Fresh.row = NoRow /\ Fresh.made = NoId /\ Fresh.said = ""
<1>1. (CHOOSE n \in Names : TRUE) \in Names
    BY ProvidersAssumption
<1>2. NoRow \in Rows
    BY DEF NoRow, Rows, Ids, NoId
<1>3. [n \in Names |-> NoRow] \in [Names -> Rows]
    BY <1>2
<1> QED
    BY <1>1, <1>2, <1>3 DEF Fresh, Jobs, Verbs, NoId

(* A command that ends keeps the types. *)
LEMMA EndsTypes ==
    ASSUME NEW c \in Cmds, NEW w \in Words, ProvidersTypeOK, Ends(c, w)
    PROVE  /\ pc' \in [Cmds -> Points] /\ job' \in [Cmds -> Jobs]
           /\ job'[c].row = NoRow /\ job'[c].made = job[c].made /\ job'[c].said = w
           /\ pc'[c] = "done"
           /\ \A d \in Cmds \ {c} : job'[d] = job[d] /\ pc'[d] = pc[d]
<1> DEFINE f == [Fresh EXCEPT !.verb = job[c].verb, !.made = job[c].made, !.said = w]
<1>1. f \in Jobs /\ f.row = NoRow /\ f.made = job[c].made /\ f.said = w
    BY FreshIsAJob DEF Jobs, ProvidersTypeOK, Words
<1>2. job' = [job EXCEPT ![c] = f]
    BY DEF Ends
<1>0. pc' = [pc EXCEPT ![c] = "done"]
    BY DEF Ends
<1> HIDE DEF f
<1>5. "done" \in Points
    BY DEF Points
<1>6. pc \in [Cmds -> Points]
    BY DEF ProvidersTypeOK
<1>3. pc' \in [Cmds -> Points] /\ pc'[c] = "done" /\ \A d \in Cmds \ {c} : pc'[d] = pc[d]
    BY <1>0, <1>5, <1>6
<1>4. job' \in [Cmds -> Jobs] /\ job'[c] = f /\ \A d \in Cmds \ {c} : job'[d] = job[d]
    BY <1>1, <1>2 DEF ProvidersTypeOK
<1> QED
    BY <1>1, <1>3, <1>4

(* A command that goes on keeps the types, and nobody else moves. *)
LEMMA GoTypes ==
    ASSUME NEW c \in Cmds, NEW from, NEW to \in Points, ProvidersTypeOK, Go(c, from, to)
    PROVE  /\ pc[c] = from /\ pc' \in [Cmds -> Points] /\ pc'[c] = to
           /\ \A d \in Cmds \ {c} : pc'[d] = pc[d]
BY DEF Go, ProvidersTypeOK

(* The answer to a lookup by name is a row. *)
LEMMA RowOfTypes == ASSUME NEW n, ProvidersTypeOK PROVE RowOf(n) \in Rows
<1>1. NoRow \in Rows
    BY DEF NoRow, Rows, Ids, NoId
<1>2. ASSUME Named(n) # {} PROVE project[CHOOSE i \in Named(n) : TRUE].row \in Rows
    <2>1. PICK k \in Named(n) : k = CHOOSE i \in Named(n) : TRUE
        BY <1>2
    <2>2. k \in Ids /\ project[k] # NoServer
        BY <2>1 DEF Named, Alive
    <2> QED
        BY <2>1, <2>2 DEF Servers, ProvidersTypeOK
<1> QED
    BY <1>1, <1>2 DEF RowOf

(* The server a request makes has the id nobody had before. *)
LEMMA MakeTypes ==
    ASSUME NEW n \in Names, NEW m \in BOOLEAN, NEW a \in Addrs \cup {NoAddr}, ProvidersTypeOK, Make(n, m, a)
    PROVE  /\ project' \in [Ids -> Servers] /\ next' \in 1..(MaxId + 1) /\ next' = next + 1 /\ next \in Ids
           /\ project'[next].row = [id |-> next, managed |-> m, state |-> "starting", addr |-> a]
           /\ project'[next] # NoServer /\ project'[next].row \in Rows
           /\ \A i \in Ids \ {next} : project'[i] = project[i]
<1> DEFINE r == [id |-> next, managed |-> m, state |-> "starting", addr |-> a]
           s == [name |-> n, row |-> r]
<1>1. next \in Ids /\ next' = next + 1 /\ project' = [project EXCEPT ![next] = s]
    BY DEF Make
<1>2. r \in Rows /\ r.id = next /\ next # NoId
    BY <1>1 DEF Rows, Ids, NoId
<1>3. s \in Servers /\ s.row = r /\ s # NoServer
    BY <1>2 DEF Servers, NoServer, NoRow
<1>4. next' \in 1..(MaxId + 1)
    BY <1>1, ProvidersAssumption DEF Ids
<1> HIDE DEF s
<1> QED
    BY <1>1, <1>2, <1>3, <1>4 DEF ProvidersTypeOK

(* What a merge leaves in the cache are rows. *)
LEMMA WrittenTypes == ASSUME NEW r \in Rows PROVE Written(r) \in Rows
BY DEF Written, Rows

(* Power and boot change a living server's state and nothing else of it. *)
LEMMA PowerTypes ==
    ASSUME ProvidersTypeOK, NEW i, Alive(i), NEW s \in {"starting", "running", "stopped"},
           project' = [project EXCEPT ![i].row.state = s]
    PROVE  /\ project' \in [Ids -> Servers] /\ i \in Ids
           /\ project'[i] # NoServer /\ project'[i].row \in Rows
           /\ project'[i].row.id = project[i].row.id /\ project'[i].row.managed = project[i].row.managed
           /\ \A k \in Ids \ {i} : project'[k] = project[k]
<1> DEFINE r == [project[i].row EXCEPT !.state = s]
           t == [project[i] EXCEPT !.row = r]
<1>1. i \in Ids /\ project[i] \in [name : Names, row : Rows] /\ project[i].row \in Rows /\ project[i] # NoServer
    BY DEF Alive, ProvidersTypeOK, Servers
<1>2. r \in Rows /\ r.id = project[i].row.id /\ r.managed = project[i].row.managed /\ r.state = s
    BY <1>1 DEF Rows
<1>3. t \in [name : Names, row : Rows] /\ t.row = r
    BY <1>1, <1>2
<1>4. project' = [project EXCEPT ![i] = t]
    BY <1>1 DEF ProvidersTypeOK
<1>5. t # NoServer
    BY <1>1, <1>2, <1>3 DEF NoServer, NoRow, Rows
<1> HIDE DEF t, r
<1> QED
    BY <1>1, <1>2, <1>3, <1>4, <1>5 DEF ProvidersTypeOK, Servers

(* Dropping a pin leaves a table of pins. *)
LEMMA UnpinnedTypes == ASSUME ProvidersTypeOK, NEW a PROVE Unpinned(a) \in [Addrs -> Ids \cup {NoId}]
BY DEF ProvidersTypeOK, Unpinned

(* A dial that gets through pins the server that answered. *)
LEMMA ReachedTypes == ASSUME ProvidersTypeOK, NEW a, Reached(a) PROVE pins' \in [Addrs -> Ids \cup {NoId}]
BY DEF ProvidersTypeOK, Reached, At

(* Noting an error changes nothing else of a job. *)
LEMMA ErrOnly ==
    ASSUME ProvidersTypeOK, NEW c \in Cmds
    PROVE  \E f \in Jobs : /\ f.made = job[c].made /\ f.said = job[c].said /\ f.row = job[c].row
                           /\ [job EXCEPT ![c].err = TRUE] = [job EXCEPT ![c] = f]
<1>1. job[c] \in Jobs
    BY DEF ProvidersTypeOK
<1>2. [job[c] EXCEPT !.err = TRUE] \in Jobs /\ [job[c] EXCEPT !.err = TRUE].made = job[c].made
      /\ [job[c] EXCEPT !.err = TRUE].said = job[c].said /\ [job[c] EXCEPT !.err = TRUE].row = job[c].row
    BY <1>1 DEF Jobs
<1>3. [job EXCEPT ![c].err = TRUE] = [job EXCEPT ![c] = [job[c] EXCEPT !.err = TRUE]]
    BY DEF ProvidersTypeOK
<1> QED
    BY <1>2, <1>3

(* A command's own row of the job table may change to any job. *)
LEMMA JobTypes ==
    ASSUME NEW c \in Cmds, ProvidersTypeOK, NEW f \in Jobs, job' = [job EXCEPT ![c] = f]
    PROVE  job' \in [Cmds -> Jobs] /\ job'[c] = f /\ \A d \in Cmds \ {c} : job'[d] = job[d]
BY DEF ProvidersTypeOK

(* Every step of a command keeps the types. *)
LEMMA CommandTypes == ASSUME ProvidersTypeOK, NEW c \in Cmds, Command(c) PROVE ProvidersTypeOK'
<1>1. job[c] \in Jobs /\ job[c].row \in Rows /\ job[c].name \in Names /\ job[c].listed \in [Names -> Rows]
      /\ job[c].made \in Ids \cup {NoId} /\ job[c].verb \in Verbs
    BY DEF ProvidersTypeOK, Jobs
<1>2. NoRow \in Rows
    BY DEF NoRow, Rows, Ids, NoId
<1>3. ASSUME NEW v \in Verbs, NEW n \in Names, Begin(c, v, n) PROVE ProvidersTypeOK'
    <2>1. [job[c] EXCEPT !.verb = v, !.name = n] \in Jobs
        BY <1>1 DEF Jobs
    <2>2. pc' \in [Cmds -> Points]
        BY <1>3, GoTypes DEF Begin, Points
    <2>3. job' = [job EXCEPT ![c] = [job[c] EXCEPT !.verb = v, !.name = n]]
        BY <1>3 DEF Begin, ProvidersTypeOK
    <2>4. job' \in [Cmds -> Jobs]
        BY <2>1, <2>3, JobTypes
    <2> QED
        BY <1>3, <2>2, <2>4 DEF Begin, ProvidersTypeOK, remote, hostVars
<1>4. ASSUME RefusedEarly(c) PROVE ProvidersTypeOK'
    BY <1>4, EndsTypes DEF RefusedEarly, Words, ProvidersTypeOK, remote, hostVars
<1>5. ASSUME Get(c) PROVE ProvidersTypeOK'
    <2>1. [job[c] EXCEPT !.row = RowOf(job[c].name)] \in Jobs
        BY <1>1, RowOfTypes DEF Jobs
    <2>2. CASE Go(c, "get", "merge") /\ job' = [job EXCEPT ![c].row = RowOf(job[c].name)]
        <3>1. pc' \in [Cmds -> Points]
            BY <2>2, GoTypes DEF Points
        <3>2. job' \in [Cmds -> Jobs]
            BY <2>1, <2>2, JobTypes DEF ProvidersTypeOK
        <3> QED
            BY <1>5, <3>1, <3>2 DEF Get, ProvidersTypeOK, remote, hostVars
    <2>3. CASE Ends(c, IF job[c].verb = "create" THEN "refused" ELSE "failed")
        BY <1>5, <2>3, EndsTypes DEF Get, Words, ProvidersTypeOK, remote, hostVars
    <2> QED
        BY <1>5, <2>2, <2>3 DEF Get
<1>6. ASSUME MergeGet(c) PROVE ProvidersTypeOK'
    <2>1. cache' \in [Names -> Rows]
        BY <1>1, <1>6, WrittenTypes DEF MergeGet, Merged, ProvidersTypeOK
    <2>2. CASE Ends(c, IF job[c].verb = "create" THEN "refused" ELSE "failed")
        BY <1>6, <2>1, <2>2, EndsTypes DEF MergeGet, Words, ProvidersTypeOK, remote, hostVars
    <2>3. ASSUME NEW to \in {"key", "confirm", "shape", "power"}, Go(c, "merge", to), UNCHANGED job PROVE ProvidersTypeOK'
        BY <1>6, <2>1, <2>3, GoTypes DEF MergeGet, Points, ProvidersTypeOK, remote, hostVars
    <2> QED
        BY <1>6, <2>2, <2>3 DEF MergeGet
<1>7. ASSUME EnsureKey(c) PROVE ProvidersTypeOK'
    <2>1. CASE Go(c, "key", "post") /\ UNCHANGED job
        BY <1>7, <2>1, GoTypes DEF EnsureKey, Points, ProvidersTypeOK, remote, hostVars
    <2>2. CASE Ends(c, "refused")
        BY <1>7, <2>2, EndsTypes DEF EnsureKey, Words, ProvidersTypeOK, remote, hostVars
    <2> QED
        BY <1>7, <2>1, <2>2 DEF EnsureKey
<1>8. ASSUME PostRefused(c) PROVE ProvidersTypeOK'
    BY <1>8, EndsTypes DEF PostRefused, NoServerErr, Words, ProvidersTypeOK, remote, hostVars
<1>9. ASSUME PostAccepted(c) PROVE ProvidersTypeOK'
    <2>1. PICK a \in Free \cup {NoAddr} : Make(job[c].name, TRUE, a)
        BY <1>9 DEF PostAccepted
    <2>2. a \in Addrs \cup {NoAddr}
        BY DEF Free
    <2>3. project' \in [Ids -> Servers] /\ next' \in 1..(MaxId + 1) /\ next \in Ids /\ project'[next].row \in Rows
        BY <1>1, <2>1, <2>2, MakeTypes
    <2>4. [job[c] EXCEPT !.made = next, !.row = project'[next].row] \in Jobs
        BY <1>1, <2>3 DEF Jobs
    <2>5. job' = [job EXCEPT ![c] = [job[c] EXCEPT !.made = next, !.row = project'[next].row]]
        BY <1>9 DEF PostAccepted, ProvidersTypeOK
    <2>6. job' \in [Cmds -> Jobs]
        BY <2>4, <2>5, JobTypes
    <2>7. pc' \in [Cmds -> Points]
        BY <1>9, GoTypes DEF PostAccepted, Points
    <2> QED
        BY <1>9, <2>3, <2>6, <2>7 DEF PostAccepted, ProvidersTypeOK, hostVars
<1>10. ASSUME PostLost(c) PROVE ProvidersTypeOK'
    <2>1. CASE UNCHANGED <<project, next>> /\ Ends(c, NoServerErr("transport"))
        BY <1>10, <2>1, EndsTypes DEF PostLost, NoServerErr, Words, ProvidersTypeOK, hostVars
    <2>2. CASE /\ \E a \in Free \cup {NoAddr} : Make(job[c].name, TRUE, a)
               /\ pc' = [pc EXCEPT ![c] = "done"]
               /\ job' = [job EXCEPT ![c] = [Fresh EXCEPT !.verb = "create", !.made = next,
                                                          !.said = NoServerErr("transport")]]
        <3>1. PICK a \in Free \cup {NoAddr} : Make(job[c].name, TRUE, a)
            BY <2>2
        <3>2. a \in Addrs \cup {NoAddr}
            BY DEF Free
        <3>3. project' \in [Ids -> Servers] /\ next' \in 1..(MaxId + 1) /\ next \in Ids
            BY <1>1, <3>1, <3>2, MakeTypes
        <3>4. [Fresh EXCEPT !.verb = "create", !.made = next, !.said = NoServerErr("transport")] \in Jobs
            BY <3>3, FreshIsAJob DEF Jobs, Verbs, NoServerErr
        <3>5. job' \in [Cmds -> Jobs]
            BY <2>2, <3>4, JobTypes
        <3>6. pc' \in [Cmds -> Points]
            BY <2>2 DEF ProvidersTypeOK, Points
        <3> QED
            BY <1>10, <3>3, <3>5, <3>6 DEF PostLost, ProvidersTypeOK, hostVars
    <2> QED
        BY <1>10, <2>1, <2>2 DEF PostLost
<1>11. ASSUME Await(c) PROVE ProvidersTypeOK'
    <2>1. pc' \in [Cmds -> Points]
        BY <1>11, GoTypes DEF Await, Points
    <2>2. CASE /\ Alive(job[c].made)
               /\ project' = [project EXCEPT ![job[c].made].row.state = "running"]
               /\ job' = [job EXCEPT ![c].row = project'[job[c].made].row]
        <3>1. /\ project' \in [Ids -> Servers] /\ project'[job[c].made].row \in Rows
            BY <2>2, PowerTypes DEF Rows
        <3>2. [job[c] EXCEPT !.row = project'[job[c].made].row] \in Jobs
            BY <1>1, <3>1 DEF Jobs
        <3>3. job' \in [Cmds -> Jobs]
            BY <2>2, <3>2, JobTypes DEF ProvidersTypeOK
        <3> QED
            BY <1>11, <2>1, <3>1, <3>3 DEF Await, ProvidersTypeOK, hostVars
    <2>3. CASE UNCHANGED project /\ job' = [job EXCEPT ![c].err = TRUE]
        <3>1. [job[c] EXCEPT !.err = TRUE] \in Jobs
            BY <1>1 DEF Jobs
        <3>2. job' \in [Cmds -> Jobs]
            BY <2>3, <3>1, JobTypes DEF ProvidersTypeOK
        <3> QED
            BY <1>11, <2>1, <2>3, <3>2 DEF Await, ProvidersTypeOK, hostVars
    <2> QED
        BY <1>11, <2>2, <2>3 DEF Await
<1>12. ASSUME MergeMade(c) PROVE ProvidersTypeOK'
    <2>1. cache' \in [Names -> Rows]
        BY <1>1, <1>12, WrittenTypes DEF MergeMade, Merged, ProvidersTypeOK
    <2>2. CASE Ends(c, "named")
        BY <1>12, <2>1, <2>2, EndsTypes DEF MergeMade, Words, ProvidersTypeOK, remote, hostVars
    <2>3. CASE Go(c, "made", "unpin") /\ UNCHANGED job
        BY <1>12, <2>1, <2>3, GoTypes DEF MergeMade, Points, ProvidersTypeOK, remote, hostVars
    <2> QED
        BY <1>12, <2>2, <2>3 DEF MergeMade
<1>13. ASSUME Unpin(c) PROVE ProvidersTypeOK'
    <2>1. pc' \in [Cmds -> Points]
        BY <1>13, GoTypes DEF Unpin, Points
    <2>2. CASE pins' = Unpinned(job[c].row.addr) /\ UNCHANGED job
        BY <1>13, <2>1, <2>2, UnpinnedTypes DEF Unpin, ProvidersTypeOK, remote
    <2>3. CASE UNCHANGED pins /\ job' = [job EXCEPT ![c].err = TRUE]
        <3>1. [job[c] EXCEPT !.err = TRUE] \in Jobs
            BY <1>1 DEF Jobs
        <3>2. job' \in [Cmds -> Jobs]
            BY <2>3, <3>1, JobTypes DEF ProvidersTypeOK
        <3> QED
            BY <1>13, <2>1, <2>3, <3>2 DEF Unpin, ProvidersTypeOK, remote
    <2> QED
        BY <1>13, <2>2, <2>3 DEF Unpin
<1>14. ASSUME Shape(c) PROVE ProvidersTypeOK'
    <2>1. CASE Reached(job[c].row.addr) /\ saved' \in {saved, saved \cup {job[c].name}} /\ Ends(c, "done")
        <3>1. pins' \in [Addrs -> Ids \cup {NoId}] /\ saved' \subseteq Names
            BY <1>1, <2>1, ReachedTypes DEF ProvidersTypeOK
        <3> QED
            BY <1>14, <2>1, <3>1, EndsTypes DEF Shape, Words, ProvidersTypeOK, remote
    <2>2. CASE /\ Ends(c, IF job[c].verb = "create" THEN "named" ELSE "failed")
               /\ UNCHANGED <<pins, saved>>
        BY <1>14, <2>2, EndsTypes DEF Shape, Words, ProvidersTypeOK, remote
    <2> QED
        BY <1>14, <2>1, <2>2 DEF Shape
<1>15. ASSUME Confirm(c) PROVE ProvidersTypeOK'
    <2>1. CASE Go(c, "confirm", "delete") /\ daemon' = daemon \ {job[c].name} /\ UNCHANGED job
        BY <1>15, <2>1, GoTypes DEF Confirm, Points, ProvidersTypeOK, remote
    <2>2. CASE Ends(c, "failed") /\ UNCHANGED daemon
        BY <1>15, <2>2, EndsTypes DEF Confirm, Words, ProvidersTypeOK, remote
    <2> QED
        BY <1>15, <2>1, <2>2 DEF Confirm
<1>16. ASSUME DeleteCall(c) PROVE ProvidersTypeOK'
    <2>1. project' \in [Ids -> Servers]
        BY <1>16 DEF DeleteCall, ProvidersTypeOK, Servers
    <2>2. CASE Go(c, "delete", "drop") /\ UNCHANGED job
        BY <1>16, <2>1, <2>2, GoTypes DEF DeleteCall, Points, ProvidersTypeOK, hostVars
    <2>3. CASE Ends(c, "failed")
        BY <1>16, <2>1, <2>3, EndsTypes DEF DeleteCall, Words, ProvidersTypeOK, hostVars
    <2> QED
        BY <1>16, <2>2, <2>3 DEF DeleteCall
<1>17. ASSUME DropRow(c) PROVE ProvidersTypeOK'
    <2>1. cache' \in [Names -> Rows]
        BY <1>1, <1>2, <1>17, WrittenTypes DEF DropRow, Merged, ProvidersTypeOK
    <2> QED
        BY <1>17, <2>1, GoTypes DEF DropRow, Points, ProvidersTypeOK, remote, hostVars
<1>18. ASSUME Forget(c) PROVE ProvidersTypeOK'
    <2>1. saved' \subseteq Names /\ pins' \in [Addrs -> Ids \cup {NoId}]
        BY <1>18, UnpinnedTypes DEF Forget, ProvidersTypeOK
    <2>2. ASSUME NEW w \in {"done", "failed"}, Ends(c, w) PROVE ProvidersTypeOK'
        BY <1>18, <2>1, <2>2, EndsTypes DEF Forget, Words, ProvidersTypeOK, remote
    <2> QED
        BY <1>18, <2>2 DEF Forget
<1>19. ASSUME AfterPower(c), NEW s, TRUE PROVE pc' \in [Cmds -> Points] /\ job' \in [Cmds -> Jobs]
    <2>1. CASE Ends(c, "done")
        BY <2>1, EndsTypes DEF Words
    <2>2. CASE pc' = [pc EXCEPT ![c] = "resume"] /\ UNCHANGED job
        BY <2>2 DEF ProvidersTypeOK, Points
    <2> QED
        BY <1>19, <2>1, <2>2 DEF AfterPower
<1>20. ASSUME Power(c) PROVE ProvidersTypeOK'
    <2>1. daemon' \subseteq Names
        BY <1>20 DEF Power, ProvidersTypeOK
    <2>2. pc' \in [Cmds -> Points] /\ job' \in [Cmds -> Jobs]
        <3>1. CASE AfterPower(c)
            BY <1>19, <3>1
        <3>2. CASE Go(c, "power", "act") /\ UNCHANGED job
            BY <3>2, GoTypes DEF Points, ProvidersTypeOK
        <3>3. CASE Ends(c, "failed")
            BY <3>3, EndsTypes DEF Words
        <3> QED
            BY <1>20, <3>1, <3>2, <3>3 DEF Power
    <2> QED
        BY <1>20, <2>1, <2>2 DEF Power, ProvidersTypeOK, remote
<1>21. ASSUME PowerCall(c) PROVE ProvidersTypeOK'
    <2>1. project' \in [Ids -> Servers]
        <3>1. CASE project' = project
            BY <3>1 DEF ProvidersTypeOK
        <3>2. CASE Alive(job[c].row.id) /\ project' = [project EXCEPT ![job[c].row.id].row.state = Want(c)]
            BY <3>2, PowerTypes DEF Want
        <3> QED
            BY <1>21, <3>1, <3>2 DEF PowerCall
    <2>2. CASE Go(c, "act", "record") /\ UNCHANGED job
        BY <1>21, <2>1, <2>2, GoTypes DEF PowerCall, Points, ProvidersTypeOK, hostVars
    <2>3. CASE Ends(c, "failed")
        BY <1>21, <2>1, <2>3, EndsTypes DEF PowerCall, Words, ProvidersTypeOK, hostVars
    <2> QED
        BY <1>21, <2>2, <2>3 DEF PowerCall
<1>22. ASSUME SetState(c) PROVE ProvidersTypeOK'
    <2>1. cache[job[c].name] \in Rows
        BY <1>1 DEF ProvidersTypeOK
    <2>2. [cache[job[c].name] EXCEPT !.state = Want(c)] \in Rows
        BY <2>1 DEF Rows, Want
    <2>3. cache' \in [Names -> Rows]
        BY <1>1, <1>22, <2>2 DEF SetState, ProvidersTypeOK
    <2>4. pc' \in [Cmds -> Points] /\ job' \in [Cmds -> Jobs]
        BY <1>19, <1>22 DEF SetState
    <2> QED
        BY <1>22, <2>3, <2>4 DEF SetState, ProvidersTypeOK, remote, hostVars
<1>23. ASSUME Resume(c) PROVE ProvidersTypeOK'
    <2>1. pins' \in [Addrs -> Ids \cup {NoId}] /\ daemon' \subseteq Names /\ saved' = saved
        BY <1>1, <1>23, ReachedTypes DEF Resume, ProvidersTypeOK, hostVars
    <2>2. ASSUME NEW w \in {"done", "failed"}, Ends(c, w) PROVE ProvidersTypeOK'
        BY <1>23, <2>1, <2>2, EndsTypes DEF Resume, Words, ProvidersTypeOK, remote
    <2> QED
        BY <1>23, <2>2 DEF Resume
<1>24. ASSUME ListCall(c) PROVE ProvidersTypeOK'
    <2>1. [n \in Names |-> RowOf(n)] \in [Names -> Rows]
        BY RowOfTypes
    <2>2. [job[c] EXCEPT !.listed = [n \in Names |-> RowOf(n)]] \in Jobs
        BY <1>1, <2>1 DEF Jobs
    <2>3. [job[c] EXCEPT !.err = TRUE] \in Jobs
        BY <1>1 DEF Jobs
    <2>4. job' \in [Cmds -> Jobs]
        <3>1. CASE job' = [job EXCEPT ![c].listed = [n \in Names |-> RowOf(n)]]
            BY <2>2, <3>1, JobTypes DEF ProvidersTypeOK
        <3>2. CASE job' = [job EXCEPT ![c].err = TRUE]
            BY <2>3, <3>2, JobTypes DEF ProvidersTypeOK
        <3> QED
            BY <1>24, <3>1, <3>2 DEF ListCall
    <2> QED
        BY <1>24, <2>4, GoTypes DEF ListCall, Points, ProvidersTypeOK, remote, hostVars
<1>25. ASSUME Record(c) PROVE ProvidersTypeOK'
    <2>1. [n \in Names |-> Written(job[c].listed[n])] \in [Names -> Rows]
        BY <1>1, WrittenTypes
    <2>2. cache' \in [Names -> Rows]
        BY <1>25, <2>1 DEF Record, ProvidersTypeOK
    <2> QED
        BY <1>25, <2>2, EndsTypes DEF Record, Words, ProvidersTypeOK, remote, hostVars
<1>26. ASSUME Return(c) PROVE ProvidersTypeOK'
    <2>1. job' \in [Cmds -> Jobs]
        BY <1>26, FreshIsAJob, JobTypes DEF Return
    <2> QED
        BY <1>26, <2>1, GoTypes DEF Return, Points, ProvidersTypeOK, remote, hostVars
<1> QED
    BY <1>3, <1>4, <1>5, <1>6, <1>7, <1>8, <1>9, <1>10, <1>11, <1>12, <1>13, <1>14, <1>15, <1>16, <1>17, <1>18,
       <1>20, <1>21, <1>22, <1>23, <1>24, <1>25, <1>26 DEF Command

(* So does every step at the provider, and a step that changes nothing. *)
LEMMA ProvidersTypes == ASSUME ProvidersTypeOK, [ProvidersNext]_pvars PROVE ProvidersTypeOK'
<1>1. ASSUME NEW n \in Names, NEW m \in BOOLEAN, NEW a \in Addrs \cup {NoAddr}, ConsoleCreate(n, m, a)
      PROVE  ProvidersTypeOK'
    BY <1>1, MakeTypes DEF ConsoleCreate, ProvidersTypeOK, hostVars
<1>2. ASSUME NEW i \in Ids, ConsoleDelete(i) PROVE ProvidersTypeOK'
    BY <1>2 DEF ConsoleDelete, ProvidersTypeOK, Servers, hostVars
<1>3. ASSUME NEW i \in Ids, Boots(i) PROVE ProvidersTypeOK'
    BY <1>3, PowerTypes DEF Boots, ProvidersTypeOK, hostVars
<1>4. CASE UNCHANGED pvars
    BY <1>4 DEF ProvidersTypeOK, pvars
<1> QED
    BY <1>1, <1>2, <1>3, <1>4, CommandTypes DEF ProvidersNext, Console

(* Where the commands and the providers start. *)
LEMMA ProvidersInitTypes == ProvidersInit => ProvidersTypeOK
<1>1. NoRow \in Rows
    BY DEF NoRow, Rows, Ids, NoId
<1>2. 1 \in 1..(MaxId + 1)
    BY ProvidersAssumption
<1> QED
    BY <1>1, <1>2, FreshIsAJob DEF ProvidersInit, ProvidersTypeOK, Servers, Points

(***************************************************************************)
(* Creates.                                                                *)
(***************************************************************************)

(* Before its POST, and while it only asks, a command has made nothing. *)
NoneMadeYet == \A c \in Cmds : pc[c] \in {"idle", "get", "merge", "key", "post"} => job[c].made = NoId

(* A command has said nothing until it ends. *)
QuietYet == \A c \in Cmds : pc[c] # "done" => job[c].said = ""

CreateInv == ProvidersTypeOK /\ NoneMadeYet /\ QuietYet /\ CreateSaysSo

(* A step at the provider, or of another command, leaves the account. *)
LEMMA CreateInductive == ASSUME CreateInv, [ProvidersNext]_pvars PROVE CreateInv'
<1> DEFINE Early == {"idle", "get", "merge", "key", "post"}
           Fine(d) == /\ pc'[d] \in Early => job'[d].made = NoId
                      /\ pc'[d] # "done" => job'[d].said = ""
                      /\ job'[d].said = "refused" => job'[d].made = NoId
<1>1. ProvidersTypeOK'
    BY ProvidersTypes DEF CreateInv
<1>2. ASSUME NEW d \in Cmds, job'[d] = job[d], pc'[d] = pc[d] PROVE Fine(d)
    BY <1>2 DEF CreateInv, NoneMadeYet, QuietYet, CreateSaysSo
<1>3. ASSUME NEW c \in Cmds, NEW w \in Words, Ends(c, w), w = "refused" => pc[c] \in Early
      PROVE  \A d \in Cmds : Fine(d)
    <2>1. ProvidersTypeOK
        BY DEF CreateInv
    <2>2. /\ job'[c].made = job[c].made /\ job'[c].said = w /\ pc'[c] = "done"
          /\ \A d \in Cmds \ {c} : job'[d] = job[d] /\ pc'[d] = pc[d]
        BY <1>3, <2>1, EndsTypes
    <2>3. Fine(c)
        BY <1>3, <2>2 DEF CreateInv, NoneMadeYet
    <2>4. \A d \in Cmds \ {c} : Fine(d)
        BY <1>2, <2>2
    <2> HIDE DEF Fine
    <2> QED
        BY <2>3, <2>4
<1>4. ASSUME NEW c \in Cmds, NEW from, NEW to, Go(c, from, to), UNCHANGED job, to \in Early => from \in Early,
             from # "done"
      PROVE  \A d \in Cmds : Fine(d)
    BY <1>4 DEF Go, CreateInv, ProvidersTypeOK, NoneMadeYet, QuietYet, CreateSaysSo
<1>5. ASSUME NEW c \in Cmds, NEW from, NEW to, Go(c, from, to), from \in Early \/ to \notin Early, from # "done",
             NEW f \in Jobs, f.made = job[c].made, f.said = job[c].said, job' = [job EXCEPT ![c] = f]
      PROVE  \A d \in Cmds : Fine(d)
    BY <1>5 DEF Go, CreateInv, ProvidersTypeOK, NoneMadeYet, QuietYet, CreateSaysSo
<1>6. ASSUME NEW c \in Cmds, Command(c) PROVE \A d \in Cmds : Fine(d)
    <2>1. job[c] \in Jobs
        BY DEF CreateInv, ProvidersTypeOK
    <2>2. ASSUME NEW v \in Verbs, NEW n \in Names, Begin(c, v, n) PROVE \A d \in Cmds : Fine(d)
        <3>1. [job[c] EXCEPT !.verb = v, !.name = n] \in Jobs
            BY <2>1 DEF Jobs
        <3>2. job' = [job EXCEPT ![c] = [job[c] EXCEPT !.verb = v, !.name = n]]
            BY <2>2 DEF Begin, CreateInv, ProvidersTypeOK
        <3>3. [job[c] EXCEPT !.verb = v, !.name = n].made = job[c].made
              /\ [job[c] EXCEPT !.verb = v, !.name = n].said = job[c].said
            BY <2>1 DEF Jobs
        <3> QED
            BY <1>5, <2>2, <3>1, <3>2, <3>3 DEF Begin
    <2>3. CASE RefusedEarly(c)
        BY <1>3, <2>3 DEF RefusedEarly, Words
    <2>4. CASE Get(c)
        <3>1. CASE Ends(c, IF job[c].verb = "create" THEN "refused" ELSE "failed")
            BY <1>3, <2>4, <3>1 DEF Get, Words
        <3>2. CASE Go(c, "get", "merge") /\ job' = [job EXCEPT ![c].row = RowOf(job[c].name)]
            <4>1. [job[c] EXCEPT !.row = RowOf(job[c].name)] \in Jobs
                BY <2>1, RowOfTypes DEF Jobs, CreateInv
            <4>2. job' = [job EXCEPT ![c] = [job[c] EXCEPT !.row = RowOf(job[c].name)]]
                BY <3>2 DEF CreateInv, ProvidersTypeOK
            <4>3. [job[c] EXCEPT !.row = RowOf(job[c].name)].made = job[c].made
                  /\ [job[c] EXCEPT !.row = RowOf(job[c].name)].said = job[c].said
                BY <2>1 DEF Jobs
            <4> QED
                BY <1>5, <3>2, <4>1, <4>2, <4>3
        <3> QED
            BY <2>4, <3>1, <3>2 DEF Get
    <2>5. CASE MergeGet(c)
        <3>1. CASE Ends(c, IF job[c].verb = "create" THEN "refused" ELSE "failed")
            BY <1>3, <2>5, <3>1 DEF MergeGet, Words
        <3>2. ASSUME NEW to, Go(c, "merge", to), UNCHANGED job PROVE \A d \in Cmds : Fine(d)
            BY <1>4, <3>2
        <3> QED
            BY <2>5, <3>1, <3>2 DEF MergeGet
    <2>6. CASE EnsureKey(c)
        <3>1. CASE Ends(c, "refused")
            BY <1>3, <2>6, <3>1 DEF EnsureKey, Words
        <3>2. CASE Go(c, "key", "post") /\ UNCHANGED job
            BY <1>4, <3>2
        <3> QED
            BY <2>6, <3>1, <3>2 DEF EnsureKey
    <2>7. CASE PostRefused(c)
        BY <1>3, <2>7 DEF PostRefused, NoServerErr, Words
    <2>8. CASE PostAccepted(c)
        <3>1. pc' = [pc EXCEPT ![c] = "await"] /\ pc[c] = "post"
            BY <2>8 DEF PostAccepted, Go
        <3>2. job' = [job EXCEPT ![c] = [job[c] EXCEPT !.made = next, !.row = project'[next].row]]
            BY <2>8 DEF PostAccepted, CreateInv, ProvidersTypeOK
        <3>3. job[c].made = NoId
            BY <3>1 DEF CreateInv, NoneMadeYet
        <3>4. job[c].said = ""
            BY <3>1 DEF CreateInv, QuietYet
        <3> QED
            <4> DEFINE f == [job[c] EXCEPT !.made = next, !.row = project'[next].row]
            <4>1. f.said = ""
                BY <2>1, <3>4 DEF Jobs
            <4>2. job' = [job EXCEPT ![c] = f]
                BY <3>2
            <4> HIDE DEF f
            <4>3. Fine(c)
                BY <3>1, <4>1, <4>2 DEF CreateInv, ProvidersTypeOK
            <4>4. \A d \in Cmds \ {c} : job'[d] = job[d] /\ pc'[d] = pc[d]
                BY <3>1, <4>2 DEF CreateInv, ProvidersTypeOK
            <4>5. \A d \in Cmds \ {c} : Fine(d)
                BY <1>2, <4>4
            <4> HIDE DEF Fine
            <4> QED
                BY <4>3, <4>5
    <2>9. CASE PostLost(c)
        <3>1. CASE Ends(c, NoServerErr("transport"))
            BY <1>3, <3>1 DEF NoServerErr, Words
        <3>2. CASE /\ pc' = [pc EXCEPT ![c] = "done"]
                   /\ job' = [job EXCEPT ![c] = [Fresh EXCEPT !.verb = "create", !.made = next,
                                                              !.said = NoServerErr("transport")]]
            <4>1. [Fresh EXCEPT !.verb = "create", !.made = next, !.said = NoServerErr("transport")].said = "maybe"
                BY FreshIsAJob DEF Jobs, NoServerErr
            <4> HIDE DEF Fine
            <4>2. job'[c].said = "maybe" /\ pc'[c] = "done" /\ \A d \in Cmds \ {c} : job'[d] = job[d] /\ pc'[d] = pc[d]
                BY <3>2, <4>1 DEF CreateInv, ProvidersTypeOK
            <4> USE DEF Fine
            <4> QED
                BY <1>2, <4>2
        <3> QED
            BY <2>9, <3>1, <3>2 DEF PostLost
    <2>10. CASE Await(c)
        <3>1. CASE job' = [job EXCEPT ![c].row = project'[job[c].made].row] /\ Alive(job[c].made)
                   /\ project' = [project EXCEPT ![job[c].made].row.state = "running"]
            <4>0. project'[job[c].made].row \in Rows
                BY <3>1, PowerTypes DEF CreateInv
            <4>1. [job[c] EXCEPT !.row = project'[job[c].made].row] \in Jobs
                BY <2>1, <4>0 DEF Jobs
            <4>2. job' = [job EXCEPT ![c] = [job[c] EXCEPT !.row = project'[job[c].made].row]]
                BY <3>1 DEF CreateInv, ProvidersTypeOK
            <4>3. [job[c] EXCEPT !.row = project'[job[c].made].row].made = job[c].made
                  /\ [job[c] EXCEPT !.row = project'[job[c].made].row].said = job[c].said
                BY <2>1 DEF Jobs
            <4> QED
                BY <1>5, <2>10, <4>1, <4>2, <4>3 DEF Await
        <3>2. CASE job' = [job EXCEPT ![c].err = TRUE]
            BY <1>5, <2>10, <3>2, <2>1, ErrOnly DEF Await, CreateInv
        <3> QED
            BY <2>10, <3>1, <3>2 DEF Await
    <2>11. CASE MergeMade(c)
        <3>1. CASE Ends(c, "named")
            BY <1>3, <3>1 DEF Words
        <3>2. CASE Go(c, "made", "unpin") /\ UNCHANGED job
            BY <1>4, <3>2
        <3> QED
            BY <2>11, <3>1, <3>2 DEF MergeMade
    <2>12. CASE Unpin(c)
        <3>1. CASE UNCHANGED job
            BY <1>4, <2>12, <3>1 DEF Unpin
        <3>2. CASE job' = [job EXCEPT ![c].err = TRUE]
            BY <1>5, <2>12, <3>2, <2>1, ErrOnly DEF Unpin, CreateInv
        <3> QED
            BY <2>12, <3>1, <3>2 DEF Unpin
    <2>13. CASE Shape(c)
        BY <1>3, <2>13 DEF Shape, Words
    <2>14. CASE Confirm(c)
        BY <1>3, <1>4, <2>14 DEF Confirm, Words
    <2>15. CASE DeleteCall(c)
        BY <1>3, <1>4, <2>15 DEF DeleteCall, Words
    <2>16. CASE DropRow(c)
        BY <1>4, <2>16 DEF DropRow
    <2>17. CASE Forget(c)
        BY <1>3, <2>17 DEF Forget, Words
    <2>18. CASE AfterPower(c) /\ pc[c] \in {"power", "record"}
        BY <1>3, <1>4, <2>18, ZenonT(40) DEF AfterPower, Go, Words
    <2>19. CASE Power(c)
        BY <1>3, <1>4, <2>18, <2>19 DEF Power, Words
    <2>20. CASE PowerCall(c)
        BY <1>3, <1>4, <2>20 DEF PowerCall, Words
    <2>21. CASE SetState(c)
        BY <2>18, <2>21 DEF SetState
    <2>22. CASE Resume(c)
        BY <1>3, <2>22 DEF Resume, Words
    <2>23. CASE ListCall(c)
        <3>1. CASE job' = [job EXCEPT ![c].err = TRUE]
            BY <1>5, <2>23, <3>1, <2>1, ErrOnly DEF ListCall, CreateInv
        <3>2. CASE job' = [job EXCEPT ![c].listed = [n \in Names |-> RowOf(n)]]
            <4> DEFINE f == [job[c] EXCEPT !.listed = [n \in Names |-> RowOf(n)]]
            <4>1. [n \in Names |-> RowOf(n)] \in [Names -> Rows]
                BY RowOfTypes DEF CreateInv
            <4>2. f \in Jobs /\ f.made = job[c].made /\ f.said = job[c].said
                BY <2>1, <4>1 DEF Jobs
            <4>3. job' = [job EXCEPT ![c] = f]
                BY <3>2 DEF CreateInv, ProvidersTypeOK
            <4>4. Go(c, "list", "listed")
                BY <2>23 DEF ListCall
            <4> HIDE DEF f
            <4> QED
                BY <1>5, <4>2, <4>3, <4>4
        <3> QED
            BY <2>23, <3>1, <3>2 DEF ListCall
    <2>24. CASE Record(c)
        BY <1>3, <2>24 DEF Record, Words
    <2>25. CASE Return(c)
        BY <1>2, <2>25, FreshIsAJob DEF Return, Go, CreateInv, ProvidersTypeOK
    <2> HIDE DEF Fine
    <2> QED
        BY <1>6, <2>2, <2>3, <2>4, <2>5, <2>6, <2>7, <2>8, <2>9, <2>10, <2>11, <2>12, <2>13, <2>14, <2>15, <2>16,
           <2>17, <2>19, <2>20, <2>21, <2>22, <2>23, <2>24, <2>25 DEF Command
<1>7. ASSUME UNCHANGED <<pc, job>> PROVE \A d \in Cmds : Fine(d)
    <2>1. \A d \in Cmds : job'[d] = job[d] /\ pc'[d] = pc[d]
        BY <1>7
    <2> QED
        BY <1>2, <2>1
<1>9. CreateInv' <=> ProvidersTypeOK' /\ \A d \in Cmds : Fine(d)
    BY DEF CreateInv, NoneMadeYet, QuietYet, CreateSaysSo
<1> HIDE DEF Fine
<1>8. \A d \in Cmds : Fine(d)
    BY <1>6, <1>7 DEF ProvidersNext, Console, ConsoleCreate, ConsoleDelete, Boots, pvars
<1> QED
    BY <1>1, <1>8, <1>9

(* A create that tells its user no server was made has made none, wherever *)
(* the answer to its request was lost (createNoServerErr), for any number  *)
(* of commands, names, addresses and servers.                              *)
THEOREM CreatesSaySo == ProvidersSpec => []CreateSaysSo
<1>1. ProvidersInit => CreateInv
    BY ProvidersInitTypes, FreshIsAJob DEF ProvidersInit, CreateInv, NoneMadeYet, QuietYet, CreateSaysSo
<1>2. CreateInv /\ [ProvidersNext]_pvars => CreateInv'
    BY CreateInductive
<1>3. CreateInv => CreateSaysSo
    BY DEF CreateInv
<1> QED
    BY <1>1, <1>2, <1>3, PTL DEF ProvidersSpec

(***************************************************************************)
(* Deletes.                                                                *)
(***************************************************************************)

(* A server keeps the number it got when it was made, and numbers are      *)
(* given out once.                                                         *)
ServersNumbered == \A i \in Ids : IF i < next THEN Alive(i) => project[i].row.id = i ELSE project[i] = NoServer

(* What a command holds of a server is true of it as long as it lives. *)
Fits(r, n, p) == r.id # NoId => r.id < n /\ (p[r.id] # NoServer => p[r.id].row.managed = r.managed)
RowsFit == \A c \in Cmds : Fits(job[c].row, next, project)

(* Only a managed server is asked about, and deleted. *)
ConfirmedRows == \A c \in Cmds : pc[c] \in {"confirm", "delete"} => job[c].row.managed

DeleteInv == ProvidersTypeOK /\ ServersNumbered /\ RowsFit /\ ConfirmedRows

(* What one step can do to the project: end servers and change the state   *)
(* of others, or make one.                                                 *)
SameServers == /\ next' = next
               /\ \A i \in Ids : \/ project'[i] = NoServer
                                 \/ /\ Alive(i) /\ project'[i].row.id = project[i].row.id
                                    /\ project'[i].row.managed = project[i].row.managed
OneMore == /\ next \in Ids /\ next' = next + 1 /\ project'[next].row.id = next
           /\ \A i \in Ids \ {next} : project'[i] = project[i]

(* A project that stays, or loses a server, has the same servers or fewer. *)
LEMMA FewerServers ==
    ASSUME ProvidersTypeOK, next' = next, NEW i,
           project' \in {project, [project EXCEPT ![i] = NoServer]}
    PROVE  SameServers
BY DEF SameServers, ProvidersTypeOK, Alive

(* A server that boots, starts or stops stays the server it was. *)
LEMMA PowerKeepsServers ==
    ASSUME ProvidersTypeOK, next' = next, NEW i, Alive(i), NEW s \in {"starting", "running", "stopped"},
           project' = [project EXCEPT ![i].row.state = s]
    PROVE  SameServers
BY PowerTypes DEF SameServers, ProvidersTypeOK, Alive

(* A step changes no server, or makes or deletes one. *)
LEMMA ServersStep == ASSUME ProvidersTypeOK, [ProvidersNext]_pvars PROVE SameServers \/ OneMore
<1>1. ASSUME UNCHANGED <<project, next>> PROVE SameServers
    BY <1>1, FewerServers
<1>2. ASSUME NEW n \in Names, NEW m \in BOOLEAN, NEW a \in Addrs \cup {NoAddr}, Make(n, m, a) PROVE OneMore
    <2>1. /\ next' = next + 1 /\ next \in Ids /\ \A i \in Ids \ {next} : project'[i] = project[i]
          /\ project'[next].row = [id |-> next, managed |-> m, state |-> "starting", addr |-> a]
        BY <1>2, MakeTypes
    <2>2. project'[next].row.id = next
        BY <2>1
    <2> QED
        BY <2>1, <2>2 DEF OneMore
<1>3. ASSUME NEW c \in Cmds, Command(c) PROVE SameServers \/ OneMore
    <2>0. job[c].name \in Names
        BY DEF ProvidersTypeOK, Jobs
    <2>1. CASE \E a \in Free \cup {NoAddr} : Make(job[c].name, TRUE, a)
        BY <1>2, <2>0, <2>1 DEF Free
    <2>2. CASE PostAccepted(c) \/ PostLost(c)
        BY <1>1, <2>1, <2>2 DEF PostAccepted, PostLost
    <2>3. CASE Await(c)
        BY <1>1, <2>3, PowerKeepsServers DEF Await
    <2>4. CASE DeleteCall(c)
        BY <2>4, FewerServers DEF DeleteCall
    <2>5. CASE PowerCall(c)
        <3>1. next' = next
            BY <2>5 DEF PowerCall
        <3>2. CASE project' = project
            BY <1>1, <3>1, <3>2
        <3>3. CASE Alive(job[c].row.id) /\ project' = [project EXCEPT ![job[c].row.id].row.state = Want(c)]
            BY <3>1, <3>3, PowerKeepsServers DEF Want
        <3> QED
            BY <2>5, <3>2, <3>3 DEF PowerCall
    <2>6. CASE UNCHANGED <<project, next>>
        BY <1>1, <2>6
    <2> QED
        BY <1>3, <2>2, <2>3, <2>4, <2>5, <2>6
           DEF Command, Begin, RefusedEarly, Get, MergeGet, EnsureKey, PostRefused, MergeMade, Unpin, Shape, Confirm,
               DropRow, Forget, Power, SetState, Resume, ListCall, Record, Return, remote
<1>4. CASE Console
    BY <1>2, <1>4, FewerServers, PowerKeepsServers DEF Console, ConsoleCreate, ConsoleDelete, Boots
<1> QED
    BY <1>1, <1>3, <1>4 DEF ProvidersNext, pvars

(* What a command holds stays true. *)
LEMMA FitsStays ==
    ASSUME ProvidersTypeOK, SameServers \/ OneMore, NEW r \in Rows, Fits(r, next, project)
    PROVE  Fits(r, next', project')
<1>1. r.id \in Ids \cup {NoId}
    BY DEF Rows
<1>2. CASE SameServers
    BY <1>1, <1>2 DEF SameServers, Fits, Alive
<1>3. CASE OneMore
    BY <1>1, <1>3 DEF OneMore, Fits, Ids
<1> QED
    BY <1>2, <1>3

(* The answer to a lookup is true when it is given. *)
LEMMA AnswersFit == ASSUME ProvidersTypeOK, ServersNumbered, NEW n PROVE Fits(RowOf(n), next, project)
<1>1. CASE Named(n) = {}
    BY <1>1 DEF RowOf, NoRow, Fits, NoId
<1>2. CASE Named(n) # {}
    <2>1. PICK k \in Named(n) : RowOf(n) = project[k].row
        BY <1>2 DEF RowOf
    <2>2. k \in Ids /\ Alive(k)
        BY <2>1 DEF Named
    <2>3. k < next /\ project[k].row.id = k
        BY <2>2 DEF ServersNumbered, Alive
    <2> QED
        BY <2>1, <2>2, <2>3 DEF Fits
<1> QED
    BY <1>1, <1>2

(* A step of a command moves that command only. *)
LEMMA OthersStay ==
    ASSUME ProvidersTypeOK, NEW c \in Cmds, Command(c), NEW d \in Cmds \ {c}
    PROVE  pc'[d] = pc[d] /\ job'[d] = job[d]
<1>1. ASSUME NEW w, Ends(c, w) PROVE pc'[d] = pc[d] /\ job'[d] = job[d]
    BY <1>1 DEF Ends, ProvidersTypeOK
<1>2. ASSUME NEW from, NEW to, Go(c, from, to) PROVE pc'[d] = pc[d]
    BY <1>2 DEF Go, ProvidersTypeOK
<1>3. CASE \E v \in Verbs, n \in Names : Begin(c, v, n)
    BY <1>2, <1>3 DEF Begin, ProvidersTypeOK
<1>4. CASE RefusedEarly(c) \/ EnsureKey(c) \/ PostRefused(c) \/ Shape(c) \/ Confirm(c) \/ DeleteCall(c)
           \/ Forget(c) \/ PowerCall(c) \/ Resume(c) \/ Record(c) \/ DropRow(c)
    BY <1>1, <1>2, <1>4
       DEF RefusedEarly, EnsureKey, PostRefused, Shape, Confirm, DeleteCall, Forget, PowerCall, Resume, Record, DropRow
<1>5. CASE Get(c)
    BY <1>1, <1>2, <1>5 DEF Get, ProvidersTypeOK
<1>6. CASE MergeGet(c) \/ MergeMade(c)
    BY <1>1, <1>2, <1>6 DEF MergeGet, MergeMade
<1>7. CASE PostAccepted(c)
    BY <1>2, <1>7 DEF PostAccepted, ProvidersTypeOK
<1>8. CASE PostLost(c)
    BY <1>1, <1>8 DEF PostLost, ProvidersTypeOK
<1>9. CASE Await(c) \/ Unpin(c) \/ ListCall(c) \/ Return(c)
    BY <1>2, <1>9 DEF Await, Unpin, ListCall, Return, ProvidersTypeOK
<1>10. ASSUME AfterPower(c) PROVE pc'[d] = pc[d] /\ job'[d] = job[d]
    BY <1>1, <1>10 DEF AfterPower, ProvidersTypeOK
<1>11. CASE Power(c) \/ SetState(c)
    BY <1>1, <1>2, <1>10, <1>11 DEF Power, SetState
<1> QED
    BY <1>3, <1>4, <1>5, <1>6, <1>7, <1>8, <1>9, <1>11 DEF Command

(* What a command holds after its own step is true then, and it has a      *)
(* managed server when it asks or is about to delete.                      *)
LEMMA OwnRowFits ==
    ASSUME DeleteInv, NEW c \in Cmds, Command(c), SameServers \/ OneMore
    PROVE  /\ Fits(job'[c].row, next', project')
           /\ pc'[c] \in {"confirm", "delete"} => job'[c].row.managed
<1> DEFINE Goal == /\ Fits(job'[c].row, next', project')
                   /\ pc'[c] \in {"confirm", "delete"} => job'[c].row.managed
<1>0. job[c] \in Jobs /\ job[c].row \in Rows /\ ProvidersTypeOK
    BY DEF DeleteInv, ProvidersTypeOK, Jobs
<1>1. Fits(job[c].row, next', project')
    BY <1>0, FitsStays DEF DeleteInv, RowsFit
<1>2. Fits(NoRow, next', project')
    BY DEF Fits, NoRow
<1>3. ASSUME NEW w \in Words, Ends(c, w) PROVE Goal
    BY <1>0, <1>2, <1>3, EndsTypes
<1>4. ASSUME NEW from, NEW to, to \notin {"confirm", "delete"}, Go(c, from, to), job'[c].row = job[c].row
      PROVE  Goal
    BY <1>0, <1>1, <1>4 DEF Go, ProvidersTypeOK
<1>5. ASSUME job' = job \/ job' = [job EXCEPT ![c].err = TRUE] PROVE job'[c].row = job[c].row
    <2>1. PICK f \in Jobs : f.row = job[c].row /\ [job EXCEPT ![c].err = TRUE] = [job EXCEPT ![c] = f]
        BY <1>0, ErrOnly
    <2> QED
        BY <1>0, <1>5, <2>1 DEF ProvidersTypeOK
<1>6. CASE \E v \in Verbs, n \in Names : Begin(c, v, n)
    <2>1. PICK v \in Verbs, n \in Names : Begin(c, v, n)
        BY <1>6
    <2>2. job'[c].row = job[c].row
        BY <1>0, <2>1 DEF Begin, ProvidersTypeOK, Jobs
    <2> QED
        BY <1>4, <2>1, <2>2 DEF Begin
<1>7. CASE RefusedEarly(c) \/ PostRefused(c) \/ Shape(c) \/ Forget(c) \/ Resume(c) \/ Record(c)
    BY <1>3, <1>7 DEF RefusedEarly, PostRefused, NoServerErr, Shape, Forget, Resume, Record, Words
<1>8. CASE EnsureKey(c) \/ MergeMade(c) \/ DeleteCall(c) \/ PowerCall(c) \/ DropRow(c)
    BY <1>3, <1>4, <1>5, <1>8 DEF EnsureKey, MergeMade, DeleteCall, PowerCall, DropRow, Words
<1>9. CASE Get(c)
    <2>1. CASE Ends(c, IF job[c].verb = "create" THEN "refused" ELSE "failed")
        BY <1>3, <2>1 DEF Words
    <2>2. CASE Go(c, "get", "merge") /\ job' = [job EXCEPT ![c].row = RowOf(job[c].name)]
        <3>1. job'[c].row = RowOf(job[c].name)
            BY <1>0, <2>2 DEF ProvidersTypeOK, Jobs
        <3>2. Fits(RowOf(job[c].name), next, project) /\ project' = project /\ next' = next
            BY <1>0, <1>9, AnswersFit DEF DeleteInv, Get, remote
        <3> QED
            BY <1>0, <2>2, <3>1, <3>2 DEF Go, ProvidersTypeOK
    <2> QED
        BY <1>9, <2>1, <2>2 DEF Get
<1>10. CASE MergeGet(c)
    <2>1. CASE Ends(c, IF job[c].verb = "create" THEN "refused" ELSE "failed")
        BY <1>3, <2>1 DEF Words
    <2>2. ASSUME NEW to \in {"key", "shape", "power"}, Go(c, "merge", to), UNCHANGED job PROVE Goal
        BY <1>4, <1>5, <2>2
    <2>3. CASE job[c].row.managed /\ Go(c, "merge", "confirm") /\ UNCHANGED job
        BY <1>1, <2>3
    <2> QED
        BY <1>10, <2>1, <2>2, <2>3 DEF MergeGet
<1>11. CASE PostAccepted(c)
    <2>1. PICK a \in Free \cup {NoAddr} : Make(job[c].name, TRUE, a)
        BY <1>11 DEF PostAccepted
    <2>2. project'[next].row.id = next /\ next' = next + 1 /\ next \in Ids
        <3>1. job[c].name \in Names /\ a \in Addrs \cup {NoAddr}
            BY <1>0 DEF Free, Jobs
        <3>2. /\ next' = next + 1 /\ next \in Ids
              /\ project'[next].row = [id |-> next, managed |-> TRUE, state |-> "starting", addr |-> a]
            BY <1>0, <2>1, <3>1, MakeTypes
        <3> QED
            BY <3>2
    <2>3. job'[c].row = project'[next].row
        BY <1>0, <1>11 DEF PostAccepted, ProvidersTypeOK, Jobs
    <2>4. pc'[c] = "await"
        BY <1>0, <1>11 DEF PostAccepted, Go, ProvidersTypeOK
    <2> QED
        BY <2>2, <2>3, <2>4 DEF Fits, Ids
<1>12. CASE PostLost(c)
    <2>1. CASE Ends(c, NoServerErr("transport"))
        BY <1>3, <2>1 DEF NoServerErr, Words
    <2>2. CASE /\ pc' = [pc EXCEPT ![c] = "done"]
               /\ job' = [job EXCEPT ![c] = [Fresh EXCEPT !.verb = "create", !.made = next,
                                                          !.said = NoServerErr("transport")]]
        <3>1. [Fresh EXCEPT !.verb = "create", !.made = next, !.said = NoServerErr("transport")].row = NoRow
            BY FreshIsAJob DEF Jobs
        <3>2. job'[c].row = NoRow /\ pc'[c] = "done"
            BY <1>0, <2>2, <3>1 DEF ProvidersTypeOK
        <3> QED
            BY <1>2, <3>2
    <2> QED
        BY <1>12, <2>1, <2>2 DEF PostLost
<1>13. CASE Await(c)
    <2>1. CASE job' = [job EXCEPT ![c].err = TRUE]
        BY <1>4, <1>5, <1>13, <2>1 DEF Await
    <2>2. CASE /\ Alive(job[c].made)
               /\ project' = [project EXCEPT ![job[c].made].row.state = "running"]
               /\ job' = [job EXCEPT ![c].row = project'[job[c].made].row]
        <3> DEFINE m == job[c].made
        <3>1. m \in Ids /\ m < next /\ project[m].row.id = m
            BY <2>2 DEF DeleteInv, ServersNumbered, Alive
        <3>2. project'[m].row.id = project[m].row.id /\ project'[m].row \in Rows
            BY <1>0, <2>2, PowerTypes
        <3>3. job'[c].row = project'[m].row
            BY <1>0, <2>2 DEF ProvidersTypeOK, Jobs
        <3>4. pc'[c] = "made" /\ next' = next
            BY <1>0, <1>13 DEF Await, Go, ProvidersTypeOK
        <3> QED
            BY <3>1, <3>2, <3>3, <3>4 DEF Fits
    <2> QED
        BY <1>13, <2>1, <2>2 DEF Await
<1>14. CASE Unpin(c)
    BY <1>4, <1>5, <1>14 DEF Unpin
<1>15. CASE Confirm(c)
    <2>1. CASE Ends(c, "failed")
        BY <1>3, <2>1 DEF Words
    <2>2. CASE pc[c] = "confirm" /\ UNCHANGED job
        BY <1>1, <2>2 DEF DeleteInv, ConfirmedRows
    <2> QED
        BY <1>15, <2>1, <2>2 DEF Confirm, Go
<1>16. ASSUME AfterPower(c) PROVE Goal
    <2>1. CASE Ends(c, "done")
        BY <1>3, <2>1 DEF Words
    <2>2. CASE pc' = [pc EXCEPT ![c] = "resume"] /\ UNCHANGED job
        BY <1>0, <1>1, <2>2 DEF ProvidersTypeOK
    <2> QED
        BY <1>16, <2>1, <2>2 DEF AfterPower
<1>17. CASE Power(c) \/ SetState(c)
    BY <1>3, <1>4, <1>5, <1>16, <1>17 DEF Power, SetState, Words
<1>18. CASE ListCall(c)
    <2>1. CASE job' = [job EXCEPT ![c].err = TRUE]
        BY <1>4, <1>5, <1>18, <2>1 DEF ListCall
    <2>2. CASE job' = [job EXCEPT ![c].listed = [n \in Names |-> RowOf(n)]]
        <3>1. job'[c].row = job[c].row
            BY <1>0, <2>2 DEF ProvidersTypeOK, Jobs
        <3> QED
            BY <1>4, <1>18, <3>1 DEF ListCall
    <2> QED
        BY <1>18, <2>1, <2>2 DEF ListCall
<1>19. CASE Return(c)
    BY <1>0, <1>2, <1>19, FreshIsAJob DEF Return, Go, ProvidersTypeOK
<1> QED
    BY <1>6, <1>7, <1>8, <1>9, <1>10, <1>11, <1>12, <1>13, <1>14, <1>15, <1>17, <1>18, <1>19 DEF Command

(* What a delete knows of the server it deletes is kept. *)
LEMMA DeleteInductive == ASSUME DeleteInv, [ProvidersNext]_pvars PROVE DeleteInv'
<1>0. ProvidersTypeOK
    BY DEF DeleteInv
<1>1. ProvidersTypeOK' /\ (SameServers \/ OneMore)
    BY <1>0, ProvidersTypes, ServersStep
<1>2. ServersNumbered'
    <2>1. next \in Nat /\ next' \in Nat
        BY <1>0, <1>1 DEF ProvidersTypeOK
    <2>2. CASE SameServers
        BY <2>1, <2>2 DEF SameServers, DeleteInv, ServersNumbered, Alive
    <2>3. CASE OneMore
        <3> SUFFICES ASSUME NEW i \in Ids
                     PROVE  IF i < next' THEN project'[i] # NoServer => project'[i].row.id = i ELSE project'[i] = NoServer
            BY DEF ServersNumbered, Alive
        <3>1. CASE i = next
            BY <2>1, <2>3, <3>1 DEF OneMore
        <3>2. CASE i # next
            BY <2>1, <2>3, <3>2 DEF OneMore, DeleteInv, ServersNumbered, Alive, Ids
        <3> QED
            BY <3>1, <3>2
    <2> QED
        BY <1>1, <2>2, <2>3
<1>3. ASSUME NEW d \in Cmds, pc'[d] = pc[d], job'[d] = job[d]
      PROVE  Fits(job'[d].row, next', project') /\ (pc'[d] \in {"confirm", "delete"} => job'[d].row.managed)
    <2>1. job[d].row \in Rows
        BY <1>0 DEF ProvidersTypeOK, Jobs
    <2>2. Fits(job[d].row, next', project')
        BY <1>0, <1>1, <2>1, FitsStays DEF DeleteInv, RowsFit
    <2> QED
        BY <1>3, <2>2 DEF DeleteInv, ConfirmedRows
<1>4. ASSUME NEW d \in Cmds
      PROVE  Fits(job'[d].row, next', project') /\ (pc'[d] \in {"confirm", "delete"} => job'[d].row.managed)
    <2>1. ASSUME NEW c \in Cmds, Command(c) PROVE Command(d) \/ (pc'[d] = pc[d] /\ job'[d] = job[d])
        BY <1>0, <2>1, OthersStay
    <2>2. CASE Command(d)
        BY <1>1, <2>2, OwnRowFits
    <2>3. CASE Console \/ UNCHANGED pvars
        BY <1>3, <2>3 DEF Console, ConsoleCreate, ConsoleDelete, Boots, pvars
    <2> QED
        BY <1>3, <2>1, <2>2, <2>3 DEF ProvidersNext
<1>5. RowsFit'
    BY <1>4 DEF RowsFit
<1>6. ConfirmedRows'
    BY <1>4 DEF ConfirmedRows
<1> QED
    BY <1>1, <1>2, <1>5, <1>6 DEF DeleteInv

(* A step that ends a delete's call took nothing but its server. *)
LEMMA DeletesTheConfirmed ==
    ASSUME DeleteInv, ProvidersNext, NEW c \in Cmds, NEW i \in Ids,
           pc[c] = "delete", pc'[c] # "delete", project[i] # NoServer, project'[i] = NoServer
    PROVE  i = job[c].row.id /\ project[i].row.managed
<1>0. ProvidersTypeOK
    BY DEF DeleteInv
<1>1. Command(c)
    <2>1. ~Console
        BY DEF Console, ConsoleCreate, ConsoleDelete, Boots
    <2>2. PICK d \in Cmds : Command(d)
        BY <2>1 DEF ProvidersNext
    <2> QED
        BY <1>0, <2>2, OthersStay
<1>2. DeleteCall(c)
    <2>1. ASSUME AfterPower(c), pc[c] \in {"power", "record"} PROVE FALSE
        BY <2>1
    <2> QED
        BY <1>1, <2>1
           DEF Command, Begin, RefusedEarly, Get, MergeGet, EnsureKey, PostRefused, PostAccepted, PostLost, Await, MergeMade,
               Unpin, Shape, Confirm, DropRow, Forget, Power, PowerCall, SetState, Resume, ListCall, Record, Return, Go
<1>3. i = job[c].row.id
    BY <1>0, <1>2 DEF DeleteCall, Doomed, ProvidersTypeOK
<1>4. job[c].row.managed /\ Fits(job[c].row, next, project)
    BY DEF DeleteInv, ConfirmedRows, RowsFit
<1>5. job[c].row \in Rows /\ project[i].row \in Rows
    BY <1>0 DEF ProvidersTypeOK, Jobs, Servers
<1>6. job[c].row.id # NoId
    BY <1>3 DEF Ids, NoId
<1>7. project[i].row.managed = job[c].row.managed
    BY <1>3, <1>4, <1>6 DEF Fits
<1> QED
    BY <1>3, <1>4, <1>5, <1>7 DEF Rows

(* delete takes from the project only the server it showed when it asked,  *)
(* and only one with the label, whatever the console or another command    *)
(* did to the name meanwhile (deleteProviderBox).                          *)
THEOREM DeletesOnlyTheConfirmed == ProvidersSpec => OnlyConfirmedDeleted
<1> DEFINE Kept == \A c \in Cmds, i \in Ids :
                      pc[c] = "delete" /\ pc'[c] # "delete" /\ Alive(i) /\ ~Alive(i)'
                      => i = job[c].row.id /\ project[i].row.managed
<1>1. ProvidersInit => DeleteInv
    <2> SUFFICES ASSUME ProvidersInit PROVE DeleteInv
        OBVIOUS
    <2>1. ProvidersTypeOK
        BY ProvidersInitTypes
    <2>2. ServersNumbered
        BY DEF ProvidersInit, ServersNumbered, Alive
    <2>3. RowsFit /\ ConfirmedRows
        <3>1. \A c \in Cmds : job[c].row = NoRow /\ pc[c] = "idle"
            BY FreshIsAJob DEF ProvidersInit
        <3>2. Fits(NoRow, next, project)
            BY DEF Fits, NoRow
        <3> QED
            BY <3>1, <3>2 DEF RowsFit, ConfirmedRows
    <2> QED
        BY <2>1, <2>2, <2>3 DEF DeleteInv
<1>2. DeleteInv /\ [ProvidersNext]_pvars => DeleteInv'
    BY DeleteInductive
<1>3. DeleteInv /\ [ProvidersNext]_pvars => [Kept]_pvars
    BY DeletesTheConfirmed DEF Alive
<1> QED
    BY <1>1, <1>2, <1>3, PTL DEF ProvidersSpec, OnlyConfirmedDeleted

-----------------------------------------------------------------------------

(***************************************************************************)
(* The order of versions.                                                  *)
(***************************************************************************)

(* A nonempty set of numbers has a least one. *)
LEMMA LeastOf == ASSUME NEW S, S \subseteq Nat, S # {} PROVE \E x \in S : \A y \in S : x <= y
<1> DEFINE R == {ss \in Nat \X Nat : ss[1] < ss[2]}
<1>1. R = OpToRel(<, Nat)
    BY DEF OpToRel
<1>2. IsWellFoundedOn(R, Nat)
    BY <1>1, NatLessThanWellFounded
<1>3. PICK x \in S : \A y \in S : ~ (<<y, x>> \in R)
    BY <1>2, WFMin
<1>4. ASSUME NEW y \in S PROVE x <= y
    <2>1. x \in Nat /\ y \in Nat
        OBVIOUS
    <2>2. ~ (<<y, x>> \in R)
        BY <1>3
    <2>3. <<y, x>> \in Nat \X Nat /\ <<y, x>>[1] = y /\ <<y, x>>[2] = x
        BY <2>1
    <2>4. ~ (y < x)
        BY <2>2, <2>3
    <2> QED
        BY <2>1, <2>4
<1> QED
    BY <1>4

(* What a version is made of: any count of numbers, and what follows them. *)
Shaped(v) == v.nums \in Seq(Nat) /\ v.kind \in {"release", "pre", "past", "dirty"} /\ v.n \in Nat

(* Where two versions' numbers differ, a missing one being 0. *)
Differ(a, b) == {i \in 1..Len(a.nums) \cup 1..Len(b.nums) : Num(a, i) # Num(b, i)}

(* A version's numbers are numbers, the missing ones 0. *)
LEMMA NumIsNat == ASSUME NEW v, Shaped(v), NEW i \in Nat \ {0} PROVE Num(v, i) \in Nat
BY DEF Shaped, Num

(* Beyond both, every number is 0, so they differ exactly there. *)
LEMMA DifferIs ==
    ASSUME NEW a, NEW b, Shaped(a), Shaped(b)
    PROVE  /\ Differ(a, b) \subseteq Nat \ {0}
           /\ \A i \in Nat \ {0} : i \in Differ(a, b) <=> Num(a, i) # Num(b, i)
<1>1. Len(a.nums) \in Nat /\ Len(b.nums) \in Nat
    BY DEF Shaped
<1> QED
    BY <1>1 DEF Differ, Num

(* The place that decides is the first of them. *)
First(a, b, f) == f \in Nat \ {0} /\ Num(a, f) # Num(b, f) /\ \A i \in Nat \ {0} : i < f => Num(a, i) = Num(b, i)

(* The first place where two versions differ decides. *)
LEMMA FirstDecides ==
    ASSUME NEW a, NEW b, Shaped(a), Shaped(b), NEW f, First(a, b, f)
    PROVE  CompareVersions(a, b) = Sign(Num(a, f), Num(b, f))
<1>1. Differ(a, b) # {} /\ f \in Differ(a, b) /\ Differ(a, b) \subseteq Nat \ {0}
    BY DifferIs DEF First
<1>2. \A j \in Differ(a, b) : f <= j
    BY <1>1, DifferIs DEF First
<1>3. \A g \in Differ(a, b) : (\A j \in Differ(a, b) : g <= j) => g = f
    BY <1>1, <1>2
<1>4. (CHOOSE g \in Differ(a, b) : \A j \in Differ(a, b) : g <= j) = f
    BY <1>1, <1>2, <1>3
<1> HIDE DEF Differ
<1> QED
    BY <1>1, <1>4 DEF CompareVersions, Differ

(* And says which is the newer. *)
LEMMA FirstSigns ==
    ASSUME NEW a, NEW b, Shaped(a), Shaped(b), NEW f, First(a, b, f)
    PROVE  CompareVersions(a, b) \in {-1, 1} /\ (CompareVersions(a, b) = 1 <=> Num(a, f) > Num(b, f))
<1>1. Num(a, f) \in Nat /\ Num(b, f) \in Nat /\ Num(a, f) # Num(b, f)
    BY NumIsNat DEF First
<1>2. CompareVersions(a, b) = Sign(Num(a, f), Num(b, f))
    BY FirstDecides
<1> QED
    BY <1>1, <1>2 DEF Sign

(* Two versions whose numbers differ have a first such place. *)
LEMMA FirstExists ==
    ASSUME NEW a, NEW b, Shaped(a), Shaped(b)
    PROVE  (\E f : First(a, b, f)) \/ (\A i \in Nat \ {0} : Num(a, i) = Num(b, i))
<1>1. CASE Differ(a, b) = {}
    BY <1>1, DifferIs
<1>2. CASE Differ(a, b) # {}
    <2>1. PICK f \in Differ(a, b) : \A y \in Differ(a, b) : f <= y
        BY <1>2, DifferIs, LeastOf
    <2>2. f \in Nat \ {0} /\ Num(a, f) # Num(b, f)
        BY <2>1, DifferIs
    <2>3. \A i \in Nat \ {0} : i < f => Num(a, i) = Num(b, i)
        BY <2>1, <2>2, DifferIs
    <2> QED
        BY <2>2, <2>3 DEF First
<1> QED
    BY <1>1, <1>2

(* With equal numbers what follows decides. *)
Suffixes(a, b) == IF Rank(a) # Rank(b) THEN Sign(Rank(a), Rank(b))
                  ELSE IF Rank(a) = 1 THEN Sign(Commits(a), Commits(b)) ELSE Sign(a.n, b.n)

(* Versions without one have the same numbers. *)
LEMMA EqualNumbers ==
    ASSUME NEW a, NEW b, Shaped(a), Shaped(b), \A i \in Nat \ {0} : Num(a, i) = Num(b, i)
    PROVE  CompareVersions(a, b) = Suffixes(a, b)
<1>1. Differ(a, b) = {}
    BY DifferIs
<1> QED
    BY <1>1 DEF CompareVersions, Differ, Suffixes

(* What the suffix of a version is ranked by. *)
LEMMA RankCommits == ASSUME NEW v, Shaped(v) PROVE Rank(v) \in {-1, 0, 1} /\ Commits(v) \in Nat
BY DEF Shaped, Rank, Commits

(* The order on equal numbers is total and transitive. *)
LEMMA SuffixesOrder ==
    ASSUME NEW a, NEW b, Shaped(a), Shaped(b)
    PROVE  Suffixes(a, b) \in {-1, 0, 1} /\ Suffixes(a, b) = -Suffixes(b, a)
<1>1. Rank(a) \in Int /\ Rank(b) \in Int /\ Commits(a) \in Nat /\ Commits(b) \in Nat /\ a.n \in Nat /\ b.n \in Nat
    BY RankCommits DEF Shaped
<1> QED
    BY <1>1 DEF Suffixes, Sign

(* Suffixes are ordered. *)
LEMMA SuffixesTransitive ==
    ASSUME NEW a, NEW b, NEW c, Shaped(a), Shaped(b), Shaped(c),
           Suffixes(a, b) \in {0, 1}, Suffixes(b, c) \in {0, 1}
    PROVE  /\ Suffixes(a, c) \in {0, 1}
           /\ Suffixes(a, c) = 0 => Suffixes(a, b) = 0 /\ Suffixes(b, c) = 0
<1>1. /\ Rank(a) \in Int /\ Rank(b) \in Int /\ Rank(c) \in Int
      /\ Commits(a) \in Nat /\ Commits(b) \in Nat /\ Commits(c) \in Nat
      /\ a.n \in Nat /\ b.n \in Nat /\ c.n \in Nat
    BY RankCommits DEF Shaped
<1> QED
    BY <1>1 DEF Suffixes, Sign

(* compareVersions orders any two releases one way only: swapping them     *)
(* turns the answer round.                                                 *)
THEOREM VersionsCompareBothWays ==
    ASSUME NEW a, NEW b, Shaped(a), Shaped(b)
    PROVE  CompareVersions(a, b) \in {-1, 0, 1} /\ CompareVersions(a, b) = -CompareVersions(b, a)
<1>1. CASE \E f : First(a, b, f)
    <2>1. PICK f : First(a, b, f)
        BY <1>1
    <2>2. First(b, a, f)
        BY <2>1 DEF First
    <2>3. CompareVersions(a, b) = Sign(Num(a, f), Num(b, f)) /\ CompareVersions(b, a) = Sign(Num(b, f), Num(a, f))
        BY <2>1, <2>2, FirstDecides
    <2>4. Num(a, f) \in Nat /\ Num(b, f) \in Nat
        BY <2>1, NumIsNat DEF First
    <2> QED
        BY <2>3, <2>4 DEF Sign
<1>2. CASE \A i \in Nat \ {0} : Num(a, i) = Num(b, i)
    <2>1. CompareVersions(a, b) = Suffixes(a, b) /\ CompareVersions(b, a) = Suffixes(b, a)
        BY <1>2, EqualNumbers
    <2> QED
        BY <2>1, SuffixesOrder
<1> QED
    BY <1>1, <1>2, FirstExists

(* And it is transitive, over numbers of any count, prereleases and builds *)
(* past a tag alike, so "newer than" never goes round in a circle.         *)
THEOREM VersionsAreOrdered ==
    ASSUME NEW a, NEW b, NEW c, Shaped(a), Shaped(b), Shaped(c),
           CompareVersions(a, b) \in {0, 1}, CompareVersions(b, c) \in {0, 1}
    PROVE  /\ CompareVersions(a, c) \in {0, 1}
           /\ CompareVersions(a, c) = 0 => CompareVersions(a, b) = 0 /\ CompareVersions(b, c) = 0
<1> DEFINE Eq(x, y) == \A i \in Nat \ {0} : Num(x, i) = Num(y, i)
<1>0. \A i \in Nat \ {0} : Num(a, i) \in Nat /\ Num(b, i) \in Nat /\ Num(c, i) \in Nat
    BY NumIsNat
<1>1. CASE Eq(a, b) /\ Eq(b, c)
    <2>1. Eq(a, c)
        BY <1>1
    <2>2. /\ CompareVersions(a, b) = Suffixes(a, b) /\ CompareVersions(b, c) = Suffixes(b, c)
          /\ CompareVersions(a, c) = Suffixes(a, c)
        BY <1>1, <2>1, EqualNumbers
    <2> QED
        BY <2>2, SuffixesTransitive
<1>2. CASE Eq(a, b) /\ \E g : First(b, c, g)
    <2>1. PICK g : First(b, c, g)
        BY <1>2
    <2>2. First(a, c, g) /\ Num(a, g) = Num(b, g)
        BY <1>2, <2>1 DEF First
    <2>3. CompareVersions(a, c) = CompareVersions(b, c)
        BY <2>1, <2>2, FirstDecides
    <2>4. CompareVersions(b, c) # 0
        BY <2>1, FirstSigns
    <2> QED
        BY <2>3, <2>4
<1>3. CASE (\E f : First(a, b, f)) /\ Eq(b, c)
    <2>1. PICK f : First(a, b, f)
        BY <1>3
    <2>2. First(a, c, f) /\ Num(c, f) = Num(b, f)
        BY <1>3, <2>1 DEF First
    <2>3. CompareVersions(a, c) = CompareVersions(a, b)
        BY <2>1, <2>2, FirstDecides
    <2>4. CompareVersions(a, b) # 0
        BY <2>1, FirstSigns
    <2> QED
        BY <2>3, <2>4
<1>4. CASE (\E f : First(a, b, f)) /\ (\E g : First(b, c, g))
    <2>1. PICK f : First(a, b, f)
        BY <1>4
    <2>2. PICK g : First(b, c, g)
        BY <1>4
    <2>3. f \in Nat \ {0} /\ g \in Nat \ {0}
        BY <2>1, <2>2 DEF First
    <2>4. Num(a, f) > Num(b, f)
        BY <2>1, FirstSigns
    <2>5. Num(b, g) > Num(c, g)
        BY <2>2, FirstSigns
    <2> DEFINE h == IF f <= g THEN f ELSE g
    <2>6. h \in Nat \ {0} /\ Num(a, h) > Num(c, h)
        BY <1>0, <2>1, <2>2, <2>3, <2>4, <2>5 DEF First
    <2>7. \A i \in Nat \ {0} : i < h => Num(a, i) = Num(c, i)
        BY <2>1, <2>2, <2>3 DEF First
    <2>8. First(a, c, h)
        BY <1>0, <2>6, <2>7 DEF First
    <2>9. CompareVersions(a, c) = 1
        BY <2>6, <2>8, FirstSigns
    <2> QED
        BY <2>9
<1> QED
    BY <1>1, <1>2, <1>3, <1>4, FirstExists

(***************************************************************************)
(* The download.                                                           *)
(***************************************************************************)

Before == {"find", "decide", "fetch", "verify", "temp", "rename"}

(* What is renamed over the binary was verified, what is downloaded is     *)
(* newer unless forced, and until then the old binary is installed.        *)
Verified == upd.at \in {"temp", "rename"} => upd.good
Newer == upd.at \in {"fetch", "verify", "temp", "rename"}
         => upd.force \/ (upd.old # Dev /\ CompareVersions(upd.tag, upd.old) = 1)
OldStays == upd.at \in Before => disk.version = upd.old
NobodyYet == upd.at \in Before \cup {"exec"} => upd.ran = {}

(* A machine is being cycled at a layout that exists. *)
Placed == upd.at \in {"stop", "wait", "respawn"} => upd.on # NoMachine /\ upd.layout <= 2

DownloadInv == UpdTypeOK /\ Verified /\ Newer /\ OldStays /\ NobodyYet /\ Placed

(* Where an update starts. *)
LEMMA DownloadInit == UpdInit => DownloadInv
<1> SUFFICES ASSUME UpdInit PROVE DownloadInv
    OBVIOUS
<1>1. PICK v \in Versions, tag \in Versions \ {Dev}, f \in BOOLEAN :
          /\ disk = [version |-> v, whole |-> TRUE]
          /\ upd = [at |-> "find", old |-> v, tag |-> tag, force |-> f, good |-> FALSE, had |-> FALSE,
                    todo |-> {}, on |-> NoMachine, layout |-> 1, ran |-> {}]
          /\ daemons \in [Machines -> {Absent} \cup [state : {"starting"} \cup Serving, code : {v},
                                                    layout : {"legacy", "state"}, conf : BOOLEAN]]
    BY DEF UpdInit
<1>2. Dev \in Versions
    BY DEF Versions
<1>3. UpdTypeOK
    <2>1. disk \in [version : Versions, whole : BOOLEAN] /\ result \in [Machines -> SUBSET {"cycled", "skipped", "failed"}]
          /\ session \subseteq Machines
        BY <1>1 DEF UpdInit
    <2>2. upd \in [at : {"find", "decide", "fetch", "verify", "temp", "rename", "exec", "look", "stop", "wait",
                         "respawn", "exit", "failed"},
                   old : Versions, tag : Versions, force : BOOLEAN, good : BOOLEAN, had : BOOLEAN,
                   todo : SUBSET Machines, on : Machines \cup {NoMachine}, layout : 1..3, ran : SUBSET Machines]
        BY <1>1
    <2>3. {Absent} \cup [state : {"starting"} \cup Serving, code : {v}, layout : {"legacy", "state"}, conf : BOOLEAN]
          \subseteq [state : {"none", "starting", "up", "reconnecting", "stopping"}, code : Versions,
                     layout : {"legacy", "state"}, conf : BOOLEAN]
        <3>1. Absent \in [state : {"none", "starting", "up", "reconnecting", "stopping"}, code : Versions,
                          layout : {"legacy", "state"}, conf : BOOLEAN]
            BY <1>2 DEF Absent
        <3>2. [state : {"starting"} \cup Serving, code : {v}, layout : {"legacy", "state"}, conf : BOOLEAN]
              \subseteq [state : {"none", "starting", "up", "reconnecting", "stopping"}, code : Versions,
                         layout : {"legacy", "state"}, conf : BOOLEAN]
            BY <1>1 DEF Serving
        <3> QED
            BY <3>1, <3>2
    <2>4. daemons \in [Machines -> [state : {"none", "starting", "up", "reconnecting", "stopping"}, code : Versions,
                                   layout : {"legacy", "state"}, conf : BOOLEAN]]
        BY <1>1, <2>3
    <2> QED
        BY <2>1, <2>2, <2>4 DEF UpdTypeOK
<1> QED
    BY <1>1, <1>3 DEF DownloadInv, Verified, Newer, OldStays, NobodyYet, Placed

(* A step that leaves the command where it is keeps its account. *)
LEMMA DownloadStays == ASSUME DownloadInv, UNCHANGED <<disk, upd>>, UpdTypeOK' PROVE DownloadInv'
BY DEF DownloadInv, Verified, Newer, OldStays, NobodyYet, Placed

(* The update's steps keep what it fetched and decided. *)
LEMMA DownloadStep == ASSUME DownloadInv, [UpdNext]_zvars PROVE DownloadInv'
<1>0. UpdTypeOK /\ Dev \in Versions
    BY DEF DownloadInv, Versions
<1> DEFINE Ats == {"find", "decide", "fetch", "verify", "temp", "rename", "exec", "look", "stop", "wait",
                   "respawn", "exit", "failed"}
           Upds == [at : Ats, old : Versions, tag : Versions, force : BOOLEAN, good : BOOLEAN, had : BOOLEAN,
                    todo : SUBSET Machines, on : Machines \cup {NoMachine}, layout : 1..3, ran : SUBSET Machines]
           Daemon == [state : {"none", "starting", "up", "reconnecting", "stopping"}, code : Versions,
                      layout : {"legacy", "state"}, conf : BOOLEAN]
           Kept == Verified /\ Newer /\ OldStays /\ NobodyYet /\ Placed
<1>1. upd \in Upds /\ disk \in [version : Versions, whole : BOOLEAN] /\ daemons \in [Machines -> Daemon]
      /\ result \in [Machines -> SUBSET {"cycled", "skipped", "failed"}] /\ session \subseteq Machines
    BY <1>0 DEF UpdTypeOK
<1>2. ASSUME upd' \in Upds, disk' \in [version : Versions, whole : BOOLEAN], daemons' \in [Machines -> Daemon],
             result' \in [Machines -> SUBSET {"cycled", "skipped", "failed"}], session' = session
      PROVE  UpdTypeOK'
    BY <1>1, <1>2 DEF UpdTypeOK
<1>3. ASSUME NEW to \in Ats, Goes(to), UNCHANGED disk, UNCHANGED <<daemons, session>>,
             result' \in [Machines -> SUBSET {"cycled", "skipped", "failed"}]
      PROVE  UpdTypeOK'
    <2>1. upd' \in Upds
        BY <1>1, <1>3 DEF Goes
    <2> HIDE DEF Upds, Daemon
    <2> QED
        BY <1>1, <1>2, <1>3, <2>1
<1>4. CASE Fails \/ Find \/ Verify \/ WriteTemp \/ Finished
    <2>1. PICK to \in Ats : Goes(to)
        BY <1>4 DEF Fails, Find, Verify, WriteTemp, Finished
    <2>2. UpdTypeOK'
        BY <1>1, <1>3, <1>4, <2>1 DEF Fails, Find, Verify, WriteTemp, Finished, Others
    <2> QED
        BY <1>1, <1>4, <2>2
           DEF DownloadInv, Verified, Newer, OldStays, NobodyYet, Placed, Goes, Fails, Find, Verify, WriteTemp, Finished, Before
<1>5. CASE Decide
    <2>1. PICK to \in {"fetch", "failed", "exit"} : Goes(to)
        BY <1>0, <1>5 DEF Decide, UpdTypeOK
    <2>2. UpdTypeOK'
        BY <1>1, <1>3, <1>5, <2>1 DEF Decide, Others
    <2>3. upd'.at = "fetch" => upd.force \/ (upd.old # Dev /\ CompareVersions(upd.tag, upd.old) = 1)
        BY <1>1, <1>5 DEF Decide, Goes
    <2> QED
        BY <1>1, <1>5, <2>1, <2>2, <2>3
           DEF DownloadInv, Verified, Newer, OldStays, NobodyYet, Placed, Goes, Decide, Before
<1>6. CASE Fetch
    <2>1. PICK g \in BOOLEAN : upd' = [upd EXCEPT !.at = "verify", !.good = g]
        BY <1>6 DEF Fetch
    <2>2. upd' \in Upds
        BY <1>1, <2>1
    <2>3. UpdTypeOK'
        BY <1>1, <1>2, <1>6, <2>2 DEF Fetch, Others
    <2> QED
        BY <1>1, <1>6, <2>1, <2>3 DEF DownloadInv, Verified, Newer, OldStays, NobodyYet, Placed, Fetch, Before
<1>7. CASE RenameBinary
    <2>1. upd' \in Upds /\ disk' \in [version : Versions, whole : BOOLEAN]
        BY <1>1, <1>7 DEF RenameBinary, Goes
    <2>2. UpdTypeOK'
        BY <1>1, <1>2, <1>7, <2>1 DEF RenameBinary, Others
    <2> QED
        BY <1>1, <1>7, <2>2 DEF DownloadInv, Verified, Newer, OldStays, NobodyYet, Placed, RenameBinary, Goes, Before
<1>8. CASE Reexec
    <2>1. upd' \in Upds /\ upd'.at = "look"
        BY <1>1, <1>8 DEF Reexec
    <2>2. UpdTypeOK'
        BY <1>1, <1>2, <1>8, <2>1 DEF Reexec, Others
    <2> QED
        BY <2>1, <2>2 DEF DownloadInv, Verified, Newer, OldStays, NobodyYet, Placed, Before
<1>9. CASE NextMachine
    <2>1. PICK m \in upd.todo : upd' = [upd EXCEPT !.on = m, !.todo = upd.todo \ {m}, !.layout = 1]
        BY <1>9 DEF NextMachine
    <2>4. upd.at = "look" /\ m \in Machines /\ upd.todo \ {m} \subseteq Machines
        BY <1>1, <1>9 DEF NextMachine
    <2>2. upd' \in Upds /\ upd'.at = "look"
        <3>1. upd \in Upds
            BY <1>1
        <3>2. [upd EXCEPT !.on = m] \in Upds
            BY <2>4, <3>1
        <3>3. [upd EXCEPT !.on = m, !.todo = upd.todo \ {m}] \in Upds
            BY <2>4, <3>1, <3>2
        <3>4. 1 \in 1..3
            OBVIOUS
        <3>5. upd' \in Upds
            BY <2>1, <2>4, <3>1, <3>3, <3>4
        <3>6. upd'.at = "look"
            BY <2>1, <2>4, <3>1
        <3> QED
            BY <3>5, <3>6
    <2>3. UpdTypeOK'
        BY <1>1, <1>2, <1>9, <2>2 DEF NextMachine, Others
    <2> QED
        BY <2>2, <2>3 DEF DownloadInv, Verified, Newer, OldStays, NobodyYet, Placed, Before
<1>10. CASE AllLooked
    <2>1. upd' \in Upds /\ upd'.at = "look"
        <3>1. upd.at = "look" /\ upd' = [upd EXCEPT !.on = NoMachine, !.layout = 1]
            BY <1>10 DEF AllLooked
        <3>2. upd \in Upds
            BY <1>1
        <3>3. upd'.at = "look"
            BY <3>1, <3>2
        <3>4. NoMachine \in Machines \cup {NoMachine} /\ 1 \in 1..3
            OBVIOUS
        <3>5. [upd EXCEPT !.on = NoMachine] \in Upds
            BY <3>2, <3>4
        <3>6. upd' \in Upds
            BY <3>1, <3>2, <3>4, <3>5
        <3> QED
            BY <3>3, <3>6
    <2>2. UpdTypeOK'
        BY <1>1, <1>2, <1>10, <2>1 DEF AllLooked, Others
    <2> QED
        BY <2>1, <2>2 DEF DownloadInv, Verified, Newer, OldStays, NobodyYet, Placed, Before
<1>11. ASSUME NEW o \in SUBSET {"cycled", "skipped", "failed"}, Recorded(o), upd.on # NoMachine, upd.layout <= 2,
              disk' = disk, session' = session, daemons' \in [Machines -> Daemon]
       PROVE  DownloadInv'
    <2>1. upd' \in Upds /\ upd'.at = "look"
        <3>1. upd' = [upd EXCEPT !.at = "look", !.layout = upd.layout + 1]
            BY <1>11 DEF Recorded
        <3>2. upd.layout + 1 \in 1..3
            BY <1>1, <1>11
        <3> QED
            BY <1>1, <3>1, <3>2
    <2>2. result' \in [Machines -> SUBSET {"cycled", "skipped", "failed"}]
        BY <1>1, <1>11 DEF Recorded
    <2>3. UpdTypeOK'
        BY <1>1, <1>2, <1>11, <2>1, <2>2
    <2> QED
        BY <2>1, <2>3 DEF DownloadInv, Verified, Newer, OldStays, NobodyYet, Placed, Before
<1>12. CASE Look
    <2>1. upd.on # NoMachine /\ upd.layout <= 2 /\ upd.at = "look"
        BY <1>12 DEF Look, Layouts
    <2>2. CASE \E o \in SUBSET {"cycled", "skipped", "failed"} : Recorded(o)
        BY <1>1, <1>11, <1>12, <2>1, <2>2 DEF Look
    <2>3. CASE upd' = [upd EXCEPT !.at = "stop", !.had = daemons[upd.on].conf] /\ UNCHANGED result
        <3>1. daemons[upd.on].conf \in BOOLEAN
            BY <1>1, <2>1
        <3>2. upd' \in Upds /\ upd'.at = "stop" /\ upd'.on = upd.on /\ upd'.layout = upd.layout
            BY <1>1, <2>3, <3>1
        <3>3. UpdTypeOK'
            BY <1>1, <1>2, <1>12, <2>3, <3>2 DEF Look
        <3> QED
            BY <2>1, <3>2, <3>3 DEF DownloadInv, Verified, Newer, OldStays, NobodyYet, Placed, Before
    <2> QED
        BY <1>12, <2>2, <2>3 DEF Look
<1>13. CASE StopDaemon
    <2>1. upd.on \in Machines /\ upd.layout <= 2
        BY <1>1, <1>13 DEF StopDaemon, DownloadInv, Placed
    <2>2. CASE Recorded({"failed"}) /\ UNCHANGED daemons
        BY <1>1, <1>11, <1>13, <2>1, <2>2, UpdateAssumption DEF StopDaemon
    <2>3. CASE daemons' = [daemons EXCEPT ![upd.on].state = "stopping"] /\ Goes("wait") /\ UNCHANGED result
        <3>1. daemons' \in [Machines -> Daemon]
            BY <1>1, <2>1, <2>3
        <3>2. upd' \in Upds /\ upd'.at = "wait" /\ upd'.on = upd.on /\ upd'.layout = upd.layout
            BY <1>1, <2>3 DEF Goes
        <3>3. UpdTypeOK'
            BY <1>1, <1>2, <1>13, <2>3, <3>1, <3>2 DEF StopDaemon
        <3> QED
            BY <2>1, <3>2, <3>3, UpdateAssumption
               DEF DownloadInv, Verified, Newer, OldStays, NobodyYet, Placed, Before
    <2> QED
        BY <1>13, <2>2, <2>3 DEF StopDaemon
<1>14. CASE WaitEnds
    <2>1. upd.on # NoMachine /\ upd.layout <= 2
        BY <1>14 DEF WaitEnds, DownloadInv, Placed
    <2>2. CASE \E o \in SUBSET {"cycled", "skipped", "failed"} : Recorded(o)
        BY <1>1, <1>11, <1>14, <2>1, <2>2 DEF WaitEnds
    <2>3. CASE Goes("respawn") /\ UNCHANGED result
        <3>1. UpdTypeOK'
            BY <1>1, <1>3, <1>14, <2>3 DEF WaitEnds
        <3> QED
            BY <1>1, <2>1, <2>3, <3>1 DEF DownloadInv, Verified, Newer, OldStays, NobodyYet, Placed, Before, Goes
    <2> QED
        BY <1>14, <2>2, <2>3 DEF WaitEnds
<1>15. ASSUME NEW m \in Machines, daemons' = [daemons EXCEPT ![m] = [Absent EXCEPT !.state = "starting", !.code = disk.version]],
              UNCHANGED <<disk, upd, result, session>>
       PROVE  DownloadInv'
    <2>1. [Absent EXCEPT !.state = "starting", !.code = disk.version] \in Daemon
        BY <1>1 DEF Absent
    <2>2. daemons' \in [Machines -> Daemon]
        BY <1>1, <1>15, <2>1
    <2>3. UpdTypeOK'
        BY <1>1, <1>2, <1>15, <2>2
    <2> QED
        BY <1>15, <2>3, DownloadStays
<1>16. CASE Spawn
    <2>1. upd.on \in Machines
        BY <1>1, <1>16 DEF Spawn, DownloadInv, Placed
    <2> QED
        BY <1>15, <1>16, <2>1 DEF Spawn
<1>17. CASE Restarted
    <2>1. upd.on \in Machines /\ upd.layout <= 2
        BY <1>1, <1>17 DEF Restarted, DownloadInv, Placed
    <2>2. daemons' \in [Machines -> Daemon]
        <3>1. daemons' = daemons \/ daemons' = [daemons EXCEPT ![upd.on].conf = TRUE]
            BY <1>17 DEF Restarted
        <3>3. daemons[upd.on] \in Daemon
            BY <1>1, <2>1
        <3>2. [daemons[upd.on] EXCEPT !.conf = TRUE] \in Daemon
            BY <3>3
        <3> QED
            BY <1>1, <3>1, <3>2
    <2>3. \E o \in SUBSET {"cycled", "skipped", "failed"} : Recorded(o)
        BY <1>17 DEF Restarted
    <2> QED
        BY <1>11, <1>17, <2>1, <2>2, <2>3, UpdateAssumption DEF Restarted
<1>18. ASSUME NEW m \in Machines, DaemonMoves(m) PROVE DownloadInv'
    <2>1. Absent \in Daemon
        BY <1>0 DEF Absent
    <2>2. daemons' \in [Machines -> Daemon]
        <3>0. daemons[m] \in Daemon
            BY <1>1
        <3>1. ASSUME NEW s \in {"up", "reconnecting"} PROVE [daemons[m] EXCEPT !.state = s] \in Daemon
            BY <3>0
        <3>2. [daemons[m] EXCEPT !.conf = FALSE] \in Daemon
            BY <3>0
        <3>3. \/ \E s \in {"up", "reconnecting"} : daemons' = [daemons EXCEPT ![m].state = s]
              \/ daemons' = [daemons EXCEPT ![m].conf = FALSE] \/ daemons' = [daemons EXCEPT ![m] = Absent]
            BY <1>18 DEF DaemonMoves
        <3>4. CASE \E s \in {"up", "reconnecting"} : daemons' = [daemons EXCEPT ![m].state = s]
            BY <1>1, <3>1, <3>4
        <3>5. CASE daemons' = [daemons EXCEPT ![m].conf = FALSE]
            BY <1>1, <3>2, <3>5
        <3>6. CASE daemons' = [daemons EXCEPT ![m] = Absent]
            BY <1>1, <2>1, <3>6
        <3> QED
            BY <3>3, <3>4, <3>5, <3>6
    <2>3. UpdTypeOK'
        BY <1>1, <1>2, <1>18, <2>2 DEF DaemonMoves
    <2> QED
        BY <1>18, <2>3, DownloadStays DEF DaemonMoves
<1>19. ASSUME NEW m \in Machines, SessionRedials(m) PROVE DownloadInv'
    BY <1>15, <1>19 DEF SessionRedials
<1>20. CASE UNCHANGED zvars
    BY <1>20, DownloadStays DEF zvars, UpdTypeOK, DownloadInv
<1> QED
    BY <1>4, <1>5, <1>6, <1>7, <1>8, <1>9, <1>10, <1>12, <1>13, <1>14, <1>16, <1>17, <1>18, <1>19, <1>20 DEF UpdNext

(* What a step of the command does to the installed binary. *)
LEMMA RenameIsNewer ==
    ASSUME DownloadInv, [UpdNext]_zvars, disk' # disk
    PROVE  /\ disk'.whole /\ disk'.version = upd.tag
           /\ upd.force \/ (disk.version # Dev /\ CompareVersions(disk'.version, disk.version) = 1)
<1>1. RenameBinary
    BY DEF UpdNext, zvars, Fails, Find, Decide, Fetch, Verify, WriteTemp, Reexec, NextMachine, AllLooked, Look, StopDaemon,
           WaitEnds, Spawn, Restarted, Finished, DaemonMoves, SessionRedials
<1>2. upd.at = "rename" /\ disk'.version = upd.tag /\ disk'.whole = upd.good
    BY <1>1 DEF RenameBinary
<1>3. upd.good /\ disk.version = upd.old /\ (upd.force \/ (upd.old # Dev /\ CompareVersions(upd.tag, upd.old) = 1))
    BY <1>2 DEF DownloadInv, Verified, OldStays, Newer, Before
<1> QED
    BY <1>2, <1>3

(* What update installs is a whole, verified binary, and unless it is      *)
(* forced one that compareVersions puts above what was installed: a        *)
(* development build is never replaced unasked (runUpdate).                *)
THEOREM InstallsOnlyNewer ==
    UpdSpec => [][disk' # disk => /\ disk'.whole
                                  /\ \/ upd.force
                                     \/ /\ disk.version # Dev
                                        /\ CompareVersions(disk'.version, disk.version) = 1]_zvars
<1> DEFINE Replaced == disk' # disk => /\ disk'.whole
                                  /\ \/ upd.force
                                     \/ /\ disk.version # Dev
                                        /\ CompareVersions(disk'.version, disk.version) = 1
<1>1. DownloadInv /\ [UpdNext]_zvars => DownloadInv'
    BY DownloadStep
<1>2. DownloadInv /\ [UpdNext]_zvars => [Replaced]_zvars
    BY RenameIsNewer
<1> QED
    BY <1>1, <1>2, DownloadInit, PTL DEF UpdSpec

(* So for releases that are listed in the order compareVersions gives them *)
(* no update goes down the list.                                           *)
Age(v) == CHOOSE i \in DOMAIN Ascending : v \in Ascending[i]
ListedInOrder == \A a \in Versions, b \in Versions \ {Dev} : CompareVersions(a, b) = 1 => Age(a) > Age(b)

(* No update goes down the list of releases. *)
THEOREM UpdatesGoUpward == ASSUME ListedInOrder PROVE UpdSpec => OnlyUpward
<1> DEFINE Replaced == LET age(v) == CHOOSE i \in DOMAIN Ascending : v \in Ascending[i]
                   IN disk' # disk => /\ disk'.whole
                                      /\ upd.force \/ (disk.version # Dev /\ age(disk'.version) > age(disk.version))
<1>1. DownloadInv /\ [UpdNext]_zvars => DownloadInv'
    BY DownloadStep
<1>2. DownloadInv /\ [UpdNext]_zvars => [Replaced]_zvars
    <2> SUFFICES ASSUME DownloadInv, [UpdNext]_zvars, disk' # disk
                 PROVE  /\ disk'.whole
                        /\ upd.force \/ (disk.version # Dev /\ Age(disk'.version) > Age(disk.version))
        BY DEF Age
    <2>1. disk.version \in Versions /\ disk'.version \in Versions
        BY DownloadStep DEF DownloadInv, UpdTypeOK
    <2> QED
        BY <2>1, RenameIsNewer DEF ListedInOrder
<1> QED
    BY <1>1, <1>2, DownloadInit, PTL DEF UpdSpec, OnlyUpward

(***************************************************************************)
(* The cycling of daemons.                                                 *)
(***************************************************************************)

(* A daemon that serves with other code than the installed one. *)
Stale(m) == daemons[m].state \in Serving /\ daemons[m].code # disk.version

(* The place of a daemon's layout in the order they are looked at. *)
PlaceOf(m) == IF daemons[m].layout = "legacy" THEN 1 ELSE 2

(* Once the new binary runs, a daemon that starts runs it. *)
StartsNew == \A m \in upd.ran : daemons[m].state = "starting" => daemons[m].code = disk.version

(* A daemon that still serves old code is yet to be looked at, or its      *)
(* machine was reported: skipped or failed.                                *)
Seen == \A m \in upd.ran :
            Stale(m) => \/ m \in upd.todo
                        \/ "skipped" \in result[m] \/ "failed" \in result[m]
                        \/ upd.at \in {"look", "stop"} /\ upd.on = m /\ PlaceOf(m) >= upd.layout

CycleInv == DownloadInv /\ StartsNew /\ Seen /\ NoOldCode

(* Where the cycling starts. *)
LEMMA CycleInit == UpdInit => CycleInv
<1> SUFFICES ASSUME UpdInit PROVE CycleInv
    OBVIOUS
<1>0. upd.at = "find"
    BY DEF UpdInit
<1>1. DownloadInv /\ upd.at = "find"
    BY <1>0, DownloadInit
<1>2. upd.ran = {}
    BY <1>1 DEF DownloadInv, NobodyYet, Before
<1> QED
    BY <1>1, <1>2 DEF CycleInv, StartsNew, Seen, NoOldCode

(* While nobody is to be cycled there is nothing to account for. *)
LEMMA NobodyRan == ASSUME DownloadInv', upd'.ran = {} PROVE CycleInv'
BY DEF CycleInv, StartsNew, Seen, NoOldCode

(* What happens to a daemon by itself makes none stale. *)
LEMMA DaemonsAge ==
    ASSUME CycleInv, DownloadInv', UNCHANGED <<disk, upd, result>>,
           \A m \in upd.ran : /\ Stale(m)' => Stale(m) /\ PlaceOf(m)' = PlaceOf(m)
                              /\ daemons'[m].state = "starting" => daemons'[m].code = disk.version
    PROVE  CycleInv'
<1>1. StartsNew'
    BY DEF StartsNew
<1>2. Seen'
    BY DEF CycleInv, Seen
<1>3. NoOldCode'
    BY DEF CycleInv, NoOldCode, Stale
<1> QED
    BY <1>1, <1>2, <1>3 DEF CycleInv

(* What the command notes of a machine settles it. *)
LEMMA Records ==
    ASSUME CycleInv, DownloadInv', NEW o \in SUBSET {"cycled", "skipped", "failed"}, Recorded(o), UNCHANGED disk,
           upd.at \in {"look", "stop", "wait", "respawn"}, upd.on \in Machines,
           \A m \in upd.ran : /\ Stale(m)' => Stale(m) /\ PlaceOf(m)' = PlaceOf(m)
                              /\ daemons'[m].state = "starting" => daemons'[m].code = disk.version,
           upd.on \in upd.ran /\ Stale(upd.on) /\ upd.at \in {"look", "stop"} /\ PlaceOf(upd.on) = upd.layout
           => "skipped" \in o \/ "failed" \in o
    PROVE  CycleInv'
<1>1. upd \in [at : {"find", "decide", "fetch", "verify", "temp", "rename", "exec", "look", "stop", "wait",
                     "respawn", "exit", "failed"},
               old : Versions, tag : Versions, force : BOOLEAN, good : BOOLEAN, had : BOOLEAN,
               todo : SUBSET Machines, on : Machines \cup {NoMachine}, layout : 1..3, ran : SUBSET Machines]
      /\ result \in [Machines -> SUBSET {"cycled", "skipped", "failed"}]
    BY DEF CycleInv, DownloadInv, UpdTypeOK
<1>2. /\ upd'.at = "look" /\ upd'.layout = upd.layout + 1 /\ upd'.on = upd.on /\ upd'.todo = upd.todo
      /\ upd'.ran = upd.ran
    BY <1>1 DEF Recorded
<1>3. \A m \in Machines : result'[m] = IF m = upd.on THEN result[m] \cup o ELSE result[m]
    BY <1>1 DEF Recorded
<1>4. StartsNew'
    BY <1>2 DEF StartsNew
<1>5. Seen'
    <2> SUFFICES ASSUME NEW m \in upd.ran, Stale(m)'
                 PROVE  \/ m \in upd.todo \/ "skipped" \in result'[m] \/ "failed" \in result'[m]
                        \/ upd.on = m /\ PlaceOf(m)' >= upd.layout + 1
        BY <1>2 DEF Seen
    <2>1. Stale(m) /\ PlaceOf(m)' = PlaceOf(m) /\ m \in Machines
        BY <1>1
    <2>2. CASE m \in upd.todo \/ "skipped" \in result[m] \/ "failed" \in result[m]
        BY <1>3, <2>1, <2>2
    <2>3. CASE upd.at \in {"look", "stop"} /\ upd.on = m /\ PlaceOf(m) >= upd.layout
        <3>1. CASE PlaceOf(m) = upd.layout
            BY <1>3, <2>1, <2>3, <3>1
        <3>2. CASE PlaceOf(m) > upd.layout
            BY <1>1, <2>1, <2>3, <3>2 DEF PlaceOf
        <3> QED
            BY <1>1, <2>3, <3>1, <3>2 DEF PlaceOf
    <2> QED
        BY <2>1, <2>2, <2>3 DEF CycleInv, Seen
<1>6. NoOldCode'
    BY <1>2 DEF NoOldCode
<1> QED
    BY <1>4, <1>5, <1>6 DEF CycleInv

(* The cycling's steps keep what it found and stopped. *)
LEMMA CycleStep == ASSUME CycleInv, [UpdNext]_zvars PROVE CycleInv'
<1>0. DownloadInv /\ DownloadInv' /\ UpdTypeOK
    BY DownloadStep DEF CycleInv, DownloadInv
<1> DEFINE Upds == [at : {"find", "decide", "fetch", "verify", "temp", "rename", "exec", "look", "stop", "wait",
                          "respawn", "exit", "failed"},
                    old : Versions, tag : Versions, force : BOOLEAN, good : BOOLEAN, had : BOOLEAN,
                    todo : SUBSET Machines, on : Machines \cup {NoMachine}, layout : 1..3, ran : SUBSET Machines]
           Daemon == [state : {"none", "starting", "up", "reconnecting", "stopping"}, code : Versions,
                      layout : {"legacy", "state"}, conf : BOOLEAN]
           Ages == \A m \in upd.ran : /\ Stale(m)' => Stale(m) /\ PlaceOf(m)' = PlaceOf(m)
                                      /\ daemons'[m].state = "starting" => daemons'[m].code = disk.version
<1>1. upd \in Upds /\ daemons \in [Machines -> Daemon]
      /\ result \in [Machines -> SUBSET {"cycled", "skipped", "failed"}]
    BY <1>0 DEF UpdTypeOK
<1>2. upd.at \in Before \cup {"exec"} => upd.ran = {}
    BY <1>0 DEF DownloadInv, NobodyYet
<1>3. UNCHANGED <<disk, daemons>> => Ages
    BY DEF Stale, PlaceOf, CycleInv, StartsNew
<1>4. CASE Fails \/ Find \/ Verify \/ WriteTemp \/ Decide \/ Fetch \/ RenameBinary
    <2>1. upd.at \in Before \cup {"exec"} /\ upd'.ran = upd.ran
        BY <1>1, <1>4 DEF Fails, Find, Verify, WriteTemp, Decide, Fetch, RenameBinary, Goes, Before
    <2> QED
        BY <1>0, <1>2, <2>1, NobodyRan
<1>5. CASE Reexec
    <2>1. /\ upd'.at = "look" /\ upd'.todo = Machines
          /\ upd'.ran = {m \in Machines : daemons[m].state \in Serving} /\ UNCHANGED <<disk, daemons, result>>
        BY <1>1, <1>5 DEF Reexec, Others
    <2>2. StartsNew'
        BY <2>1 DEF StartsNew, Serving
    <2>3. Seen' /\ NoOldCode'
        BY <2>1 DEF Seen, NoOldCode
    <2> QED
        BY <1>0, <2>2, <2>3 DEF CycleInv
<1>6. CASE NextMachine
    <2>1. PICK m \in upd.todo : upd' = [upd EXCEPT !.on = m, !.todo = upd.todo \ {m}, !.layout = 1]
        BY <1>6 DEF NextMachine
    <2>2. /\ upd.at = "look" /\ upd'.at = "look" /\ upd'.on = m /\ upd'.todo = upd.todo \ {m} /\ upd'.layout = 1
          /\ upd'.ran = upd.ran /\ upd.on = NoMachine /\ UNCHANGED <<disk, daemons, result>>
        BY <1>1, <1>6, <2>1 DEF NextMachine, Others
    <2>3. StartsNew' /\ NoOldCode'
        BY <2>2 DEF StartsNew, NoOldCode, CycleInv
    <2>4. NoMachine \notin upd.ran
        BY <1>1, UpdateAssumption
    <2>5. Seen'
        BY <2>2, <2>4 DEF Seen, CycleInv, Stale, PlaceOf
    <2> QED
        BY <1>0, <2>3, <2>5 DEF CycleInv
<1>7. CASE AllLooked
    <2>1. /\ upd.at = "look" /\ upd'.at = "look" /\ upd'.todo = upd.todo
          /\ upd'.ran = upd.ran /\ upd.layout > 2 /\ UNCHANGED <<disk, daemons, result>>
        BY <1>1, <1>7 DEF AllLooked, Others, Layouts
    <2>2. StartsNew' /\ NoOldCode'
        BY <2>1 DEF StartsNew, NoOldCode, CycleInv
    <2>3. Seen'
        BY <1>1, <2>1 DEF Seen, CycleInv, Stale, PlaceOf
    <2> QED
        BY <1>0, <2>2, <2>3 DEF CycleInv
<1>8. CASE Look
    <2>1. upd.at = "look" /\ upd.on \in Machines /\ upd.layout \in 1..2 /\ UNCHANGED <<disk, daemons>>
        BY <1>1, <1>8 DEF Look, Layouts
    <2>2. daemons[upd.on] \in Daemon
        BY <1>1, <2>1
    <2>3. CASE daemons[upd.on].state \notin Serving \/ daemons[upd.on].layout # Layouts[upd.layout]
        <3>1. Recorded({})
            BY <1>8, <2>3 DEF Look
        <3>2. ~(Stale(upd.on) /\ PlaceOf(upd.on) = upd.layout)
            BY <2>1, <2>2, <2>3 DEF Stale, PlaceOf, Layouts
        <3> QED
            BY <1>0, <1>3, <2>1, <3>1, <3>2, Records
    <2>4. CASE /\ daemons[upd.on].state \in Serving /\ daemons[upd.on].layout = Layouts[upd.layout]
               /\ daemons[upd.on].code = disk.version \/ daemons[upd.on].state = "reconnecting"
        <3>1. Recorded({"skipped"})
            BY <1>8, <2>4 DEF Look
        <3> QED
            BY <1>0, <1>3, <2>1, <3>1, Records
    <2>5. CASE /\ daemons[upd.on].state \in Serving /\ daemons[upd.on].layout = Layouts[upd.layout]
               /\ ~(daemons[upd.on].code = disk.version \/ daemons[upd.on].state = "reconnecting")
        <3>1. upd' = [upd EXCEPT !.at = "stop", !.had = daemons[upd.on].conf] /\ UNCHANGED result
            BY <1>8, <2>5 DEF Look
        <3>2. /\ upd'.at = "stop" /\ upd'.on = upd.on /\ upd'.layout = upd.layout /\ upd'.todo = upd.todo
              /\ upd'.ran = upd.ran
            BY <1>1, <3>1
        <3>3. StartsNew' /\ NoOldCode'
            BY <2>1, <3>2 DEF StartsNew, NoOldCode, CycleInv
        <3>4. Seen'
            BY <2>1, <3>1, <3>2 DEF Seen, CycleInv, Stale, PlaceOf
        <3> QED
            BY <1>0, <3>3, <3>4 DEF CycleInv
    <2> QED
        BY <2>3, <2>4, <2>5
<1>9. CASE StopDaemon
    <2>1. upd.at = "stop" /\ upd.on \in Machines /\ upd.layout \in 1..2 /\ UNCHANGED disk
        BY <1>0, <1>1, <1>9 DEF StopDaemon, DownloadInv, Placed
    <2>2. CASE Recorded({"failed"}) /\ UNCHANGED daemons
        BY <1>0, <1>3, <2>1, <2>2, Records
    <2>3. CASE There(Serving) /\ daemons' = [daemons EXCEPT ![upd.on].state = "stopping"] /\ Goes("wait")
               /\ UNCHANGED result
        <3>1. /\ upd'.at = "wait" /\ upd'.on = upd.on /\ upd'.todo = upd.todo /\ upd'.ran = upd.ran
            BY <1>1, <2>3 DEF Goes
        <3>2. daemons'[upd.on].state = "stopping" /\ \A m \in Machines \ {upd.on} : daemons'[m] = daemons[m]
            BY <1>1, <2>1, <2>3
        <3>3. StartsNew' /\ NoOldCode'
            BY <1>1, <2>1, <3>1, <3>2 DEF StartsNew, NoOldCode, CycleInv
        <3>4. ~Stale(upd.on)'
            BY <3>2, <3>1 DEF Stale, Serving
        <3>5. Seen'
            BY <1>1, <2>1, <2>3, <3>1, <3>2 DEF Seen, CycleInv, Stale, PlaceOf, Serving
        <3> QED
            BY <1>0, <3>3, <3>5 DEF CycleInv
    <2> QED
        BY <1>9, <2>2, <2>3 DEF StopDaemon
<1>10. CASE WaitEnds
    <2>1. upd.at = "wait" /\ upd.on \in Machines /\ UNCHANGED <<disk, daemons>>
        BY <1>0, <1>1, <1>10 DEF WaitEnds, DownloadInv, Placed
    <2>2. CASE \E o \in SUBSET {"cycled", "skipped", "failed"} : Recorded(o)
        BY <1>0, <1>3, <2>1, <2>2, Records
    <2>3. CASE Goes("respawn") /\ UNCHANGED result
        <3>1. upd'.at = "respawn" /\ upd'.todo = upd.todo /\ upd'.ran = upd.ran
            BY <1>1, <2>3 DEF Goes
        <3>2. StartsNew' /\ NoOldCode'
            BY <2>1, <3>1 DEF StartsNew, NoOldCode, CycleInv
        <3>3. Seen'
            BY <2>1, <2>3, <3>1 DEF Seen, CycleInv, Stale
        <3> QED
            BY <1>0, <3>2, <3>3 DEF CycleInv
    <2> QED
        BY <1>10, <2>2, <2>3 DEF WaitEnds
<1>11. ASSUME NEW k \in Machines, UNCHANGED <<disk, upd, result>>,
              daemons' = [daemons EXCEPT ![k] = [Absent EXCEPT !.state = "starting", !.code = disk.version]]
       PROVE  CycleInv'
    <2>1. daemons'[k].state = "starting" /\ daemons'[k].code = disk.version
        BY <1>1, <1>11 DEF Absent
    <2>2. \A m \in Machines \ {k} : daemons'[m] = daemons[m]
        BY <1>1, <1>11
    <2>3. Ages
        BY <1>1, <1>11, <2>1, <2>2 DEF Stale, PlaceOf, Serving, CycleInv, StartsNew
    <2> QED
        BY <1>0, <1>11, <2>3, DaemonsAge
<1>12. CASE Spawn
    <2>1. upd.on \in Machines
        BY <1>0, <1>1, <1>12 DEF Spawn, DownloadInv, Placed
    <2> QED
        BY <1>11, <1>12, <2>1 DEF Spawn
<1>13. CASE Restarted
    <2>1. upd.at = "respawn" /\ upd.on \in Machines /\ UNCHANGED disk
        BY <1>0, <1>1, <1>13 DEF Restarted, DownloadInv, Placed
    <2>2. \E o \in SUBSET {"cycled", "skipped", "failed"} : Recorded(o)
        BY <1>13 DEF Restarted
    <2>3. daemons' = daemons \/ daemons' = [daemons EXCEPT ![upd.on].conf = TRUE]
        BY <1>13 DEF Restarted
    <2>4. \A m \in Machines : /\ daemons'[m].state = daemons[m].state /\ daemons'[m].code = daemons[m].code
                              /\ daemons'[m].layout = daemons[m].layout
        BY <1>1, <2>1, <2>3
    <2>5. Ages
        BY <1>1, <2>1, <2>4 DEF Stale, PlaceOf, CycleInv, StartsNew
    <2> QED
        BY <1>0, <2>1, <2>2, <2>5, Records
<1>14. CASE Finished
    <2>1. /\ upd.at = "look" /\ upd.on = NoMachine /\ upd.todo = {} /\ UNCHANGED <<disk, daemons, result>>
          /\ Goes(IF \E m \in Machines : "failed" \in result[m] THEN "failed" ELSE "exit")
        BY <1>14 DEF Finished, Others
    <2>2. /\ upd'.at = IF \E m \in Machines : "failed" \in result[m] THEN "failed" ELSE "exit"
          /\ upd'.ran = upd.ran /\ upd'.todo = upd.todo /\ upd.ran \subseteq Machines
        BY <1>1, <2>1 DEF Goes
    <2>3. \A m \in upd.ran : Stale(m) => "skipped" \in result[m] \/ "failed" \in result[m]
        BY <2>1, <2>2, UpdateAssumption DEF CycleInv, Seen
    <2>4. StartsNew' /\ Seen'
        BY <2>1, <2>2, <2>3 DEF CycleInv, StartsNew, Seen, Stale
    <2>5. NoOldCode'
        BY <2>1, <2>2, <2>3 DEF NoOldCode, Stale
    <2> QED
        BY <1>0, <2>4, <2>5 DEF CycleInv
<1>15. ASSUME NEW k \in Machines, DaemonMoves(k) PROVE CycleInv'
    <2>1. UNCHANGED <<disk, upd, result>>
        BY <1>15 DEF DaemonMoves
    <2>2. \A m \in Machines \ {k} : daemons'[m] = daemons[m]
        BY <1>1, <1>15 DEF DaemonMoves
    <2>3. \/ daemons'[k] = Absent
          \/ /\ daemons'[k].code = daemons[k].code /\ daemons'[k].layout = daemons[k].layout
             /\ daemons[k].state \in Serving \cup {"starting"} /\ daemons'[k].state \in Serving
        BY <1>1, <1>15 DEF DaemonMoves, Serving
    <2>4. Ages
        BY <1>1, <2>1, <2>2, <2>3 DEF Stale, PlaceOf, Serving, CycleInv, StartsNew, Absent
    <2> QED
        BY <1>0, <2>1, <2>4, DaemonsAge
<1>16. ASSUME NEW k \in Machines, SessionRedials(k) PROVE CycleInv'
    BY <1>11, <1>16 DEF SessionRedials
<1>17. CASE UNCHANGED zvars
    BY <1>0, <1>17 DEF zvars, CycleInv, StartsNew, Seen, NoOldCode, Stale, PlaceOf
<1> QED
    BY <1>4, <1>5, <1>6, <1>7, <1>8, <1>9, <1>10, <1>12, <1>13, <1>14, <1>15, <1>16, <1>17 DEF UpdNext

(* An update that reports success leaves no daemon it found serving on the *)
(* old code unreported, for any number of machines, whichever layout each  *)
(* serves from and however daemons drop, exit and come back while they are *)
(* cycled (restartDaemons).                                                *)
THEOREM UpdatesLeaveNoOldCode == UpdSpec => []NoOldCode
<1>1. CycleInv /\ [UpdNext]_zvars => CycleInv'
    BY CycleStep
<1>2. CycleInv => NoOldCode
    BY DEF CycleInv
<1> QED
    BY <1>1, <1>2, CycleInit, PTL DEF UpdSpec

-----------------------------------------------------------------------------
(***************************************************************************)
(* Edits of saved forwards (SavedPorts): the files of a machine implement  *)
(* one list that changes by a whole edit at a time, and a deleted machine  *)
(* keeps no list, for any number of processes, killed anywhere.            *)
(***************************************************************************)
Critical == {"check", "save", "clear", "unmark"}
Migrating == {"recheck", "build", "rename"}

(* Who is past a flock holds it. *)
Locked == /\ \A e \in Procs : plock = e <=> at[e] \in Critical
          /\ \A e \in Procs : mlock = e <=> at[e] \in Migrating

(* The directory appears once, under the migration's lock, and an edit     *)
(* comes after it; what an edit read under the list's lock still holds.    *)
Whereabouts == /\ \A e \in Procs : at[e] \in Critical \cup {"open", "flock"} => dir.there
               /\ \A e \in Procs : at[e] \in {"build", "rename"} => ~dir.there
               /\ \A e \in Procs : at[e] = "save" => task[e].before = dir.list

PortsInv == SavedTypeOK /\ Locked /\ Whereabouts

(* No task is a task. *)
LEMMA NoTaskType == NoTask \in Tasks
  BY PortsAssumption DEF NoTask, Tasks, Ops

(* At first nobody edits and nothing is saved. *)
LEMMA PortsInit == SavedInit => PortsInv
<1> SUFFICES ASSUME SavedInit PROVE PortsInv
  OBVIOUS
<1>1. SavedTypeOK
  BY NoTaskType DEF SavedInit, SavedTypeOK, Whole, Places
<1>2. Locked /\ Whereabouts
  BY ProcsAssumption DEF SavedInit, Locked, Whereabouts, Critical, Migrating
<1> QED  BY <1>1, <1>2 DEF PortsInv

(* A command that leaves keeps the types. *)
LEMMA LeaveType ==
  ASSUME SavedTypeOK, NEW e \in Procs, Leave(e)
  PROVE  at' \in [Procs -> Places] /\ task' \in [Procs -> Tasks]
  BY NoTaskType DEF SavedTypeOK, Leave, Places

(* Every step keeps the types. *)
LEMMA SavedStepTypes == SavedTypeOK /\ [SavedNext]_svars => SavedTypeOK'
<1> SUFFICES ASSUME SavedTypeOK, [SavedNext]_svars PROVE SavedTypeOK'
  OBVIOUS
<1> USE DEF SavedTypeOK, Move, Places, world
<1>1. ASSUME NEW e \in Procs, NEW op \in Ops, NEW p \in Ports, Launch(e, op, p) PROVE SavedTypeOK'
  <2>1. task' \in [Procs -> Tasks]
    BY <1>1, NoTaskType DEF Launch, Tasks
  <2>2. at' \in [Procs -> Places]
    BY <1>1 DEF Launch
  <2> QED  BY <1>1, <2>1, <2>2 DEF Launch
<1>2. ASSUME NEW e \in Procs, Box(e) PROVE SavedTypeOK'
  BY <1>2, LeaveType DEF Box
<1>2a. ASSUME NEW e \in Procs, Proxied(e) PROVE SavedTypeOK'
  <2>1. machine' \subseteq {"box", "mark"}
    BY <1>2a DEF Proxied
  <2> QED  BY <1>2a, <2>1, LeaveType DEF Proxied, Seeds, Deregistered, Unanswered
<1>3. ASSUME NEW e \in Procs, Mark(e) PROVE SavedTypeOK'
  BY <1>3, LeaveType DEF Mark
<1>4. ASSUME NEW e \in Procs, Registered(e) PROVE SavedTypeOK'
  <2>1. task' \in [Procs -> Tasks]
    <3>1. StillThere \in BOOLEAN
      BY DEF StillThere, OnHub
    <3>2. task' = [task EXCEPT ![e].registered = StillThere]
      BY <1>4 DEF Registered
    <3> DEFINE t == [task[e] EXCEPT !.registered = StillThere]
    <3>3. t \in Tasks
      <4>1. task[e] \in Tasks
        OBVIOUS
      <4>2. \A b \in BOOLEAN : [task[e] EXCEPT !.registered = b] \in Tasks
        BY <4>1 DEF Tasks
      <4> QED  BY <3>1, <4>2
    <3>4. task' = [task EXCEPT ![e] = t]
      BY <3>2
    <3> QED  BY <3>3, <3>4
  <2> QED  BY <1>4, <2>1 DEF Registered
<1>5. ASSUME NEW e \in Procs, Stat(e) \/ MigrateLock(e) \/ Recheck(e) PROVE SavedTypeOK'
  BY <1>5 DEF Stat, MigrateLock, Recheck, Migrated
<1>6. ASSUME NEW e \in Procs, Build(e) PROVE SavedTypeOK'
  BY <1>6, LeaveType DEF Build
<1>7. ASSUME NEW e \in Procs, Rename(e) PROVE SavedTypeOK'
  <2>1. dir' \in [there : BOOLEAN, list : SUBSET Ports, lockFile : BOOLEAN]
    <3>1. [there |-> TRUE, list |-> legacy.list, lockFile |-> FALSE]
            \in [there : BOOLEAN, list : SUBSET Ports, lockFile : BOOLEAN]
      OBVIOUS
    <3> QED  BY <1>7, <3>1 DEF Rename
  <2>2. at' \in [Procs -> Places] /\ task' \in [Procs -> Tasks]
    BY <1>7, LeaveType DEF Rename, Migrated
  <2> QED  BY <1>7, <2>1, <2>2 DEF Rename
<1>8. ASSUME NEW e \in Procs, OpenLock(e) \/ Flock(e) PROVE SavedTypeOK'
  BY <1>8 DEF OpenLock, Flock
<1>9. ASSUME NEW e \in Procs, Check(e) PROVE SavedTypeOK'
  <2>1. CASE Gone(e)
    BY <1>9, <2>1, LeaveType DEF Check, Unlock
  <2>2. CASE ~Gone(e)
    <3>1. task' = [task EXCEPT ![e].before = dir.list] /\ dir.list \subseteq Ports
      BY <1>9, <2>2 DEF Check
    <3>2. task' \in [Procs -> Tasks]
      BY <3>1 DEF Tasks
    <3> QED  BY <1>9, <2>2, <3>2 DEF Check
  <2> QED  BY <2>1, <2>2
<1>10. ASSUME NEW e \in Procs, Save(e) PROVE SavedTypeOK'
  <2>1. Edited(task[e]) \subseteq Ports
    BY PortsAssumption DEF Edited, Tasks
  <2>2. dir' \in [there : BOOLEAN, list : SUBSET Ports, lockFile : BOOLEAN] /\ late' \in BOOLEAN
    BY <1>10, <2>1 DEF Save, Tasks
  <2> QED  BY <1>10, <2>2, LeaveType DEF Save, Unlock
<1>11. ASSUME NEW e \in Procs, Clear(e) PROVE SavedTypeOK'
  BY <1>11, LeaveType DEF Clear, Unlock
<1>12. ASSUME NEW e \in Procs, Unmark(e) \/ Killed(e) PROVE SavedTypeOK'
  BY <1>12, LeaveType DEF Unmark, Killed, Unlock
<1>13. CASE Repair \/ Elsewhere \/ UNCHANGED svars
  BY <1>13 DEF Repair, Elsewhere, svars
<1> QED  BY <1>1, <1>2, <1>2a, <1>3, <1>4, <1>5, <1>6, <1>7, <1>8, <1>9, <1>10, <1>11, <1>12, <1>13 DEF SavedNext
(* A process that leaves is nowhere any more; the others are where they were. *)
LEMMA LeavePlace ==
  ASSUME SavedTypeOK, NEW e \in Procs, Leave(e)
  PROVE  /\ at'[e] = "rest" /\ \A d \in Procs \ {e} : at'[d] = at[d] /\ task'[d] = task[d]
  BY DEF SavedTypeOK, Leave

(* Every step keeps the locks exclusive, and each command where its lock says it is. *)
LEMMA SavedStepLocks == PortsInv /\ [SavedNext]_svars => Locked' /\ Whereabouts'
<1> SUFFICES ASSUME PortsInv, [SavedNext]_svars PROVE Locked' /\ Whereabouts'
  OBVIOUS
<1> USE ProcsAssumption DEF PortsInv, SavedTypeOK, Locked, Whereabouts, Critical, Migrating, Move, world
<1>1. ASSUME NEW e \in Procs, NEW op \in Ops, NEW p \in Ports, Launch(e, op, p) PROVE Locked' /\ Whereabouts'
  <2>1. at[e] = "rest" /\ at'[e] \in {"stat", "mark", "box", "reg"} /\ UNCHANGED <<dir, mlock, plock>>
        /\ \A d \in Procs \ {e} : at'[d] = at[d] /\ task'[d] = task[d]
    BY <1>1 DEF Launch
  <2> QED  BY <2>1
<1>2. ASSUME NEW e \in Procs, Box(e) \/ Proxied(e) \/ Mark(e) PROVE Locked' /\ Whereabouts'
  <2>1. at[e] \in {"box", "mark"} /\ at'[e] \in {"rest", "stat", "mark", "reg"} /\ UNCHANGED <<dir, mlock, plock>>
        /\ \A d \in Procs \ {e} : at'[d] = at[d] /\ task'[d] = task[d]
    BY <1>2, LeavePlace DEF Box, Mark, Proxied, Seeds, Deregistered, Unanswered
  <2> QED  BY <2>1
<1>3. ASSUME NEW e \in Procs, Registered(e) PROVE Locked' /\ Whereabouts'
  BY <1>3 DEF Registered
<1>4. ASSUME NEW e \in Procs, Stat(e) PROVE Locked' /\ Whereabouts'
  BY <1>4 DEF Stat, Migrated
<1>5. ASSUME NEW e \in Procs, MigrateLock(e) PROVE Locked' /\ Whereabouts'
  BY <1>5 DEF MigrateLock
<1>6. ASSUME NEW e \in Procs, Recheck(e) PROVE Locked' /\ Whereabouts'
  BY <1>6 DEF Recheck, Migrated
<1>7. ASSUME NEW e \in Procs, Build(e) PROVE Locked' /\ Whereabouts'
  BY <1>7, LeavePlace DEF Build
<1>8. ASSUME NEW e \in Procs, Rename(e) PROVE Locked' /\ Whereabouts'
  <2>1. ~dir.there /\ at[e] = "rename" /\ mlock = e
    BY <1>8 DEF Rename
  <2>2. \A d \in Procs : at[d] \notin Critical \cup {"open", "flock"} /\ (d # e => at[d] \notin Migrating)
    BY <2>1
  <2>3. /\ at'[e] \in {"rest", "open"} /\ dir'.there /\ mlock' = Nobody /\ UNCHANGED plock
        /\ \A d \in Procs \ {e} : at'[d] = at[d]
    BY <1>8, <2>1 DEF Rename, Migrated
  <2> QED  BY <2>1, <2>2, <2>3
<1>9. ASSUME NEW e \in Procs, OpenLock(e) PROVE Locked' /\ Whereabouts'
  BY <1>9 DEF OpenLock
<1>10. ASSUME NEW e \in Procs, Flock(e) PROVE Locked' /\ Whereabouts'
  BY <1>10 DEF Flock
<1>11. ASSUME NEW e \in Procs, Check(e) PROVE Locked' /\ Whereabouts'
  <2>1. CASE Gone(e)
    BY <1>11, <2>1, LeavePlace DEF Check, Unlock
  <2>2. CASE ~Gone(e)
    BY <1>11, <2>2 DEF Check, Tasks
  <2> QED  BY <2>1, <2>2
<1>12. ASSUME NEW e \in Procs, Save(e) \/ Unmark(e) \/ (Clear(e) /\ kind # "smol") PROVE Locked' /\ Whereabouts'
  <2>1. at[e] \in Critical /\ plock = e
    BY <1>12 DEF Save, Unmark, Clear
  <2>2. \A d \in Procs \ {e} : at[d] \notin Critical /\ at'[d] = at[d]
    BY <1>12, <2>1, LeavePlace DEF Save, Unmark, Clear
  <2>3. at'[e] = "rest" /\ plock' = Nobody /\ dir'.there = dir.there /\ UNCHANGED mlock
    BY <1>12, <2>1, LeavePlace DEF Save, Unmark, Clear, Unlock
  <2> QED  BY <2>1, <2>2, <2>3
<1>13. ASSUME NEW e \in Procs, Clear(e), kind = "smol" PROVE Locked' /\ Whereabouts'
  BY <1>13 DEF Clear
<1>14. ASSUME NEW e \in Procs, Killed(e) PROVE Locked' /\ Whereabouts'
  BY <1>14, LeavePlace DEF Killed, Unlock
<1>15. CASE Repair \/ Elsewhere \/ UNCHANGED svars
  BY <1>15 DEF Repair, Elsewhere, svars
<1> QED  BY <1>1, <1>2, <1>3, <1>4, <1>5, <1>6, <1>7, <1>8, <1>9, <1>10, <1>11, <1>12, <1>13, <1>14, <1>15 DEF SavedNext
(* Every step keeps the invariant. *)
LEMMA SavedStep == PortsInv /\ [SavedNext]_svars => PortsInv'
  BY SavedStepTypes, SavedStepLocks DEF PortsInv

(* Whatever else a step does, the list a reader finds changes only in      *)
(* editPorts' save and in a deletion's clear, and by what these were asked.*)
LEMMA ListChanges == PortsInv /\ [SavedNext]_svars => [Register!RegisterNext]_Visible
<1> SUFFICES ASSUME PortsInv, [SavedNext]_svars PROVE Register!RegisterNext \/ Visible' = Visible
  OBVIOUS
<1> USE DEF PortsInv, SavedTypeOK, Whereabouts, Critical, Visible, world, Move
<1>1. ASSUME NEW e \in Procs, Save(e) PROVE Register!RegisterNext \/ Visible' = Visible
  <2>1. /\ at[e] = "save" /\ dir.there /\ task[e] \in Tasks /\ task[e].before = dir.list
        /\ dir' = [dir EXCEPT !.list = IF Edited(task[e]) = dir.list THEN @ ELSE Edited(task[e])]
    BY <1>1 DEF Save
  <2>2. Visible = dir.list /\ Visible' = Edited(task[e])
    BY <2>1
  <2>3. CASE task[e].op = "add"
    <3>1. Visible' = Visible \cup {task[e].port} /\ task[e].port \in Ports
      BY <2>1, <2>2, <2>3 DEF Edited, Tasks
    <3> QED  BY <3>1 DEF Register!RegisterNext, Register!Add
  <2>4. CASE task[e].op = "rm"
    <3>1. Visible' = Visible \ {task[e].port} /\ task[e].port \in Ports
      BY <2>1, <2>2, <2>4 DEF Edited, Tasks
    <3> QED  BY <3>1 DEF Register!RegisterNext, Register!Drop
  <2>5. CASE task[e].op = "seed"
    <3>1. Visible' = Visible \cup Template
      BY <2>1, <2>2, <2>5 DEF Edited
    <3> QED  BY <3>1 DEF Register!RegisterNext, Register!Seed
  <2>6. CASE task[e].op \notin {"add", "rm", "seed"}
    <3>1. Visible' = Template
      BY <2>2, <2>6 DEF Edited
    <3> QED  BY <3>1 DEF Register!RegisterNext, Register!Replace
  <2> QED  BY <2>3, <2>4, <2>5, <2>6
<1>2. ASSUME NEW e \in Procs, Clear(e) PROVE Register!RegisterNext \/ Visible' = Visible
  <2>1. dir.there /\ dir' = [dir EXCEPT !.list = {}]
    BY <1>2 DEF Clear
  <2>2. Visible' = {}
    BY <2>1
  <2> QED  BY <2>2 DEF Register!RegisterNext, Register!Forgotten
<1>3. ASSUME NEW e \in Procs, Rename(e) PROVE Visible' = Visible
  <2>1. ~dir.there /\ dir' = [there |-> TRUE, list |-> legacy.list, lockFile |-> FALSE]
    BY <1>3 DEF Rename
  <2> QED  BY <2>1
<1>4. ASSUME NEW e \in Procs, OpenLock(e) PROVE Visible' = Visible
  BY <1>4 DEF OpenLock
<1>5. CASE Repair \/ Elsewhere
  BY <1>5 DEF Repair, Elsewhere
<1>6. ASSUME NEW e \in Procs, NEW op \in Ops, NEW p \in Ports, Launch(e, op, p) PROVE Visible' = Visible
  BY <1>6 DEF Launch
<1>7. ASSUME NEW e \in Procs,
             Box(e) \/ Proxied(e) \/ Mark(e) \/ Registered(e) \/ Stat(e) \/ MigrateLock(e) \/ Recheck(e) \/ Build(e)
             \/ Flock(e) \/ Check(e) \/ Unmark(e) \/ Killed(e)
      PROVE  Visible' = Visible
  BY <1>7 DEF Box, Proxied, Mark, Registered, Stat, MigrateLock, Recheck, Build, Flock, Check, Unmark, Killed
<1>8. CASE UNCHANGED svars
  BY <1>8 DEF svars
<1> QED  BY <1>1, <1>2, <1>3, <1>4, <1>5, <1>6, <1>7, <1>8 DEF SavedNext

(* LockPorts, editPorts and MigratePorts: any number of commands and the   *)
(* migration, at once and killed anywhere, implement one list per machine  *)
(* that changes by a whole edit at a time.                                 *)
THEOREM ImplementsRegister == SavedSpec => IsRegister
<1>1. SavedInit => Register!RegisterInit
  BY DEF SavedInit, Register!RegisterInit, Visible
<1> QED  BY <1>1, PortsInit, SavedStep, ListChanges, PTL DEF SavedSpec, IsRegister, Register!RegisterSpec

-----------------------------------------------------------------------------
(* Lists of deleted machines. *)

(* A VM without its marker has no list, and whoever is about to save saw   *)
(* the marker under the lock or never asked for it.                        *)
Forgotten ==
  kind = "smol" =>
    /\ ~late /\ "mark" \notin machine => Visible = {}
    /\ \A e \in Procs : at[e] = "mark" => task[e].op = "create"
    /\ \A e \in Procs : at[e] = "save" /\ task[e].registered => "mark" \in machine
    /\ \A e \in Procs : at[e] = "unmark" => Visible = {}

(* At first no machine was deleted. *)
LEMMA ForgottenInit == SavedInit => Forgotten
<1> SUFFICES ASSUME SavedInit, kind = "smol" PROVE Forgotten
  BY DEF Forgotten
<1>1. Visible = legacy.list /\ \A e \in Procs : at[e] = "rest"
  BY DEF SavedInit, Visible
<1>2. "mark" \notin machine => machine = {}
  BY DEF SavedInit, Whole
<1>3. machine = {} /\ ~late => legacy.list = {}
  BY DEF SavedInit
<1> QED  BY <1>1, <1>2, <1>3 DEF Forgotten

(* Every step leaves the deleted machines without a list. *)
LEMMA ForgottenStep == PortsInv /\ Forgotten /\ [SavedNext]_svars => Forgotten'
<1> SUFFICES ASSUME PortsInv, Forgotten, [SavedNext]_svars PROVE Forgotten'
  OBVIOUS
<1> USE DEF PortsInv, SavedTypeOK, Locked, Whereabouts, Critical, Forgotten, Visible, world, Move
<1>1. ASSUME NEW e \in Procs, NEW op \in Ops, NEW p \in Ports, Launch(e, op, p) PROVE Forgotten'
  <2>1. at[e] = "rest" /\ at'[e] \in {"stat", "mark", "box", "reg"} /\ UNCHANGED <<kind, machine, legacy, dir, late>>
        /\ \A d \in Procs \ {e} : at'[d] = at[d] /\ task'[d] = task[d]
    BY <1>1 DEF Launch
  <2>2. kind = "smol" => at'[e] # "mark"
    BY <1>1 DEF Launch, OnHub
  <2> QED  BY <2>1, <2>2
<1>2. ASSUME NEW e \in Procs, Box(e) PROVE Forgotten'
  <2>1. /\ at[e] = "box" /\ "mark" \in machine' <=> "mark" \in machine
        /\ UNCHANGED <<kind, legacy, dir, late>>
        /\ \A d \in Procs \ {e} : at'[d] = at[d] /\ task'[d] = task[d]
    BY <1>2, LeavePlace DEF Box
  <2>2. at'[e] \in {"rest", "stat", "mark", "reg"} /\ (at'[e] = "mark" => task'[e].op = "create")
    BY <1>2, LeavePlace DEF Box
  <2> QED  BY <2>1, <2>2
<1>2a. ASSUME Elsewhere \/ \E e \in Procs : Proxied(e) PROVE Forgotten'
  BY <1>2a DEF Proxied, Elsewhere, OnHub
<1>3. ASSUME NEW e \in Procs, Mark(e) PROVE Forgotten'
  <2>1. /\ at[e] = "mark" /\ at'[e] \in {"rest", "stat", "reg"}
        /\ UNCHANGED <<kind, legacy, dir, late>>
        /\ \A d \in Procs \ {e} : at'[d] = at[d] /\ task'[d] = task[d]
    BY <1>3, LeavePlace DEF Mark
  <2>2. ASSUME kind = "smol" PROVE "mark" \in machine => "mark" \in machine'
    <3>1. task[e].op = "create"
      BY <2>1, <2>2
    <3> QED  BY <1>3, <3>1 DEF Mark
  <2> QED  BY <2>1, <2>2
<1>4. ASSUME NEW e \in Procs, Registered(e) PROVE Forgotten'
  BY <1>4 DEF Registered
<1>5. ASSUME NEW e \in Procs, Stat(e) \/ MigrateLock(e) \/ Recheck(e) \/ OpenLock(e) PROVE Forgotten'
  BY <1>5 DEF Stat, MigrateLock, Recheck, OpenLock, Migrated
<1>6. ASSUME NEW e \in Procs, Build(e) PROVE Forgotten'
  <2>1. UNCHANGED <<kind, machine, legacy, dir, late>> /\ at'[e] \in {"rest", "rename"}
        /\ \A d \in Procs \ {e} : at'[d] = at[d] /\ task'[d] = task[d]
    BY <1>6, LeavePlace DEF Build
  <2> QED  BY <2>1
<1>7. ASSUME NEW e \in Procs, Rename(e) PROVE Forgotten'
  <2>1. ~dir.there /\ dir' = [there |-> TRUE, list |-> legacy.list, lockFile |-> FALSE]
        /\ UNCHANGED <<kind, machine, legacy, late, task>>
        /\ at'[e] \in {"rest", "open"} /\ \A d \in Procs \ {e} : at'[d] = at[d]
    BY <1>7 DEF Rename, Migrated
  <2>2. UNCHANGED Visible
    BY <2>1
  <2> QED  BY <2>1, <2>2
<1>8. ASSUME NEW e \in Procs, Flock(e) PROVE Forgotten'
  BY <1>8 DEF Flock
<1>9. ASSUME NEW e \in Procs, Check(e) PROVE Forgotten'
  <2>1. CASE Gone(e)
    BY <1>9, <2>1, LeavePlace DEF Check
  <2>2. CASE ~Gone(e)
    <3>1. /\ at[e] = "check" /\ at' = [at EXCEPT ![e] = "save"] /\ UNCHANGED <<kind, machine, legacy, dir, late>>
          /\ task' = [task EXCEPT ![e].before = dir.list]
      BY <1>9, <2>2 DEF Check
    <3>2. kind = "smol" /\ task[e].registered => "mark" \in machine
      BY <2>2 DEF Gone, StillThere, OnHub
    <3>3. \A d \in Procs : task'[d].registered = task[d].registered /\ task'[d].op = task[d].op
      BY <3>1 DEF Tasks
    <3> QED  BY <3>1, <3>2, <3>3
  <2> QED  BY <2>1, <2>2
<1>10. ASSUME NEW e \in Procs, Save(e) PROVE Forgotten'
  <2>1. /\ at[e] = "save" /\ at'[e] = "rest" /\ UNCHANGED <<kind, machine, legacy>>
        /\ \A d \in Procs \ {e} : at'[d] = at[d] /\ task'[d] = task[d] /\ at[d] \notin Critical
    BY <1>10, LeavePlace DEF Save
  <2>2. /\ late' = (late \/ (~task[e].registered /\ Edited(task[e]) # dir.list))
        /\ dir' = [dir EXCEPT !.list = IF Edited(task[e]) = dir.list THEN @ ELSE Edited(task[e])]
    BY <1>10 DEF Save
  <2>3. kind = "smol" /\ ~late' /\ "mark" \notin machine => UNCHANGED dir
    BY <2>1, <2>2
  <2> QED  BY <2>1, <2>2, <2>3
<1>11. ASSUME NEW e \in Procs, Clear(e) PROVE Forgotten'
  <2>1. /\ at[e] = "clear" /\ at'[e] \in {"rest", "unmark"} /\ UNCHANGED <<kind, machine, legacy, late>>
        /\ dir.there /\ dir' = [dir EXCEPT !.list = {}]
        /\ \A d \in Procs \ {e} : at'[d] = at[d] /\ task'[d] = task[d]
    BY <1>11, LeavePlace DEF Clear
  <2>2. Visible' = {}
    BY <2>1
  <2> QED  BY <2>1, <2>2
<1>12. ASSUME NEW e \in Procs, Unmark(e) PROVE Forgotten'
  <2>1. /\ at[e] = "unmark" /\ at'[e] = "rest" /\ UNCHANGED <<kind, legacy, dir, late>>
        /\ \A d \in Procs \ {e} : at'[d] = at[d] /\ task'[d] = task[d] /\ at[d] \notin Critical
    BY <1>12, LeavePlace DEF Unmark
  <2> QED  BY <2>1
<1>13. ASSUME NEW e \in Procs, Killed(e) PROVE Forgotten'
  <2>1. /\ at'[e] = "rest" /\ UNCHANGED <<kind, machine, legacy, dir, late>>
        /\ \A d \in Procs \ {e} : at'[d] = at[d] /\ task'[d] = task[d]
    BY <1>13, LeavePlace DEF Killed
  <2> QED  BY <2>1
<1>14. CASE Repair \/ UNCHANGED svars
  BY <1>14 DEF Repair, svars
<1> QED  BY <1>1, <1>2, <1>2a, <1>3, <1>4, <1>5, <1>6, <1>7, <1>8, <1>9, <1>10, <1>11, <1>12, <1>13, <1>14 DEF SavedNext

(* forgetHostState and editPorts' second look: a VM that was deleted keeps  *)
(* no list, whoever edits it meanwhile, unless somebody who never saw its  *)
(* marker saved one.                                                       *)
THEOREM DeletedKeepsNoList == SavedSpec => []NoStrayList
<1>1. Forgotten => NoStrayList
  BY DEF Forgotten, NoStrayList, Visible
<1> QED  BY <1>1, PortsInit, SavedStep, ForgottenInit, ForgottenStep, PTL DEF SavedSpec

(***************************************************************************)
(* The types of whichever component runs (MCHost).                         *)
(***************************************************************************)

(* A text is a sequence of lines and a command has a place and two texts. *)
LEMMA ConfigTypes == FileShape => ConfigTypeOK
BY DEF FileShape, Commands, ConfigTypeOK

(* Of the component that runs, what is inductive. *)
HostInv ==
    /\ part \in {"providers", "ports", "boot", "config", "update", "open"}
    /\ part = "providers" => ProvidersTypeOK
    /\ part = "ports" => SavedTypeOK
    /\ part = "boot" => BootInv
    /\ part = "config" => FileShape
    /\ part = "update" => DownloadInv
    /\ part = "open" => RoutingInv /\ WaitsInv /\ CountsInv

(* At first each component is where its own specification starts it. *)
LEMMA HostStarts == HostInit => HostInv
<1> SUFFICES ASSUME HostInit PROVE HostInv
    OBVIOUS
<1>1. /\ part \in {"providers", "ports", "boot", "config", "update", "open"}
      /\ ProvidersInit /\ SmolInit /\ SavedInit /\ ConfigInit /\ UpdInit /\ OpensInit
    BY DEF HostInit
<1>2. ProvidersTypeOK /\ SavedTypeOK /\ BootInv /\ FileShape /\ DownloadInv
    BY <1>1, ProvidersInitTypes, PortsInit, BootInit, CutInit, DownloadInit DEF PortsInv, CutInv
<1>3. RoutingInv /\ WaitsInv /\ CountsInv
    BY <1>1, RoutingInit, WaitsInit, CountsInit
<1> QED
    BY <1>1, <1>2, <1>3 DEF HostInv

(***************************************************************************)
(* Whatever the commands on the laptop do, and in whatever order, every    *)
(* variable of theirs keeps its type: servers and their numbers, lists,    *)
(* boots, texts, versions, and the numbers, waits and sessions of opens.   *)
(***************************************************************************)
THEOREM HostKeepsTypes == HostSpec => []HostTypeOK
<1>1. HostInv /\ [HostNext]_hostvars => HostInv'
    <2> SUFFICES ASSUME HostInv, [HostNext]_hostvars PROVE HostInv'
        OBVIOUS
    <2>1. CASE part = "providers" /\ ProvidersNext /\ UNCHANGED part
        BY <2>1, ProvidersTypes DEF HostInv
    <2>2. CASE part = "ports" /\ SavedNext /\ UNCHANGED part
        BY <2>2, SavedStepTypes DEF HostInv
    <2>3. CASE part = "boot" /\ SmolNext /\ UNCHANGED part
        BY <2>3, BootStep DEF HostInv
    <2>4. CASE part = "config" /\ ConfigNext /\ UNCHANGED part
        BY <2>4, FileStep DEF HostInv
    <2>5. CASE part = "update" /\ UpdNext /\ UNCHANGED part
        BY <2>5, DownloadStep DEF HostInv
    <2>6. CASE part = "open" /\ OpensNext /\ UNCHANGED part
        BY <2>6, RoutingStep, WaitsStep, CountsStep DEF HostInv
    <2>7. CASE UNCHANGED hostvars
        <3>1. /\ part' = part /\ UNCHANGED pvars /\ UNCHANGED svars /\ UNCHANGED bootvars
              /\ UNCHANGED cvars /\ UNCHANGED zvars /\ UNCHANGED opvars
            BY <2>7 DEF hostvars
        <3> QED
            BY <3>1, ProvidersTypes, SavedStepTypes, BootStep, FileStep, DownloadStep, RoutingStep, WaitsStep, CountsStep
               DEF HostInv
    <2> QED
        BY <2>1, <2>2, <2>3, <2>4, <2>5, <2>6, <2>7 DEF HostNext
<1>2. HostInv => HostTypeOK
    BY ConfigTypes, OpensTypes DEF HostInv, HostTypeOK, BootInv, DownloadInv
<1> QED
    BY <1>1, <1>2, HostStarts, PTL DEF HostSpec
=============================================================================
