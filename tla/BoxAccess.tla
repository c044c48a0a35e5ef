------------------------------ MODULE BoxAccess ------------------------------
(***************************************************************************)
(* Who can log in to a remote box while devvm shapes it: setup's reach     *)
(* (cli/setup.go reachForSetup), the user it makes (bootstrap/prereqs.go), *)
(* the authorized_keys it and the keys commands rewrite (cli/keys.go,      *)
(* keys/keys.go) and the lockdown (bootstrap/harden.go).  One action is    *)
(* one command run on the box, or one step of a command that two hosts     *)
(* can interleave.  The entry's port is the one sshd listens on.           *)
(***************************************************************************)
EXTENDS Naturals, FiniteSets

CONSTANTS Runners,    \* devvm commands on hosts that hold the key "own"
          Passwords,  \* the kinds of box: does sshd take a password at first?
          Drops       \* may a connection be cut while a key file is written?

VARIABLES login,    \* the user part of the record's ssh destination
          takes,    \* sshd takes a password while it is open
          user,     \* the unprivileged user exists
          keysOf,   \* the authorized_keys of root and of the user
          tmp,      \* ~/.ssh/.authorized_keys.devvm of the login
          dropin,   \* the user 10-devvm.conf pins, on disk
          sshd,     \* the same, as loaded by sshd
          step, work

bvars == <<login, takes, user, keysOf, tmp, dropin, sshd, step, work>>
box == <<login, takes, user, keysOf, tmp, dropin, sshd>>

(* The host's own key, a colleague's, and the box's own id_*.pub. *)
Keys == {"own", "other", "guest"}
Absent == {"absent"}
Files == (SUBSET Keys) \cup {Absent}
Users == {"root", "dev"}
Empty(file) == file \in {{}, Absent}

Jobs == {"setup", "lockdown", "add", "rm", "dedupe"}
Steps == {"idle", "reach", "ensure", "copy", "verify", "shape", "read", "open", "fill", "mv",
          "whoami", "guard", "firewall", "dropin", "reload"}

(* fd is what the writer's open file is now: the temporary name, the live  *)
(* file once another writer has renamed it, or a file replaced since.      *)
Works == [job : Jobs, key : Keys, harden : BOOLEAN, lines : SUBSET Keys,
          fd : {"none", "tmp", "live", "gone"}]
NoWork == [job |-> "add", key |-> "own", harden |-> FALSE, lines |-> {}, fd |-> "none"]

BoxTypeOK ==
    /\ login \in Users /\ takes \in Passwords /\ user \in BOOLEAN
    /\ keysOf \in [Users -> Files] /\ tmp \in Files
    /\ dropin \in Users \cup {"none"} /\ sshd \in Users \cup {"none"}
    /\ step \in [Runners -> Steps] /\ work \in [Runners -> Works]

(* PermitRootLogin no and AllowUsers: a pinned root lets nobody in. *)
Lets(u) == /\ u = "dev" => user
           /\ sshd # "none" => sshd = u /\ u # "root"
Accepts(u) == Lets(u) /\ "own" \in keysOf[u]
Enters(u) == Accepts(u) \/ (Lets(u) /\ takes /\ sshd = "none")

BoxInit ==
    /\ login \in Users /\ takes \in Passwords /\ user \in BOOLEAN
    /\ keysOf \in [Users -> Files] /\ "guest" \notin keysOf["root"]
    /\ user \/ keysOf["dev"] = Absent
    /\ tmp = Absent /\ dropin = "none" /\ sshd = "none"
    /\ IF takes THEN login = "root" \/ user ELSE \E u \in Users : Accepts(u)
    /\ step = [r \in Runners |-> "idle"] /\ work = [r \in Runners |-> NoWork]

To(r, from, next) == step[r] = from /\ step' = [step EXCEPT ![r] = next]
Quit(r) == step' = [step EXCEPT ![r] = "idle"] /\ work' = [work EXCEPT ![r] = NoWork]

Issue(r, job, key, harden) ==
    /\ To(r, "idle", CASE job = "setup" -> "reach" [] job = "lockdown" -> "whoami" [] OTHER -> "read")
    /\ work' = [work EXCEPT ![r] = [NoWork EXCEPT !.job = job, !.key = key, !.harden = harden]]
    /\ UNCHANGED box

(* The first probe: the login answers, or only root does, or neither.  A   *)
(* login that is root itself is refused, whichever way it was reached.     *)
Reach(r) ==
    /\ step[r] = "reach"
    /\ IF login = "root" \/ ~(Accepts(login) \/ Accepts("root")) THEN Quit(r)
       ELSE To(r, "reach", IF Accepts(login) THEN "shape" ELSE "ensure") /\ UNCHANGED work
    /\ UNCHANGED box

EnsureUser(r) ==
    /\ To(r, "ensure", "copy") /\ user' = TRUE
    /\ UNCHANGED <<login, takes, keysOf, tmp, dropin, sshd, work>>

CopyKeys(r) ==
    /\ To(r, "copy", "verify")
    /\ keysOf' = IF Empty(keysOf["root"]) \/ ~Empty(keysOf["dev"]) THEN keysOf
                 ELSE [keysOf EXCEPT !["dev"] = keysOf["root"]]
    /\ UNCHANGED <<login, takes, user, tmp, dropin, sshd, work>>

(* The user may have been there, with keys that are not this host's. *)
Verify(r) ==
    /\ step[r] = "verify"
    /\ IF Accepts("dev") THEN To(r, "verify", "shape") /\ UNCHANGED work ELSE Quit(r)
    /\ UNCHANGED box

(* Prereqs, agent, hook and repos change nothing a login depends on. *)
Shape(r) ==
    /\ Enters(login)
    /\ \/ To(r, "shape", "read")
       \/ To(r, "shape", "whoami") /\ work[r].harden
    /\ UNCHANGED <<box, work>>

(* What keys.Merge, Revoke and Dedup leave of the lines. *)
Rewritten(w, lines) ==
    CASE w.job = "rm" -> lines \ {w.key}
      [] w.job = "dedupe" -> lines \ {"guest"}
      [] OTHER -> lines \cup {w.key}

(* Mutant of Protected: the host's own key is like any other. *)
Protected_None(w, lines) == w.key \notin lines

(* Revoke's errors: no match, and this host's own key. *)
Protected(w, lines) == w.key \notin lines \/ w.key = "own"

(* cat of a file that is not there fails, and so does the command. *)
ReadKeys(r) ==
    LET lines == keysOf[login]
        w == work[r]
    IN /\ step[r] = "read" /\ Enters(login)
       /\ IF \/ lines = Absent
             \/ w.job \in {"rm", "dedupe"} /\ lines = {}
             \/ w.job = "rm" /\ Protected(w, lines)
          THEN Quit(r)
          ELSE To(r, "read", "open") /\ work' = [work EXCEPT ![r].lines = Rewritten(w, lines)]
       /\ UNCHANGED box

(* The redirection truncates the one temporary name every writer uses. *)
OpenTmp(r) ==
    /\ To(r, "open", "fill") /\ Enters(login) /\ tmp' = {}
    /\ work' = [work EXCEPT ![r].fd = "tmp"]
    /\ UNCHANGED <<login, takes, user, keysOf, dropin, sshd>>

(* cat writes over what another writer put in the same file, whose tail    *)
(* may stay; a cut connection ends cat's input early, and cat succeeds.    *)
Fill(r) ==
    LET Into(file) == {work[r].lines \cup rest : rest \in SUBSET (file \ Absent)}
                          \cup (IF Drops THEN {file} ELSE {})
    IN /\ To(r, "fill", "mv")
       /\ CASE work[r].fd = "tmp" -> tmp' \in Into(tmp) /\ UNCHANGED keysOf
            [] work[r].fd = "live" -> /\ \E f \in Into(keysOf[login]) : keysOf' = [keysOf EXCEPT ![login] = f]
                                      /\ UNCHANGED tmp
            [] OTHER -> UNCHANGED <<tmp, keysOf>>
       /\ UNCHANGED <<login, takes, user, dropin, sshd, work>>

(* mv fails when another writer's mv took the file. *)
Mv(r) ==
    LET moved(fd) == CASE fd = "tmp" -> "live" [] fd = "live" -> "gone" [] OTHER -> fd
    IN /\ step[r] = "mv"
       /\ IF tmp = Absent THEN Quit(r) /\ UNCHANGED <<keysOf, tmp>>
          ELSE /\ keysOf' = [keysOf EXCEPT ![login] = tmp] /\ tmp' = Absent
               /\ LET left == [q \in Runners |-> [work[q] EXCEPT !.fd = moved(@)]]
                      on == work[r].job = "setup" /\ work[r].harden
                  IN /\ step' = [step EXCEPT ![r] = IF on THEN "whoami" ELSE "idle"]
                     /\ work' = [left EXCEPT ![r] = IF on THEN [@ EXCEPT !.fd = "none"] ELSE NoWork]
       /\ UNCHANGED <<login, takes, user, dropin, sshd>>

(* Harden asks the box who the login is, and refuses root. *)
Whoami(r) ==
    /\ step[r] = "whoami" /\ Enters(login)
    /\ IF login = "root" THEN Quit(r) ELSE To(r, "whoami", "guard") /\ UNCHANGED work
    /\ UNCHANGED box

(* The script's fail-safe, then the packages and the firewall. *)
Guard(r) ==
    /\ step[r] = "guard"
    /\ IF Empty(keysOf[login]) THEN Quit(r) ELSE To(r, "guard", "firewall") /\ UNCHANGED work
    /\ UNCHANGED box

Firewall(r) == To(r, "firewall", "dropin") /\ UNCHANGED <<box, work>>

DropIn(r) ==
    /\ To(r, "dropin", "reload") /\ dropin' = login
    /\ UNCHANGED <<login, takes, user, keysOf, tmp, sshd, work>>

Reload(r) ==
    /\ step[r] = "reload" /\ Quit(r)
    /\ \/ sshd' = dropin /\ UNCHANGED dropin
       \/ dropin' = "none" /\ UNCHANGED sshd
    /\ UNCHANGED <<login, takes, user, keysOf, tmp>>

(* A command fails, is interrupted or loses its connection: what it has    *)
(* done stays.                                                             *)
Abort(r) ==
    /\ step[r] \notin {"idle", "fill", "mv"} /\ Quit(r)
    /\ UNCHANGED box

(* The box reboots: sshd reads what is on disk. *)
Restart ==
    /\ sshd' = dropin /\ sshd # dropin
    /\ UNCHANGED <<login, takes, user, keysOf, tmp, dropin, step, work>>

Shaping(r) ==
    \/ \E job \in Jobs, key \in {"own", "other"}, h \in BOOLEAN :
          /\ h => job = "setup"
          /\ job \in {"lockdown", "dedupe"} => key = "own"
          /\ Issue(r, job, key, h)
    \/ Reach(r) \/ EnsureUser(r) \/ CopyKeys(r) \/ Verify(r) \/ Shape(r)
    \/ ReadKeys(r) \/ OpenTmp(r) \/ Fill(r) \/ Mv(r)
    \/ Whoami(r) \/ Guard(r) \/ Firewall(r) \/ DropIn(r) \/ Reload(r) \/ Abort(r)

BoxNext == Restart \/ \E r \in Runners : Shaping(r)

BoxSpec == BoxInit /\ [][BoxNext]_bvars

Writing == \E r \in Runners : step[r] \in {"fill", "mv"}

(***************************************************************************)
(* A box this host's key could enter stays one it can enter, as the user   *)
(* or as root, whatever setups, key edits and lockdowns run at once or     *)
(* stop half way (looked at while no key file is being written).           *)
(***************************************************************************)
WayIn == ~Writing => \E u \in Users : Accepts(u)

==============================================================================
