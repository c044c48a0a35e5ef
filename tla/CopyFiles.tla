------------------------------- MODULE CopyFiles -------------------------------
(***************************************************************************)
(* `devvm cp-in` and `cp-out` (cli/cp.go, cp_out.go, cp_tar.go, cp_hub.go, *)
(* interrupt.go): one source travels as an archive, through a directory in *)
(* the guest or a stream, perhaps by way of a hub, and is placed by a      *)
(* script in the guest or by extractArchive on the host.  Meanwhile the    *)
(* stream may be cut, a command killed by a signal, a removal fail, and    *)
(* another program write where the copy goes.                              *)
(***************************************************************************)
EXTENDS Naturals, Sequences

CONSTANTS Children,  \* names under the top entry of a tree
          Trees,     \* archives: sequences of [path, kind], the top first
          Ways       \* of <<"in", "direct" | "hub">>, <<"out", "stage" | "stream" | "hub">>

ASSUME CopyAssumption ==
    /\ Trees \subseteq Seq([path : {"top"} \cup Children, kind : {"file", "dir", "link"}])
    /\ Ways \subseteq {<<"in", "direct">>, <<"in", "hub">>, <<"out", "stage">>, <<"out", "stream">>, <<"out", "hub">>}

VARIABLES job,      \* the command and, by way of a hub, its other half
          dest,     \* what is at each path of the destination
          checked,  \* history: what was there when conflicts were looked for
          stage     \* the directory in the guest: there, and its removal failed

yvars == <<job, dest, checked, stage>>

Paths == {"top"} \cup Children
Vacant == [kind |-> "none", by |-> "nobody"]
Unchecked == [p \in Paths |-> Vacant]

CopyTypeOK ==
    /\ job \in [dir : {"in", "out"}, via : {"direct", "stage", "stream", "hub"}, tree : Trees, force : BOOLEAN,
                at : {"pack", "send", "mktemp", "upload", "tar", "pull", "stream", "unstage", "check", "clear",
                      "place", "received", "done"},
                got : Nat, whole : BOOLEAN, n : Nat, named : BOOLEAN, signal : BOOLEAN,
                outcome : {"none", "ok", "refused", "failed"}]
    /\ job.n <= job.got /\ job.got <= Len(job.tree)
    /\ {dest, checked} \subseteq [Paths -> [kind : {"none", "file", "dir", "link"}, by : {"nobody", "user", "other", "copy"}]]
    /\ stage \in [there : BOOLEAN, stuck : BOOLEAN]

CopyInit ==
    /\ \E w \in Ways, t \in Trees, f \in BOOLEAN :
          job = [dir |-> w[1], via |-> w[2], tree |-> t, force |-> f,
                 at |-> CASE w[1] = "in" -> "pack" [] w = <<"out", "stream">> -> "stream" [] OTHER -> "tar",
                 got |-> 0, whole |-> FALSE, n |-> 0, named |-> FALSE, signal |-> FALSE, outcome |-> "none"]
    /\ dest \in [Paths -> {Vacant} \cup [kind : {"file", "dir", "link"}, by : {"user"}]]
    /\ \A c \in Children : dest[c] # Vacant => dest["top"].kind = "dir"
    /\ checked = Unchecked /\ stage = [there |-> FALSE, stuck |-> FALSE]

ProceedsTo(at) == job' = [job EXCEPT !.at = at]

(* The command is over; what it left in the guest goes first. *)
Over(outcome) ==
    job' = [job EXCEPT !.outcome = outcome, !.at = IF job.named /\ job.dir = "in" THEN "unstage" ELSE "done"]
Untouched == UNCHANGED <<dest, checked, stage>>

(***************************************************************************)
(* Getting the archive there.                                              *)
(***************************************************************************)

(* A source that is missing, of another kind, or a second one of its name. *)
Unpackable == job.at = "pack" /\ Over("failed") /\ Untouched

(* The sources are archived on this host, before any transport is touched. *)
Archived(next) == job.at = "pack" /\ ProceedsTo(next) /\ Untouched
PackForGuest == job.via # "hub" /\ Archived("mktemp")
PackForHub == job.via = "hub" /\ Archived("send")

(* Mutant of Complete: a stream that ends between two entries will do. *)
Complete_AnyCut(j) == j.got > 0

(* What came ends with the archive's own end, not where the stream was cut.*)
Complete(j) == j.whole

(* What comes through ssh, from a laptop or a hub that may die. *)
Arrives ==
    /\ job.at = "send"
    /\ \E k \in 0..Len(job.tree), w \in BOOLEAN :
          /\ w => k = Len(job.tree)
          /\ job' = [job EXCEPT !.got = k, !.whole = w, !.at = "received"]
    /\ Untouched

(* The hub's stdin is the laptop's archive; its stdout is the one it made  *)
(* itself, with what a login shell prints around it.                       *)
SendIn == job.dir = "in" /\ Arrives
SendOut == job.dir = "out" /\ Arrives

(* The hub spools all of stdin before it stages anything, and refuses an   *)
(* archive it cannot read or that does not fit the destination.            *)
Spooled ==
    /\ job.at = "received" /\ job.dir = "in"
    /\ \/ Complete(job) /\ ProceedsTo("mktemp")
       \/ Over("failed")
    /\ Untouched

(* The laptop reads to the archive's end; the hub's exit may still fail it.*)
Fetched ==
    /\ job.at = "received" /\ job.dir = "out"
    /\ \/ Complete(job) /\ ProceedsTo("check")
       \/ Over("failed")
    /\ Untouched

(* cp-in's stage is named by the guest; its answer may be lost or mixed    *)
(* with what a login shell prints, and is then not trusted to be removed.  *)
Mktemp ==
    /\ job.at = "mktemp"
    /\ \/ stage' = [stage EXCEPT !.there = TRUE] /\ job' = [job EXCEPT !.named = TRUE, !.at = "upload"]
       \/ stage' = [stage EXCEPT !.there = TRUE] /\ Over("failed")
       \/ Over("failed") /\ UNCHANGED stage
    /\ UNCHANGED <<dest, checked>>

Upload ==
    /\ job.at = "upload"
    /\ \/ job' = [job EXCEPT !.at = "check", !.got = IF job.via = "hub" THEN @ ELSE Len(job.tree),
                             !.whole = job.via # "hub" \/ @]
       \/ Over("failed")
    /\ Untouched

(* cp-out's stage is named by the host, which removes it whatever happens. *)
TarInGuest ==
    /\ job.at = "tar"
    /\ stage' \in {stage, [stage EXCEPT !.there = TRUE]}
    /\ job' = IF stage'.there /\ ~job.signal THEN [job EXCEPT !.named = TRUE, !.at = "pull"]
              ELSE [job EXCEPT !.named = TRUE, !.at = "unstage", !.outcome = "failed"]
    /\ UNCHANGED <<dest, checked>>

(* machine cp; if it fails, not cancelled, the stream is tried. *)
Pull ==
    /\ job.at = "pull"
    /\ \/ job' = [job EXCEPT !.at = "unstage", !.got = Len(job.tree), !.whole = TRUE]
       \/ ~job.signal /\ ProceedsTo("stream")
       \/ job.signal /\ job' = [job EXCEPT !.at = "unstage", !.outcome = "failed"]
    /\ Untouched

(* A stream cut short ends its exec with an error. *)
Stream ==
    /\ job.at = "stream"
    /\ LET next == IF job.named THEN "unstage" ELSE "check"
       IN \/ job' = [job EXCEPT !.at = next, !.got = Len(job.tree), !.whole = TRUE]
          \/ job' = [job EXCEPT !.at = IF job.named THEN "unstage" ELSE "done", !.outcome = "failed"]
    /\ Untouched

(* The stage is removed under a context of its own. *)
Fresh(j) == TRUE

Unstage ==
    /\ job.at = "unstage"
    /\ \/ Fresh(job) /\ stage' = [stage EXCEPT !.there = FALSE]
       \/ ~Fresh(job) /\ UNCHANGED stage
       \/ stage' = [stage EXCEPT !.stuck = TRUE]
    /\ ProceedsTo(IF job.outcome # "none" THEN "done" ELSE IF job.via = "hub" THEN "send" ELSE "check")
    /\ UNCHANGED <<dest, checked>>

(* A signal kills the command in the guest, or comes too late to.  The hub *)
(* does not hear of the laptop's once it has the archive.                  *)
Signal ==
    /\ ~job.signal /\ job.at \notin {"done", "unstage"} /\ ~(job.dir = "in" /\ job.via = "hub" /\ job.at # "pack")
    /\ job' = [job EXCEPT !.signal = TRUE] /\ Untouched

Interrupted ==
    /\ job.signal /\ job.dir = "in" /\ job.at \in {"upload", "check", "clear", "place"}
    /\ Over("failed") /\ Untouched

(***************************************************************************)
(* Placing it: conflicts are looked for before anything is written.        *)
(***************************************************************************)

Sent(j) == SubSeq(j.tree, 1, j.got)

(* A directory may meet a directory; a link to one is not one. *)
Conflict(e, d) == d[e.path].kind # "none" /\ ~(e.kind = "dir" /\ d[e.path].kind = "dir")

Conflicts(j, d) == {e \in {Sent(j)[i] : i \in 1..j.got} : Conflict(e, d)}

(* Also refused where there is no directory to copy into. *)
CheckDest ==
    /\ job.at = "check"
    /\ \/ Over("refused") /\ UNCHANGED checked
       \/ /\ Conflicts(job, dest) = {} \/ job.force
          /\ checked' = dest
          /\ ProceedsTo(IF job.dir = "in" /\ Conflicts(job, dest) # {} THEN "clear" ELSE "place")
    /\ UNCHANGED <<dest, stage>>

(* cp-in -f: every conflict is removed before cp -R would write through it.*)
ClearDest ==
    /\ job.at = "clear"
    /\ LET gone == {e.path : e \in Conflicts(job, dest)}
       IN dest' = [p \in Paths |-> IF p \in gone \/ "top" \in gone THEN Vacant ELSE dest[p]]
    /\ ProceedsTo("place") /\ UNCHANGED <<checked, stage>>

(* What a step that cannot place its entry answers: no destination with an *)
(* entry in place looks like this.                                         *)
Failed == Unchecked

Put(e) == [dest EXCEPT ![e.path] = [kind |-> e.kind, by |-> "copy"]]

(* cp -R in the guest: a directory is merged, a file written over. *)
GuestPuts(e) ==
    LET d == dest[e.path].kind
    IN CASE e.kind = d /\ d = "dir" -> dest
         [] d = "none" \/ (e.kind = "file" /\ d = "file") -> Put(e)
         [] OTHER -> Failed

(* extractArchive: what is there already is left if a directory goes there,*)
(* removed first with -f, and a file is opened without following a link.   *)
HostPuts(e) ==
    LET d == dest[e.path].kind
        under == e.path = "top" /\ \E c \in Children : dest[c].kind # "none"
    IN CASE e.kind = "dir" /\ d \in {"dir", "file"} -> dest
         [] d = "none" \/ (e.kind = "file" /\ d = "file") -> Put(e)
         [] job.force /\ e.kind # "dir" /\ d # "none" /\ ~under -> Put(e)
         [] OTHER -> Failed

Place ==
    /\ job.at = "place"
    /\ IF job.n = job.got THEN Over("ok") /\ UNCHANGED dest
       ELSE LET e == Sent(job)[job.n + 1]
                put == IF job.dir = "in" THEN GuestPuts(e) ELSE HostPuts(e)
            IN IF put = Failed \/ (e.path # "top" /\ dest["top"].kind # "dir")
               THEN Over("failed") /\ UNCHANGED dest
               ELSE dest' = put /\ job' = [job EXCEPT !.n = @ + 1]
    /\ UNCHANGED <<checked, stage>>

(* Another program makes a file where there was nothing. *)
Outsider ==
    /\ job.at # "done"
    /\ \E p \in Paths :
          /\ dest[p].kind = "none" /\ (p # "top" => dest["top"].kind = "dir")
          /\ \A q \in Paths : dest[q].by # "other"
          /\ dest' = [dest EXCEPT ![p] = [kind |-> "file", by |-> "other"]]
    /\ UNCHANGED <<job, checked, stage>>

CopyNext ==
    \/ Unpackable \/ PackForGuest \/ PackForHub \/ SendIn \/ SendOut \/ Spooled \/ Fetched
    \/ Mktemp \/ Upload \/ TarInGuest \/ Pull \/ Stream \/ Unstage
    \/ Signal \/ Interrupted \/ CheckDest \/ ClearDest \/ Place \/ Outsider

CopySpec == CopyInit /\ [][CopyNext]_yvars

(***************************************************************************)
(* Without -f nothing that was there when the destination was checked is   *)
(* replaced, at any depth; a refused copy has written nothing; and only a  *)
(* whole archive is ever placed.                                           *)
(***************************************************************************)
NothingReplaced ==
    /\ ~job.force => \A p \in Paths : checked[p].kind \in {"file", "link"} => dest[p] = checked[p]
    /\ job.outcome = "refused" => \A p \in Paths : dest[p].by # "copy"

WholeOnly == job.whole \/ \A p \in Paths : dest[p].by # "copy"

(***************************************************************************)
(* Whatever stopped the command, the stage whose name the host knew is     *)
(* gone from the guest, unless its removal itself failed.                  *)
(***************************************************************************)
StageGone == job.at = "done" /\ job.named => ~stage.there \/ stage.stuck

(***************************************************************************)
(* However a copy ends and whatever else writes there meanwhile, it leaves *)
(* neither something replaced, nor a part of an archive, nor its stage.    *)
(***************************************************************************)
NoHalfCopy == NothingReplaced /\ WholeOnly /\ StageGone

(***************************************************************************)
(* A copy that reports success has put every entry in place.               *)
(***************************************************************************)
WholeTree == job.outcome = "ok" => \A i \in DOMAIN job.tree : dest[job.tree[i].path].kind = job.tree[i].kind
================================================================================
