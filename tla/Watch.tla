--------------------------------- MODULE Watch ---------------------------------
(***************************************************************************)
(* `devvm status --plain --watch` (cli/status_watch.go, hublist.go): one   *)
(* loop that prints a listing after every change of devvm's files and of   *)
(* every block a hub's held listing pipe brings, never polling.  File      *)
(* events come from watches on directories, and a watch is lost with its   *)
(* directory; the pipe dies with its hub and is dialled again; devvm.toml  *)
(* may name another destination for the hub meanwhile.                     *)
(***************************************************************************)
EXTENDS Naturals

CONSTANTS MaxWrites,  \* changes of devvm's own files
          MaxBlocks,  \* changes of the hub's listing
          MaxHitches  \* a directory removed, events lost, a pipe dead, a hub away

ASSUME WatchAssumption == MaxWrites \in Nat /\ MaxBlocks \in Nat /\ MaxHitches \in Nat

VARIABLES disk,   \* the files' version, the hub's destination in devvm.toml, the reach cache
          remote,    \* the hub's own listing, and whether it answers
          watch,  \* the watched directory, the watch on it, what the kernel reported
          loop,   \* the loop: armed, changed, refresh wanted, its round, its snapshot
          pipe,   \* the hub's pipe and the one a new destination replaced
          rows,   \* the pipe's last word, the cached listing, the loop's wake
          shown,  \* the block last printed
          hitches

wvars == <<disk, remote, watch, loop, pipe, rows, shown, hitches>>

Dests == {"here", "there"}
NoPipe == [dest |-> "none", live |-> FALSE, ver |-> 0]
NoRows == [ver |-> 0, dest |-> "none", fresh |-> FALSE]
RowSet == [ver : 0..MaxBlocks, dest : Dests \cup {"none"}, fresh : BOOLEAN]
Listing == [ver : 0..MaxWrites, reach : 0..MaxWrites, hub : RowSet]
Nothing == [ver |-> 0, reach |-> 0, hub |-> NoRows]

WatchTypeOK ==
    /\ disk \in [ver : 0..MaxWrites, dest : Dests, net : 0..MaxWrites, reach : 0..MaxWrites, ask : BOOLEAN]
    /\ remote \in [ver : 0..MaxBlocks, up : BOOLEAN]
    /\ watch \in [dir : BOOLEAN, on : BOOLEAN, event : BOOLEAN, gone : BOOLEAN, lost : BOOLEAN]
    /\ loop \in [armed : BOOLEAN, changed : BOOLEAN, wanted : BOOLEAN, round : {"none", "asked", "probing", "done"},
                 at : {"start", "wait", "read", "print"}, conf : 0..MaxWrites]
    /\ pipe \in [now : [dest : Dests \cup {"none"}, live : BOOLEAN, ver : 0..MaxBlocks],
                 old : [dest : Dests \cup {"none"}, live : BOOLEAN, ver : 0..MaxBlocks]]
    /\ rows \in [last : RowSet, cache : 0..MaxBlocks, wake : BOOLEAN]
    /\ shown \in Listing
    /\ hitches \in 0..MaxHitches

WatchInit ==
    /\ disk = [ver |-> 0, dest |-> "here", net |-> 0, reach |-> 0, ask |-> FALSE]
    /\ remote \in [ver : {0}, up : BOOLEAN]
    /\ watch = [dir |-> TRUE, on |-> TRUE, event |-> FALSE, gone |-> FALSE, lost |-> FALSE]
    /\ loop = [armed |-> FALSE, changed |-> FALSE, wanted |-> FALSE, round |-> "none", at |-> "start", conf |-> 0]
    /\ pipe = [now |-> [NoPipe EXCEPT !.dest = "here"], old |-> NoPipe]
    /\ rows = [last |-> NoRows, cache |-> 0, wake |-> FALSE] /\ shown = Nothing /\ hitches = 0

Fails == hitches < MaxHitches /\ hitches' = hitches + 1

(***************************************************************************)
(* What changes outside.                                                   *)
(***************************************************************************)

Reported == watch' = [watch EXCEPT !.event = @ \/ watch.on]

(* A rename into devvm.toml's place, a socket, the change marker. *)
Write ==
    /\ watch.dir /\ disk.ver < MaxWrites
    /\ \E d \in Dests : disk' = [disk EXCEPT !.ver = @ + 1, !.dest = d]
    /\ Reported /\ UNCHANGED <<remote, loop, pipe, rows, shown, hitches>>

(* A box comes or goes: nothing on disk says so until a round looks. *)
BoxMoves ==
    /\ disk.net < MaxWrites /\ disk' = [disk EXCEPT !.net = @ + 1]
    /\ UNCHANGED <<remote, watch, loop, pipe, rows, shown, hitches>>

(* `devvm __refresh` *)
RequestRefresh ==
    /\ watch.dir /\ ~disk.ask /\ disk' = [disk EXCEPT !.ask = TRUE]
    /\ Reported /\ UNCHANGED <<remote, loop, pipe, rows, shown, hitches>>

(* The directory goes, with its watch; or the kernel's queue overflows. *)
DirGone ==
    /\ watch.dir /\ Fails
    /\ watch' = [watch EXCEPT !.dir = FALSE, !.on = FALSE, !.gone = @ \/ watch.on]
    /\ UNCHANGED <<disk, remote, loop, pipe, rows, shown>>

DirBack ==
    /\ ~watch.dir /\ watch' = [watch EXCEPT !.dir = TRUE]
    /\ UNCHANGED <<disk, remote, loop, pipe, rows, shown, hitches>>

Overflow ==
    /\ watch.event /\ Fails
    /\ watch' = [watch EXCEPT !.event = FALSE, !.lost = TRUE]
    /\ UNCHANGED <<disk, remote, loop, pipe, rows, shown>>

HubChanges ==
    /\ remote.ver < MaxBlocks /\ remote' = [remote EXCEPT !.ver = @ + 1]
    /\ UNCHANGED <<disk, watch, loop, pipe, rows, shown, hitches>>

HubMoves ==
    /\ remote' = [remote EXCEPT !.up = ~@]
    /\ IF remote.up THEN Fails ELSE UNCHANGED hitches
    /\ UNCHANGED <<disk, watch, loop, pipe, rows, shown>>

(***************************************************************************)
(* The hub's pipe.                                                         *)
(***************************************************************************)

(* Mutant of Current: whichever pipe spoke last. *)
Current_Any(p) == TRUE

(* A pipe that sync replaced says nothing any more. *)
Current(p) == p = "now"

(* set: a pipe's word, and the loop's wake. *)
Said(p, r) == [rows EXCEPT !.last = IF Current(p) THEN r ELSE @, !.wake = TRUE]

(* A block is cached before it is recorded.                                *)
Cached(r, ver) == [r EXCEPT !.cache = ver]
Heard(p, ver) == Cached(Said(p, [ver |-> ver, dest |-> pipe[p].dest, fresh |-> TRUE]), ver)

(* The cache stands in for a hub that does not answer. *)
Stale(p) == [ver |-> rows.cache, dest |-> pipe[p].dest, fresh |-> FALSE]

(* Dialled, again after a backoff: the hub's watch prints its block first. *)
PipeUp ==
    /\ ~pipe.now.live /\ remote.up
    /\ pipe' = [pipe EXCEPT !.now.live = TRUE, !.now.ver = remote.ver]
    /\ rows' = Heard("now", remote.ver)
    /\ UNCHANGED <<disk, remote, watch, loop, shown, hitches>>

(* A replaced pipe's last block may have been on its way. *)
Block(p) ==
    /\ pipe[p].live /\ remote.up /\ (p = "now" => pipe[p].ver # remote.ver)
    /\ pipe' = [pipe EXCEPT ![p].ver = remote.ver, ![p].live = (p = "now")]
    /\ rows' = Heard(p, remote.ver)
    /\ UNCHANGED <<disk, remote, watch, loop, shown, hitches>>

PipeDies(p) ==
    /\ pipe[p].live
    /\ \/ p = "old" /\ UNCHANGED hitches
       \/ p = "now" /\ ~remote.up /\ UNCHANGED hitches
       \/ p = "now" /\ remote.up /\ Fails
    /\ pipe' = [pipe EXCEPT ![p].live = FALSE]
    /\ rows' = Said(p, Stale(p))
    /\ UNCHANGED <<disk, remote, watch, loop, shown>>

(***************************************************************************)
(* The loop.                                                               *)
(***************************************************************************)

Arm(l) == [l EXCEPT !.armed = TRUE, !.changed = TRUE]

Event ==
    /\ loop.at = "wait" /\ watch.event
    /\ watch' = [watch EXCEPT !.event = FALSE]
    /\ loop' = [Arm(loop) EXCEPT !.wanted = @ \/ disk.ask] /\ disk' = [disk EXCEPT !.ask = FALSE]
    /\ UNCHANGED <<remote, pipe, rows, shown, hitches>>

(* Mutant of Rewatched: the directory is not made and watched again. *)
Rewatched_Never(w) == w

Rewatched(w) == [w EXCEPT !.dir = TRUE, !.on = TRUE]

(* The directory's own removal is an event, an overflow an error: after    *)
(* either the watches are there again before the next snapshot.            *)
Renewed ==
    /\ loop.at = "wait" /\ (watch.gone \/ watch.lost)
    /\ watch' = [Rewatched(watch) EXCEPT !.gone = FALSE, !.lost = FALSE]
    /\ loop' = Arm(loop)
    /\ UNCHANGED <<disk, remote, pipe, rows, shown, hitches>>

Woken ==
    /\ loop.at = "wait" /\ rows.wake
    /\ rows' = [rows EXCEPT !.wake = FALSE] /\ loop' = Arm(loop)
    /\ UNCHANGED <<disk, remote, watch, pipe, shown, hitches>>

(* The debounce is over.  A refresh wanted while a round is in flight is   *)
(* that round's.                                                           *)
Fire ==
    /\ loop.at = "wait" /\ loop.armed
    /\ loop' = [loop EXCEPT !.armed = FALSE, !.changed = FALSE, !.wanted = FALSE,
                            !.round = IF loop.wanted /\ @ = "none" THEN "asked" ELSE @,
                            !.at = IF loop.changed THEN "read" ELSE @]
    /\ UNCHANGED <<disk, remote, watch, pipe, rows, shown, hitches>>

(* liveRound, in the background: the boxes are asked, the caches written. *)
Probe ==
    /\ loop.round = "asked" /\ loop' = [loop EXCEPT !.round = "probing"]
    /\ disk' = [disk EXCEPT !.reach = disk.net]
    /\ UNCHANGED <<remote, watch, pipe, rows, shown, hitches>>

ProbeEnds ==
    /\ loop.round = "probing" /\ loop' = [loop EXCEPT !.round = "done"]
    /\ UNCHANGED <<disk, remote, watch, pipe, rows, shown, hitches>>

RoundDone ==
    /\ loop.at = "wait" /\ loop.round = "done"
    /\ loop' = [loop EXCEPT !.round = "none", !.at = "read"]
    /\ UNCHANGED <<disk, remote, watch, pipe, rows, shown, hitches>>

(* A snapshot: devvm.toml is read and the pipes follow it, at the start    *)
(* too, after the watches are in place.                                    *)
Snapshot ==
    /\ loop.at \in {"start", "read"}
    /\ loop' = [loop EXCEPT !.at = "print", !.conf = disk.ver]
    /\ IF pipe.now.dest = disk.dest THEN UNCHANGED <<pipe, rows>>
       ELSE /\ pipe' = [now |-> [NoPipe EXCEPT !.dest = disk.dest], old |-> pipe.now]
            /\ rows' = [rows EXCEPT !.last = NoRows]
    /\ UNCHANGED <<disk, remote, watch, shown, hitches>>

(* Its rows are gathered and printed unless they are the last ones again. *)
Emit ==
    /\ loop.at = "print" /\ loop' = [loop EXCEPT !.at = "wait"]
    /\ shown' = [ver |-> loop.conf, reach |-> disk.reach, hub |-> rows.last]
    /\ UNCHANGED <<disk, remote, watch, pipe, rows, hitches>>

Loop == Event \/ Renewed \/ Woken \/ Fire \/ RoundDone \/ Snapshot \/ Emit

WatchNext ==
    \/ Write \/ BoxMoves \/ RequestRefresh \/ DirGone \/ DirBack \/ Overflow \/ HubChanges \/ HubMoves
    \/ PipeUp \/ \E p \in {"now", "old"} : Block(p) \/ PipeDies(p)
    \/ Loop \/ Probe \/ ProbeEnds

(* The loop's goroutine takes every ready case in the end, the debounce    *)
(* runs out, a pipe is dialled again, a round is bounded.                  *)
WatchFair ==
    /\ WF_wvars(Event) /\ WF_wvars(Renewed) /\ WF_wvars(Woken) /\ WF_wvars(RoundDone) /\ SF_wvars(Fire)
    /\ WF_wvars(Snapshot) /\ WF_wvars(Emit) /\ WF_wvars(Probe) /\ WF_wvars(ProbeEnds)
    /\ WF_wvars(PipeUp) /\ WF_wvars(Block("now")) /\ WF_wvars(PipeDies("now")) /\ WF_wvars(PipeDies("old"))

WatchSpec == WatchInit /\ [][WatchNext]_wvars /\ WatchFair

(***************************************************************************)
(* Rows the consumer is told are the hub's own come from the destination   *)
(* devvm.toml named when the pipe was dialled, not from an earlier one.    *)
(***************************************************************************)
RowsOfItsHub == rows.last.fresh => rows.last.dest = pipe.now.dest

(***************************************************************************)
(* The watch never goes blind: once things stop changing the last block    *)
(* shows the files, the caches and the hub's listing as they are.          *)
(***************************************************************************)
Seen ==
    /\ shown.ver = disk.ver /\ shown.reach = disk.reach
    /\ pipe.now.dest = disk.dest
    /\ remote.up => shown.hub = [ver |-> remote.ver, dest |-> disk.dest, fresh |-> TRUE]
    /\ ~remote.up => ~shown.hub.fresh

NeverBlind == <>[]Seen
================================================================================
