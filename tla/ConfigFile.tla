------------------------------ MODULE ConfigFile ------------------------------
(***************************************************************************)
(* devvm.toml and the commands that write it (config/edit.go, config/      *)
(* file.go, cli/config_cmd.go): `config add` appends a table, `config rm`  *)
(* cuts one out by lines, and `config edit` hands the file to an editor,   *)
(* at once and beside a user who saves it.                                 *)
(*                                                                         *)
(* A line is what the scanner and the parser tell apart.  A "head" line is *)
(* a header with the keys its table cannot do without; "open" and "shut"   *)
(* begin and end a string of several lines, where a line may look like a   *)
(* header to the scanner and is only text to the parser.                   *)
(***************************************************************************)
EXTENDS Naturals, Sequences, FiniteSets, FiniteSetsExt

CONSTANTS Tables,    \* names of [machines.NAME] tables
          MaxLines,  \* bounds the files the commands start from
          New        \* the table `config add` appends

ASSUME MaxLinesAssumption == MaxLines \in Nat

VARIABLES file,      \* devvm.toml, a sequence of lines
          bak,       \* devvm.toml.bak
          rm, add, edit

cvars == <<file, bak, rm, add, edit>>

HeadLine(n) == [kind |-> "head", of |-> n]
Plain(k) == [kind |-> k, of |-> "none"]
Other == {"key", "blank", "comment", "open", "shut"}
Lines == {HeadLine(n) : n \in Tables \cup {New}} \cup {Plain(k) : k \in Other}
NoText == <<>>

(***************************************************************************)
(* What the parser sees (file.go ParseFile, validate).                     *)
(***************************************************************************)

InString(f, i) ==
    \E j \in 1..i - 1 : f[j].kind = "open" /\ \A k \in j + 1..i - 1 : f[k].kind # "shut"

Header(f, i) == f[i].kind = "head" /\ ~InString(f, i)

(* The table a line is in: its header's line, 0 above the first. *)
TableAt(f, i) == Max({0} \cup {j \in 1..i : Header(f, j)})

Parses(f) ==
    /\ \A i, j \in DOMAIN f : Header(f, i) /\ Header(f, j) /\ f[i].of = f[j].of => i = j
    /\ \A i \in DOMAIN f :
          /\ f[i].kind \in {"key", "open"} /\ ~InString(f, i) => TableAt(f, i) # 0
          /\ f[i].kind = "open" => ~InString(f, i) /\ \E j \in i + 1..Len(f) : f[j].kind = "shut"
          /\ f[i].kind = "shut" => InString(f, i)

Entries(f) == {f[i].of : i \in {j \in DOMAIN f : Header(f, j)}}

(* The files the user may have written. *)
Texts == {f \in UNION {[1..k -> {HeadLine(n) : n \in Tables} \cup {Plain(j) : j \in Other}] : k \in 0..MaxLines} :
              Parses(f)}

(* What a table holds: its keys and its strings, comments and blanks not. *)
Content(f, n) ==
    LET h == CHOOSE i \in DOMAIN f : Header(f, i) /\ f[i].of = n
        holds(i) == TableAt(f, i) = h /\ (InString(f, i) \/ f[i].kind \notin {"blank", "comment"})
        at == {i \in DOMAIN f : holds(i)}
    IN [k \in 1..Cardinality(at) |-> f[CHOOSE i \in at : Cardinality({j \in at : j < i}) = k - 1]]

SameExcept(f, g, n) ==
    /\ Entries(f) \ {n} = Entries(g) \ {n}
    /\ \A o \in Entries(f) \ {n} : Content(f, o) = Content(g, o)

(***************************************************************************)
(* The cut, by lines alone (edit.go cutTable).                             *)
(***************************************************************************)

Looks(f, i) == f[i].kind = "head"
IsComment(f, i) == f[i].kind = "comment"
IsBlank(f, i) == f[i].kind = "blank"

(* The first line from i on that is not of a kind, up to end. *)
Past(f, kind, i, end) == Min({end} \cup {j \in i..end - 1 : f[j].kind # kind})

(* Mutant of KeepFrom: what follows the table goes with it. *)
KeepFrom_Nothing(f, content, end) == end

(* A comment block right above the next header is that table's. *)
KeepFrom(f, content, end) ==
    IF end > Len(f) THEN end
    ELSE Min({end} \cup {j \in content..end - 1 : \A k \in j..end - 1 : IsComment(f, k)})

(* Lines are counted from 1: start..cut-1 go, and up to EOF the blanks above. *)
CutTable(f, n) ==
    LET start == Min({i \in DOMAIN f : Looks(f, i) /\ f[i].of = n})
        end == Min({Len(f) + 1} \cup {i \in start + 1..Len(f) : Looks(f, i)})
        content == Max({start + 1} \cup
                       {i + 1 : i \in {j \in start + 1..end - 1 : ~IsComment(f, j) /\ ~IsBlank(f, j)}})
        keepFrom == KeepFrom(f, content, end)
        cut == Past(f, "blank", Past(f, "comment", content, keepFrom), keepFrom)
        from == IF cut > Len(f)
                THEN Min({start} \cup {j \in 1..start - 1 : \A k \in j..start - 1 : IsBlank(f, k)})
                ELSE start
    IN SubSeq(f, 1, from - 1) \o SubSeq(f, cut, Len(f))

(* PlanRemoveEntry: the cut, if it parses and changed this table only. *)
Removable(f, n) ==
    /\ Parses(f) /\ n \in Entries(f)
    /\ LET g == CutTable(f, n) IN Parses(g) /\ SameExcept(f, g, n) /\ n \notin Entries(g)

(* AppendEntry: a blank line and the table at the end. *)
Appended(f, n) == (IF f = NoText THEN f ELSE Append(f, Plain("blank"))) \o <<HeadLine(n)>>

Appendable(f, n) ==
    /\ Parses(f) /\ n \notin Entries(f)
    /\ Parses(Appended(f, n)) /\ SameExcept(f, Appended(f, n), n)

(***************************************************************************)
(* The commands.                                                           *)
(***************************************************************************)

Idle == [at |-> "idle", name |-> "none", from |-> NoText, data |-> NoText, live |-> FALSE]

ConfigTypeOK ==
    /\ {file, bak} \subseteq Seq(Lines)
    /\ \A c \in {rm, add, edit} :
          /\ c.at \in {"idle", "planned", "compared", "editing", "check", "done"}
          /\ c.name \in Tables \cup {New, "none"} /\ c.live \in BOOLEAN
          /\ {c.from, c.data} \subseteq Seq(Lines)

ConfigInit == file \in Texts /\ bak = NoText /\ rm = Idle /\ add = Idle /\ edit = Idle

(* config rm: the edit is planned before a daemon is touched. *)
Plan(n) ==
    /\ rm.at = "idle"
    /\ rm' = IF Removable(file, n)
             THEN [at |-> "planned", name |-> n, from |-> file, data |-> CutTable(file, n), live |-> TRUE]
             ELSE [rm EXCEPT !.at = "done", !.name = n]
    /\ UNCHANGED <<file, bak, add, edit>>

(* A daemon holds live forwards and there was no --force. *)
RefuseHeld ==
    /\ rm.at = "planned" /\ rm.live /\ rm' = [rm EXCEPT !.at = "done"]
    /\ UNCHANGED <<file, bak, add, edit>>

(* The entry's daemons are stopped, which may take seconds. *)
StopDaemons ==
    /\ rm.at = "planned" /\ rm.live /\ rm' = [rm EXCEPT !.live = FALSE]
    /\ UNCHANGED <<file, bak, add, edit>>

(* Commit: nothing is written if the file is not what the plan read. *)
Compare ==
    /\ rm.at = "planned" /\ ~rm.live
    /\ rm' = [rm EXCEPT !.at = IF file = rm.from THEN "compared" ELSE "done"]
    /\ UNCHANGED <<file, bak, add, edit>>

RenameCut ==
    /\ rm.at = "compared" /\ file' = rm.data /\ rm' = [rm EXCEPT !.at = "done"]
    /\ UNCHANGED <<bak, add, edit>>

(* config add reads, checks and writes, with no second look at the file. *)
ReadForAdd ==
    /\ add.at = "idle"
    /\ add' = IF Appendable(file, New)
              THEN [add EXCEPT !.at = "planned", !.name = New, !.from = file, !.data = Appended(file, New)]
              ELSE [add EXCEPT !.at = "done"]
    /\ UNCHANGED <<file, bak, rm, edit>>

RenameAdd ==
    /\ add.at = "planned" /\ file' = add.data /\ add' = [add EXCEPT !.at = "done"]
    /\ UNCHANGED <<bak, rm, edit>>

(* config edit: the text before is remembered while the editor runs. *)
OpenEditor ==
    /\ edit.at = "idle" /\ edit' = [edit EXCEPT !.at = "editing", !.from = file]
    /\ UNCHANGED <<file, bak, rm, add>>

(* The editor saves what it showed with a line more. *)
SaveFile ==
    /\ edit.at = "editing"
    /\ \E l \in {Plain("comment"), Plain("shut")} : file' = Append(edit.from, l)
    /\ edit' = [edit EXCEPT !.at = "check", !.data = file'] /\ UNCHANGED <<bak, rm, add>>

(* An edit that does not check stays, with the text before beside it. *)
CheckEdit ==
    /\ edit.at = "check" /\ edit' = [edit EXCEPT !.at = "done"]
    /\ bak' = IF file = edit.from \/ Parses(file) \/ edit.from = NoText THEN bak ELSE edit.from
    /\ UNCHANGED <<file, rm, add>>

ConfigNext ==
    \/ \E n \in Tables : Plan(n)
    \/ RefuseHeld \/ StopDaemons \/ Compare \/ RenameCut \/ ReadForAdd \/ RenameAdd
    \/ OpenEditor \/ SaveFile \/ CheckEdit

ConfigSpec == ConfigInit /\ [][ConfigNext]_cvars

(***************************************************************************)
(* What a table's removal takes, line by line, as the comment on           *)
(* RemoveEntry promises: the header through the last key, the comments     *)
(* glued below, the gap before what follows.  Not a comment right above    *)
(* the next header, nor one after a blank, nor one above its own header.   *)
(***************************************************************************)
OwnLine(f, n, i) ==
    LET h == CHOOSE j \in DOMAIN f : Header(f, j) /\ f[j].of = n
        next == {j \in h + 1..Len(f) : Header(f, j)}
        body == {j \in DOMAIN f : TableAt(f, j) = h}
        last == Max({j \in body : InString(f, j) \/ ~(IsBlank(f, j) \/ IsComment(f, j))})
        nexts(j) == next # {} /\ \A k \in j..Max(body) : IsComment(f, k)
        glued(j) == \A k \in last + 1..j : IsComment(f, k) /\ ~nexts(k)
        gap(j) == IsBlank(f, j) /\ \A k \in last + 1..j : glued(k) \/ (IsBlank(f, k) /\ ~(\E m \in last + 1..k : nexts(m)))
        own(j) == j \in body /\ (j <= last \/ glued(j) \/ gap(j))
    IN \/ own(i)
       \/ /\ i < h /\ \A k \in i..h - 1 : IsBlank(f, k)
          /\ \A k \in h..Len(f) : own(k)

(***************************************************************************)
(* Whatever the layout, a removal that is not refused takes exactly the    *)
(* lines of its table, in order; and a file without strings is not refused.*)
(***************************************************************************)
ExactCut ==
    /\ rm.at = "planned" =>
          LET kept == {i \in DOMAIN rm.from : ~OwnLine(rm.from, rm.name, i)}
          IN rm.data = [k \in 1..Cardinality(kept) |->
                           rm.from[CHOOSE i \in kept : Cardinality({j \in kept : j < i}) = k - 1]]
    /\ rm.at = "done" /\ rm.from = NoText /\ add.at = "idle" /\ edit.at = "idle" =>
          \/ ~Parses(file) \/ rm.name \notin Entries(file)
          \/ \E i \in DOMAIN file : file[i].kind = "open"

==============================================================================
