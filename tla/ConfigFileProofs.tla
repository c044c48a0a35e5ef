--------------------------- MODULE ConfigFileProofs ---------------------------
(***************************************************************************)
(* That `config rm` takes exactly a table's own lines out of devvm.toml,   *)
(* for a file of any length and layout.  cutTable goes by what the lines   *)
(* look like and the parser by strings and headers; the checks made on the *)
(* cut before it is planned are enough for the two to agree on this table. *)
(***************************************************************************)
EXTENDS ConfigFile, FiniteSetTheorems, SequenceTheorems, TLAPS

(***************************************************************************)
(* Least and greatest lines, and what is picked from a sequence.           *)
(***************************************************************************)

(* Every non-empty set of naturals has a least one. *)
LEMMA LeastLine == ASSUME NEW S \in SUBSET Nat, S # {} PROVE \E x \in S : \A y \in S : x <= y
<1> DEFINE R == OpToRel(<, Nat)
<1>1. PICK x \in S : \A y \in S : ~ (<<y, x>> \in R)
    <2>1. IsWellFoundedOn(R, Nat)
        BY NatLessThanWellFounded
    <2> HIDE DEF R
    <2> QED
        BY <2>1, WFMin
<1>2. ASSUME NEW y \in S PROVE x <= y
    <2>1. x \in Nat /\ y \in Nat
        OBVIOUS
    <2>2. <<y, x>> \in Nat \X Nat /\ <<y, x>>[1] = y /\ <<y, x>>[2] = x /\ ~ (<<y, x>> \in R)
        BY <2>1, <1>1
    <2>3. ~ (y < x)
        BY <2>2 DEF OpToRel
    <2> QED
        BY <2>1, <2>3
<1> QED
    BY <1>2

(* So Min is the least one. *)
LEMMA MinIs ==
    ASSUME NEW S \in SUBSET Nat, S # {}
    PROVE  Min(S) \in S /\ \A y \in S : Min(S) <= y
BY LeastLine DEF Min

(* A bounded one has a greatest. *)
LEMMA MaxIs ==
    ASSUME NEW S \in SUBSET Nat, S # {}, NEW n \in Nat, \A y \in S : y <= n
    PROVE  Max(S) \in S /\ \A y \in S : y <= Max(S)
<1> DEFINE D == {d \in 0..n : n - d \in S}
<1>1. D \in SUBSET Nat /\ D # {}
    <2>1. PICK y \in S : TRUE
        OBVIOUS
    <2>2. y \in Nat /\ y <= n
        OBVIOUS
    <2>3. n - y \in 0..n /\ n - (n - y) = y
        BY <2>2
    <2>4. n - y \in D
        BY <2>1, <2>3
    <2>5. \A x \in D : x \in Nat
        OBVIOUS
    <2> HIDE DEF D
    <2> QED
        BY <2>4, <2>5
<1>2. PICK d \in D : \A e \in D : d <= e
    <2> HIDE DEF D
    <2> QED
        BY <1>1, LeastLine, ZenonT(40)
<1>3. ASSUME NEW y \in S PROVE y <= n - d
    <2>1. y \in Nat /\ y <= n
        OBVIOUS
    <2>2. n - y \in 0..n /\ n - (n - y) = y
        BY <2>1
    <2>3. n - y \in D
        BY <2>2
    <2>4. d \in Nat /\ d <= n - y
        BY <1>2, <2>3
    <2> QED
        BY <2>1, <2>4
<1>4. n - d \in S
    BY <1>2
<1>5. \E x \in S : \A y \in S : x >= y
    <2>1. \A y \in S : n - d >= y
        BY <1>3
    <2> QED
        BY <1>4, <2>1
<1> HIDE DEF D
<1>6. Max(S) \in S /\ \A y \in S : Max(S) >= y
    BY <1>5 DEF Max
<1> QED
    BY <1>6

(* The places of S below i, and the k-th place of S. *)
Below(S, i) == {j \in S : j < i}
Nth(S, k) == CHOOSE i \in S : Cardinality(Below(S, i)) = k - 1
Picked(f, S) == [k \in 1..Cardinality(S) |-> f[Nth(S, k)]]

(* More places are below a later one. *)
LEMMA BelowGrows ==
    ASSUME NEW S \in SUBSET Nat, IsFiniteSet(S), NEW i \in S
    PROVE  /\ Cardinality(Below(S, i)) \in 0..Cardinality(S) - 1
           /\ \A j \in S : i < j => Cardinality(Below(S, i)) < Cardinality(Below(S, j))
<1>1. \A j \in S : IsFiniteSet(Below(S, j)) /\ Cardinality(Below(S, j)) \in Nat
    BY FS_Subset, FS_CardinalityType DEF Below
<1>2. Cardinality(S) \in Nat
    BY FS_CardinalityType
<1>3. ASSUME NEW T \in SUBSET S, Below(S, i) \subseteq T, i \in T PROVE Cardinality(Below(S, i)) < Cardinality(T)
    <2>1. i \notin Below(S, i)
        BY DEF Below
    <2>2. IsFiniteSet(T) /\ Cardinality(T) \in Nat
        BY FS_Subset, FS_CardinalityType
    <2>3. /\ Cardinality(Below(S, i)) <= Cardinality(T)
          /\ Cardinality(T) = Cardinality(Below(S, i)) => T = Below(S, i)
        BY <1>3, <2>2, FS_Subset
    <2> QED
        BY <1>1, <1>3, <2>1, <2>2, <2>3
<1>4. Cardinality(Below(S, i)) < Cardinality(S)
    BY <1>3 DEF Below
<1>5. ASSUME NEW j \in S, i < j PROVE Cardinality(Below(S, i)) < Cardinality(Below(S, j))
    <2>1. Below(S, i) \subseteq Below(S, j) /\ i \in Below(S, j) /\ Below(S, j) \in SUBSET S
        <3>1. i \in Nat /\ j \in Nat /\ \A x \in S : x \in Nat
            OBVIOUS
        <3>2. \A x \in S : x < i => x < j
            BY <1>5, <3>1
        <3> QED
            BY <1>5, <3>2 DEF Below
    <2> QED
        BY <1>3, <2>1
<1> QED
    BY <1>1, <1>2, <1>4, <1>5

(* So the k-th place is one, and only one, place. *)
LEMMA NthIs ==
    ASSUME NEW S \in SUBSET Nat, IsFiniteSet(S), NEW k \in 1..Cardinality(S)
    PROVE  /\ Nth(S, k) \in S /\ Cardinality(Below(S, Nth(S, k))) = k - 1
           /\ \A i \in S : Cardinality(Below(S, i)) = k - 1 => i = Nth(S, k)
<1> DEFINE rank == [i \in S |-> Cardinality(Below(S, i))]
<1>1. Cardinality(S) \in Nat
    BY FS_CardinalityType
<1>2. \A i, j \in S : Cardinality(Below(S, i)) = Cardinality(Below(S, j)) => i = j
    <2> SUFFICES ASSUME NEW i \in S, NEW j \in S, i # j
                 PROVE  Cardinality(Below(S, i)) # Cardinality(Below(S, j))
        OBVIOUS
    <2>1. i < j \/ j < i
        OBVIOUS
    <2>2. Cardinality(Below(S, i)) \in Nat /\ Cardinality(Below(S, j)) \in Nat
        BY BelowGrows
    <2> QED
        BY <2>1, <2>2, BelowGrows
<1>3. rank \in Injection(S, 0..Cardinality(S) - 1)
    <2>1. rank \in [S -> 0..Cardinality(S) - 1]
        BY BelowGrows
    <2>2. \A a, b \in S : rank[a] = rank[b] => a = b
        BY <1>2
    <2> HIDE DEF rank
    <2>3. IsInjective(rank)
        BY <2>1, <2>2 DEF IsInjective
    <2> QED
        BY <2>1, <2>3 DEF Injection
<1>4. IsFiniteSet(0..Cardinality(S) - 1) /\ Cardinality(0..Cardinality(S) - 1) = Cardinality(S)
    <2>1. PICK n \in Nat : n = Cardinality(S)
        BY <1>1
    <2>2. n - 1 \in Int /\ 0 \in Int
        BY <2>1
    <2>3. IsFiniteSet(0..n - 1) /\ Cardinality(0..n - 1) = IF 0 > n - 1 THEN 0 ELSE (n - 1) - 0 + 1
        BY <2>2, FS_Interval
    <2>4. (IF 0 > n - 1 THEN 0 ELSE (n - 1) - 0 + 1) = n
        OBVIOUS
    <2> QED
        BY <2>1, <2>3, <2>4
<1>5. rank \in Surjection(S, 0..Cardinality(S) - 1)
    <2> HIDE DEF rank
    <2> QED
        BY <1>3, <1>4, FS_Injection
<1>6. k - 1 \in 0..Cardinality(S) - 1
    BY <1>1
<1>7. \E i \in S : Cardinality(Below(S, i)) = k - 1
    BY <1>5, <1>6 DEF Surjection
<1> QED
    BY <1>2, <1>7 DEF Nth

(* Places that move, in order, and carry what is there give the same.      *)
LEMMA PickedMoves ==
    ASSUME NEW S \in SUBSET Nat, IsFiniteSet(S), NEW T \in SUBSET Nat, NEW m \in [S -> T],
           \A i, j \in S : i < j => m[i] < m[j], \A t \in T : \E i \in S : m[i] = t,
           NEW f, NEW g, \A i \in S : g[m[i]] = f[i]
    PROVE  IsFiniteSet(T) /\ Cardinality(T) = Cardinality(S) /\ Picked(f, S) = Picked(g, T)
<1>1. \A i, j \in S : m[i] = m[j] => i = j
    <2> SUFFICES ASSUME NEW i \in S, NEW j \in S, i # j PROVE m[i] # m[j]
        OBVIOUS
    <2>1. i \in Nat /\ j \in Nat /\ m[i] \in T /\ m[j] \in T
        OBVIOUS
    <2>2. m[i] \in Nat /\ m[j] \in Nat
        BY <2>1
    <2>3. i < j \/ j < i
        BY <2>1
    <2>4. m[i] < m[j] \/ m[j] < m[i]
        BY <2>3
    <2> QED
        BY <2>2, <2>4
<1>2. m \in Bijection(S, T)
    BY <1>1 DEF Bijection, Injection, Surjection, IsInjective
<1>3. IsFiniteSet(T) /\ Cardinality(T) = Cardinality(S)
    BY <1>2, FS_Bijection DEF ExistsBijection
<1>4. ASSUME NEW i \in S PROVE Cardinality(Below(T, m[i])) = Cardinality(Below(S, i))
    <2> DEFINE p == [j \in Below(S, i) |-> m[j]]
    <2>1. p \in [Below(S, i) -> Below(T, m[i])]
        BY DEF Below
    <2>2. \A a, b \in Below(S, i) : p[a] = p[b] => a = b
        BY <1>1 DEF Below
    <2>3. \A t \in Below(T, m[i]) : \E j \in Below(S, i) : p[j] = t
        <3> SUFFICES ASSUME NEW t \in Below(T, m[i]) PROVE \E j \in Below(S, i) : p[j] = t
            OBVIOUS
        <3>1. t \in T /\ t < m[i] /\ m[i] \in Nat
            BY DEF Below
        <3>2. PICK j \in S : m[j] = t
            BY <3>1
        <3>3. j < i
            <4>1. i \in Nat /\ j \in Nat /\ ~(i < j) /\ i # j
                BY <3>1, <3>2
            <4> QED
                BY <4>1
        <3> QED
            BY <3>2, <3>3 DEF Below
    <2> HIDE DEF p
    <2>4. p \in Bijection(Below(S, i), Below(T, m[i]))
        BY <2>1, <2>2, <2>3 DEF Bijection, Injection, Surjection, IsInjective
    <2>5. IsFiniteSet(Below(S, i))
        BY FS_Subset DEF Below
    <2> QED
        BY <2>4, <2>5, FS_Bijection DEF ExistsBijection
<1>5. ASSUME NEW k \in 1..Cardinality(S) PROVE Nth(T, k) = m[Nth(S, k)]
    <2>1. Nth(S, k) \in S /\ Cardinality(Below(S, Nth(S, k))) = k - 1
        BY NthIs
    <2>2. m[Nth(S, k)] \in T /\ Cardinality(Below(T, m[Nth(S, k)])) = k - 1
        BY <1>4, <2>1
    <2>3. k \in 1..Cardinality(T)
        BY <1>3
    <2>4. \A i \in T : Cardinality(Below(T, i)) = k - 1 => i = Nth(T, k)
        BY <1>3, <2>3, NthIs
    <2> QED
        BY <2>2, <2>4
<1>6. \A k \in 1..Cardinality(S) : f[Nth(S, k)] = g[Nth(T, k)]
    BY <1>5, NthIs
<1> QED
    BY <1>3, <1>6 DEF Picked

(***************************************************************************)
(* What cutTable cuts, by its lines alone: the header at start, the next   *)
(* line that looks like one at end, the first line of the last comments    *)
(* and blanks at content, the next header's own comments at keep, the gap  *)
(* and the first line kept at cut.                                         *)
(***************************************************************************)

TableLines(f, n, start, end) ==
    /\ start \in 1..Len(f) /\ Looks(f, start) /\ f[start].of = n
    /\ \A i \in 1..start - 1 : ~(Looks(f, i) /\ f[i].of = n)
    /\ end \in start + 1..Len(f) + 1 /\ (end <= Len(f) => Looks(f, end))
    /\ \A i \in start + 1..end - 1 : ~Looks(f, i)

(* Where the table's last comments and blanks begin, and what of them stays. *)
TailLines(f, start, end, content, keep) ==
    /\ content \in start + 1..end /\ ~IsComment(f, content - 1) /\ ~IsBlank(f, content - 1)
    /\ \A i \in content..end - 1 : IsComment(f, i) \/ IsBlank(f, i)
    /\ keep \in content..end
    /\ \A j \in content..end - 1 : j >= keep <=> (end <= Len(f) /\ \A i \in j..end - 1 : IsComment(f, i))

(* Of those before keep the comments go and the blanks after them. *)
GapLines(f, content, keep, gap, cut) ==
    /\ gap \in content..keep /\ (\A i \in content..gap - 1 : IsComment(f, i)) /\ (gap < keep => ~IsComment(f, gap))
    /\ cut \in gap..keep /\ (\A i \in gap..cut - 1 : IsBlank(f, i)) /\ (cut < keep => ~IsBlank(f, cut))

(* At the end of the file the blanks above the table go too. *)
UpperLines(f, start, cut, from) ==
    /\ from \in 1..start /\ (cut <= Len(f) => from = start)
    /\ \A i \in from..start - 1 : IsBlank(f, i)
    /\ cut > Len(f) /\ from > 1 => ~IsBlank(f, from - 1)

(* A line's kinds exclude each other. *)
LEMMA LinesAre ==
    ASSUME NEW f \in Seq(Lines), NEW i \in 1..Len(f)
    PROVE  /\ f[i].kind \in {"head", "key", "blank", "comment", "open", "shut"}
           /\ f[i].kind = "head" => f[i] = HeadLine(f[i].of)
           /\ f[i] \in Lines
<1>1. f[i] \in Lines
    BY ElementOfSeq
<1>2. CASE \E n : f[i] = HeadLine(n)
    BY <1>1, <1>2 DEF HeadLine
<1>3. CASE \E k \in Other : f[i] = Plain(k)
    BY <1>1, <1>3 DEF Plain, Other
<1> QED
    BY <1>1, <1>2, <1>3 DEF Lines

(* What cutTable finds first are a table's lines. *)
LEMMA TableLinesIs ==
    ASSUME NEW f \in Seq(Lines), NEW n, \E i \in 1..Len(f) : Looks(f, i) /\ f[i].of = n
    PROVE  LET start == Min({i \in DOMAIN f : Looks(f, i) /\ f[i].of = n})
               end == Min({Len(f) + 1} \cup {i \in start + 1..Len(f) : Looks(f, i)})
           IN TableLines(f, n, start, end)
<1> DEFINE S == {i \in DOMAIN f : Looks(f, i) /\ f[i].of = n}
           start == Min(S)
           E == {Len(f) + 1} \cup {i \in start + 1..Len(f) : Looks(f, i)}
           end == Min(E)
<1>1. PICK N \in Nat : N = Len(f) /\ DOMAIN f = 1..N
    BY LenProperties
<1>2. S \in SUBSET Nat /\ S # {}
    BY <1>1
<1>3. start \in S /\ \A y \in S : start <= y
    <2> HIDE DEF S
    <2> QED
        BY <1>2, MinIs
<1>4. start \in 1..N /\ Looks(f, start) /\ f[start].of = n
    BY <1>1, <1>3
<1>5. ASSUME NEW i \in 1..start - 1, Looks(f, i), f[i].of = n PROVE FALSE
    <2>1. start \in Nat /\ i \in 1..N /\ i < start
        BY <1>4
    <2>2. i \in S
        BY <1>1, <1>5, <2>1
    <2> HIDE DEF start, S
    <2> QED
        BY <1>3, <2>1, <2>2
<1> HIDE DEF start, S
<1>6. E \in SUBSET Nat /\ E # {}
    BY <1>1, <1>4
<1>7. end \in E /\ \A y \in E : end <= y
    <2> HIDE DEF E
    <2> QED
        BY <1>6, MinIs
<1>8. end \in start + 1..N + 1 /\ (end <= N => Looks(f, end))
    BY <1>1, <1>4, <1>7
<1>9. \A i \in start + 1..end - 1 : ~Looks(f, i)
    BY <1>1, <1>4, <1>7, <1>8
<1> HIDE DEF end, E
<1>10. TableLines(f, n, start, end)
    BY <1>1, <1>4, <1>5, <1>8, <1>9 DEF TableLines
<1> QED
    BY <1>10 DEF start, end, S, E

(* And then where its content ends and what of the rest stays. *)
LEMMA TailLinesIs ==
    ASSUME NEW f \in Seq(Lines), NEW n, NEW start, NEW end, TableLines(f, n, start, end)
    PROVE  LET content == Max({start + 1} \cup
                       {i + 1 : i \in {j \in start + 1..end - 1 : ~IsComment(f, j) /\ ~IsBlank(f, j)}})
           IN TailLines(f, start, end, content, KeepFrom(f, content, end))
<1> DEFINE P == {j \in start + 1..end - 1 : ~IsComment(f, j) /\ ~IsBlank(f, j)}
           C == {start + 1} \cup {i + 1 : i \in P}
           content == Max(C)
           keep == KeepFrom(f, content, end)
<1>1. PICK N \in Nat : N = Len(f) /\ DOMAIN f = 1..N
    BY LenProperties
<1>2. start \in 1..N /\ end \in start + 1..N + 1 /\ ~IsComment(f, start) /\ ~IsBlank(f, start)
    BY <1>1 DEF TableLines, Looks, IsComment, IsBlank
<1>3. C \in SUBSET Nat /\ C # {} /\ end \in Nat /\ \A y \in C : y <= end
    BY <1>2
<1>4. content \in C /\ \A y \in C : y <= content
    <2> HIDE DEF C
    <2> QED
        BY <1>3, MaxIs
<1>5. content \in start + 1..end
    BY <1>2, <1>3, <1>4
<1>6. ~IsComment(f, content - 1) /\ ~IsBlank(f, content - 1)
    <2>1. CASE content = start + 1
        BY <1>2, <2>1
    <2>2. CASE \E i \in P : content = i + 1
        <3>1. PICK i \in P : content = i + 1
            BY <2>2
        <3>2. content - 1 = i
            BY <1>2, <3>1
        <3> QED
            BY <3>2
    <2> QED
        BY <1>4, <2>1, <2>2
<1>7. \A i \in content..end - 1 : IsComment(f, i) \/ IsBlank(f, i)
    <2> SUFFICES ASSUME NEW i \in content..end - 1, ~IsComment(f, i), ~IsBlank(f, i) PROVE FALSE
        OBVIOUS
    <2>1. i \in start + 1..end - 1
        BY <1>2, <1>5
    <2>2. i + 1 \in C
        BY <2>1
    <2>3. i + 1 <= content /\ i \in Int /\ content \in Int /\ content <= i
        BY <1>2, <1>4, <1>5, <2>1, <2>2
    <2> QED
        BY <2>3
<1> HIDE DEF content, C, P
<1>8. keep \in content..end
      /\ \A j \in content..end - 1 : j >= keep <=> (end <= N /\ \A i \in j..end - 1 : IsComment(f, i))
    <2>1. CASE end > N
        <3>1. keep = end
            BY <1>1, <2>1 DEF KeepFrom
        <3> QED
            BY <1>2, <1>5, <2>1, <3>1
    <2>2. CASE end <= N
        <3> DEFINE K == {end} \cup {j \in content..end - 1 : \A k \in j..end - 1 : IsComment(f, k)}
        <3>1. keep = Min(K)
            BY <1>1, <1>2, <2>2 DEF KeepFrom
        <3>2. K \in SUBSET Nat /\ K # {}
            BY <1>2, <1>5
        <3>3. keep \in K /\ \A y \in K : keep <= y
            <4> HIDE DEF K, keep
            <4> QED
                BY <3>1, <3>2, MinIs
        <3> HIDE DEF keep
        <3>4. keep \in content..end
            BY <1>2, <1>5, <3>3
        <3>5. ASSUME NEW j \in content..end - 1, j >= keep PROVE \A i \in j..end - 1 : IsComment(f, i)
            <4>1. keep # end /\ j \in Int /\ keep \in Int
                BY <1>2, <1>5, <3>4, <3>5
            <4>2. \A k \in keep..end - 1 : IsComment(f, k)
                BY <3>3, <4>1
            <4> QED
                BY <3>5, <4>1, <4>2
        <3>6. ASSUME NEW j \in content..end - 1, \A i \in j..end - 1 : IsComment(f, i) PROVE j >= keep
            <4>1. j \in K
                BY <3>6
            <4> QED
                BY <1>2, <1>5, <3>3, <3>4, <4>1
        <3> QED
            BY <2>2, <3>4, <3>5, <3>6
    <2> QED
        BY <1>1, <1>2, <2>1, <2>2
<1> HIDE DEF keep
<1>9. TailLines(f, start, end, content, keep)
    BY <1>1, <1>5, <1>6, <1>7, <1>8 DEF TailLines
<1> QED
    BY <1>9 DEF keep, content, C, P

(* Past its comments and blanks is the first line kept. *)
LEMMA GapLinesIs ==
    ASSUME NEW f \in Seq(Lines), NEW n, NEW start, NEW end, TableLines(f, n, start, end),
           NEW content, NEW keep, TailLines(f, start, end, content, keep)
    PROVE  LET gap == Past(f, "comment", content, keep) IN GapLines(f, content, keep, gap, Past(f, "blank", gap, keep))
<1>1. PICK N \in Nat : N = Len(f) /\ DOMAIN f = 1..N
    BY LenProperties
<1>2. start \in 1..N /\ end \in start + 1..N + 1 /\ content \in start + 1..end /\ keep \in content..end
    BY <1>1 DEF TableLines, TailLines
<1>3. ASSUME NEW kind, NEW i \in content..keep
      PROVE  /\ Past(f, kind, i, keep) \in i..keep
             /\ \A j \in i..Past(f, kind, i, keep) - 1 : f[j].kind = kind
             /\ Past(f, kind, i, keep) < keep => f[Past(f, kind, i, keep)].kind # kind
    <2> DEFINE K == {keep} \cup {j \in i..keep - 1 : f[j].kind # kind}
               p == Past(f, kind, i, keep)
    <2>1. K \in SUBSET Nat /\ K # {}
        BY <1>2
    <2>2. p = Min(K)
        BY DEF Past
    <2>3. p \in K /\ \A y \in K : p <= y
        <3> HIDE DEF K, p
        <3> QED
            BY <2>1, <2>2, MinIs
    <2> HIDE DEF p
    <2>4. p \in i..keep /\ (p < keep => f[p].kind # kind)
        BY <1>2, <2>3
    <2>5. ASSUME NEW j \in i..p - 1, f[j].kind # kind PROVE FALSE
        <3>1. j \in i..keep - 1 /\ j < p
            BY <1>2, <2>4
        <3>2. j \in K
            BY <2>5, <3>1
        <3> QED
            BY <1>2, <2>3, <2>4, <3>1, <3>2
    <2>6. \A j \in i..p - 1 : f[j].kind = kind
        BY <2>5
    <2> QED
        BY <2>4, <2>6 DEF p
<1> DEFINE gap == Past(f, "comment", content, keep)
           cut == Past(f, "blank", gap, keep)
<1>4. content \in content..keep
    BY <1>2
<1>5. /\ gap \in content..keep /\ \A j \in content..gap - 1 : f[j].kind = "comment"
      /\ gap < keep => f[gap].kind # "comment"
    BY <1>3, <1>4
<1> HIDE DEF gap
<1>6. /\ cut \in gap..keep /\ \A j \in gap..cut - 1 : f[j].kind = "blank"
      /\ cut < keep => f[cut].kind # "blank"
    BY <1>3, <1>5
<1> HIDE DEF cut
<1>7. GapLines(f, content, keep, gap, cut)
    BY <1>5, <1>6 DEF GapLines, IsComment, IsBlank
<1> QED
    BY <1>7 DEF gap, cut

(* And what of the lines above goes with it. *)
LEMMA UpperLinesIs ==
    ASSUME NEW f \in Seq(Lines), NEW start \in 1..Len(f), NEW cut \in Nat
    PROVE  UpperLines(f, start, cut,
               IF cut > Len(f) THEN Min({start} \cup {j \in 1..start - 1 : \A k \in j..start - 1 : IsBlank(f, k)})
               ELSE start)
<1>1. PICK N \in Nat : N = Len(f) /\ DOMAIN f = 1..N
    BY LenProperties
<1>2. start \in 1..N
    BY <1>1
<1>3. CASE cut <= N
    <2>1. ~(cut > N) /\ start \in 1..start /\ start..start - 1 = {}
        BY <1>2, <1>3
    <2> QED
        BY <1>1, <1>2, <1>3, <2>1 DEF UpperLines
<1>4. CASE cut > N
    <2> DEFINE K == {start} \cup {j \in 1..start - 1 : \A k \in j..start - 1 : IsBlank(f, k)}
               from == Min(K)
    <2>1. K \in SUBSET Nat /\ K # {}
        BY <1>2
    <2>2. from \in K /\ \A y \in K : from <= y
        <3> HIDE DEF K
        <3> QED
            BY <2>1, MinIs
    <2> HIDE DEF from
    <2>3. from \in 1..start /\ \A k \in from..start - 1 : IsBlank(f, k)
        BY <1>2, <2>2
    <2>4. ASSUME from > 1, IsBlank(f, from - 1) PROVE FALSE
        <3>1. from - 1 \in 1..start - 1 /\ from \in Int
            BY <1>2, <2>3, <2>4
        <3>2. ASSUME NEW k \in from - 1..start - 1 PROVE IsBlank(f, k)
            <4>1. k = from - 1 \/ k \in from..start - 1
                BY <1>2, <3>1
            <4> QED
                BY <2>3, <2>4, <4>1
        <3>3. from - 1 \in K
            BY <3>1, <3>2
        <3>4. from <= from - 1
            <4> HIDE DEF K
            <4> QED
                BY <2>2, <3>3
        <3> QED
            BY <3>1, <3>4
    <2>5. UpperLines(f, start, cut, from)
        BY <1>1, <1>4, <2>3, <2>4 DEF UpperLines
    <2> QED
        BY <1>1, <1>4, <2>5 DEF from, K
<1> QED
    BY <1>1, <1>3, <1>4

(* All of it: the file without the lines from..cut-1. *)
Layout(f, n, start, end, content, keep, gap, cut, from) ==
    /\ TableLines(f, n, start, end) /\ TailLines(f, start, end, content, keep)
    /\ GapLines(f, content, keep, gap, cut) /\ UpperLines(f, start, cut, from)

Without(f, from, cut) == SubSeq(f, 1, from - 1) \o SubSeq(f, cut, Len(f))

(* A cut leaves out the lines it found, and those only. *)
LEMMA CutTableIs ==
    ASSUME NEW f \in Seq(Lines), NEW n, \E i \in 1..Len(f) : Looks(f, i) /\ f[i].of = n
    PROVE  \E start, end, content, keep, gap, cut, from :
              Layout(f, n, start, end, content, keep, gap, cut, from) /\ CutTable(f, n) = Without(f, from, cut)
<1> DEFINE start == Min({i \in DOMAIN f : Looks(f, i) /\ f[i].of = n})
           end == Min({Len(f) + 1} \cup {i \in start + 1..Len(f) : Looks(f, i)})
           content == Max({start + 1} \cup
                       {i + 1 : i \in {j \in start + 1..end - 1 : ~IsComment(f, j) /\ ~IsBlank(f, j)}})
           keep == KeepFrom(f, content, end)
           gap == Past(f, "comment", content, keep)
           cut == Past(f, "blank", gap, keep)
           from == IF cut > Len(f)
                   THEN Min({start} \cup {j \in 1..start - 1 : \A k \in j..start - 1 : IsBlank(f, k)})
                   ELSE start
<1>1. CutTable(f, n) = Without(f, from, cut)
    BY DEF CutTable, Without
<1>2. TableLines(f, n, start, end)
    BY TableLinesIs
<1>3. TailLines(f, start, end, content, keep)
    <2> HIDE DEF start, end
    <2> QED
        BY <1>2, TailLinesIs
<1>4. GapLines(f, content, keep, gap, cut)
    <2> HIDE DEF start, end, content, keep
    <2> QED
        BY <1>2, <1>3, GapLinesIs
<1>5. UpperLines(f, start, cut, from)
    <2>1. start \in 1..Len(f) /\ Len(f) \in Nat
        BY <1>2, LenProperties DEF TableLines
    <2>2. cut \in Nat
        <3> HIDE DEF start, end, content, keep, gap, cut
        <3> QED
            BY <1>2, <1>3, <1>4, <2>1 DEF TableLines, TailLines, GapLines
    <2> HIDE DEF start, cut
    <2> QED
        BY <2>1, <2>2, UpperLinesIs
<1> HIDE DEF start, end, content, keep, gap, cut, from
<1> QED
    BY <1>1, <1>2, <1>3, <1>4, <1>5 DEF Layout

(***************************************************************************)
(* A file without some of its lines.                                       *)
(***************************************************************************)

(* What the places of the lines that stay become. *)
Shift(f, g, N, M, d, from, cut) ==
    /\ f \in Seq(Lines) /\ Len(f) = N /\ DOMAIN f = 1..N
    /\ g \in Seq(Lines) /\ Len(g) = M /\ DOMAIN g = 1..M
    /\ from \in 1..N + 1 /\ cut \in from..N + 1 /\ cut = from + d /\ N = M + d
    /\ \A i \in 1..from - 1 : g[i] = f[i]
    /\ \A i \in cut..N : g[i - d] = f[i]
    /\ \A i \in from..M : g[i] = f[i + d]

(* The lines left are those above, and those below moved up. *)
LEMMA WithoutIs ==
    ASSUME NEW f \in Seq(Lines), NEW from, from \in 1..Len(f) + 1, NEW cut, cut \in from..Len(f) + 1,
           NEW g, g = Without(f, from, cut)
    PROVE  \E N, M, d \in Nat : Shift(f, g, N, M, d, from, cut)
<1>0. PICK N \in Nat : N = Len(f) /\ DOMAIN f = 1..N
    BY LenProperties
<1>1. from \in 1..N + 1 /\ cut \in from..N + 1 /\ \A i \in 1..N : f[i] \in Lines
    BY <1>0, ElementOfSeq
<1> DEFINE a == SubSeq(f, 1, from - 1)
           b == SubSeq(f, cut, Len(f))
<1>2. /\ a \in Seq(Lines) /\ Len(a) = from - 1 /\ \A i \in 1..from - 1 : a[i] = f[i]
    <2>1. 1 \in Int /\ from - 1 \in Int /\ \A i \in 1..from - 1 : f[i] \in Lines
        BY <1>1
    <2>2. /\ a \in Seq(Lines) /\ Len(a) = IF 1 <= from - 1 THEN from - 1 - 1 + 1 ELSE 0
          /\ \A i \in 1..from - 1 - 1 + 1 : a[i] = f[1 + i - 1]
        BY <2>1, SubSeqProperties
    <2> HIDE DEF a
    <2> QED
        BY <1>1, <2>2
<1>3. /\ b \in Seq(Lines) /\ Len(b) = N - cut + 1
      /\ \A i \in 1..N - cut + 1 : b[i] = f[cut + i - 1]
    <2>1. cut \in Int /\ N \in Int /\ \A i \in cut..N : f[i] \in Lines
        BY <1>1
    <2>a. b = SubSeq(f, cut, N)
        BY <1>0
    <2> HIDE DEF b
    <2>2. /\ b \in Seq(Lines) /\ Len(b) = IF cut <= N THEN N - cut + 1 ELSE 0
          /\ \A i \in 1..N - cut + 1 : b[i] = f[cut + i - 1]
        BY <2>1, <2>a, SubSeqProperties
    <2> QED
        BY <1>1, <2>2
<1>4. g = a \o b
    BY DEF Without
<1> HIDE DEF a, b
<1>5. /\ g \in Seq(Lines) /\ Len(g) = (from - 1) + (N - cut + 1)
      /\ \A i \in 1..(from - 1) + (N - cut + 1) : g[i] = IF i <= from - 1 THEN a[i] ELSE b[i - (from - 1)]
    <2>1. /\ a \o b \in Seq(Lines) /\ Len(a \o b) = Len(a) + Len(b)
          /\ \A i \in 1..Len(a) + Len(b) : (a \o b)[i] = IF i <= Len(a) THEN a[i] ELSE b[i - Len(a)]
        BY <1>2, <1>3, ConcatProperties
    <2> QED
        BY <1>2, <1>3, <1>4, <2>1
<1>6. PICK M \in Nat : M = Len(g) /\ M = N - (cut - from) /\ DOMAIN g = 1..M
    <2>1. Len(g) \in Nat /\ DOMAIN g = 1..Len(g) /\ Len(g) = N - (cut - from)
        BY <1>1, <1>5, LenProperties
    <2> QED
        BY <2>1
<1>7. ASSUME NEW i \in 1..from - 1 PROVE i \in 1..M /\ g[i] = f[i]
    BY <1>1, <1>2, <1>5, <1>6
<1>8. ASSUME NEW i \in from..M PROVE i + (cut - from) \in cut..N /\ g[i] = f[i + (cut - from)]
    <2>1. i + (cut - from) \in cut..N /\ i - (from - 1) \in 1..N - cut + 1
        BY <1>1, <1>6
    <2>2. g[i] = b[i - (from - 1)]
        BY <1>1, <1>5, <1>6
    <2>3. cut + (i - (from - 1)) - 1 = i + (cut - from)
        BY <1>1, <1>6
    <2> QED
        BY <1>3, <2>1, <2>2, <2>3
<1>9. ASSUME NEW i \in cut..N PROVE i - (cut - from) \in from..M /\ g[i - (cut - from)] = f[i]
    <2>1. i - (cut - from) \in from..M /\ i - (cut - from) + (cut - from) = i
        BY <1>1, <1>6
    <2> QED
        BY <1>8, <2>1
<1>10. PICK d \in Nat : d = cut - from
    BY <1>1
<1>11. cut = from + d /\ N = M + d
    BY <1>1, <1>6, <1>10
<1>12. Shift(f, g, N, M, d, from, cut)
    BY <1>0, <1>1, <1>5, <1>6, <1>7, <1>8, <1>9, <1>10, <1>11 DEF Shift
<1> QED
    BY <1>12

(* What the positions are to each other. *)
LEMMA LayoutIs ==
    ASSUME NEW f \in Seq(Lines), NEW n, NEW start, NEW end, NEW content, NEW keep, NEW gap, NEW cut, NEW from,
           Layout(f, n, start, end, content, keep, gap, cut, from)
    PROVE  /\ Len(f) \in Nat /\ DOMAIN f = 1..Len(f) /\ start \in 1..Len(f) /\ end \in start + 1..Len(f) + 1
           /\ content \in start + 1..end /\ keep \in content..end /\ gap \in content..keep /\ cut \in gap..keep
           /\ from \in 1..start /\ from \in 1..Len(f) + 1 /\ cut \in from..Len(f) + 1
<1>1. Len(f) \in Nat /\ DOMAIN f = 1..Len(f)
    BY LenProperties
<1> QED
    BY <1>1 DEF Layout, TableLines, TailLines, GapLines, UpperLines

Positions(N, start, end, content, keep, gap, cut, from) ==
    /\ start \in 1..N /\ end \in start + 1..N + 1
    /\ content \in start + 1..end /\ keep \in content..end /\ gap \in content..keep /\ cut \in gap..keep
    /\ from \in 1..start

(* So are those a cut leaves. *)
LEMMA CutIs ==
    ASSUME NEW f \in Seq(Lines), NEW n, NEW start, NEW end, NEW content, NEW keep, NEW gap, NEW cut, NEW from,
           Layout(f, n, start, end, content, keep, gap, cut, from), NEW g, g = Without(f, from, cut)
    PROVE  \E N, M, d \in Nat : /\ Positions(N, start, end, content, keep, gap, cut, from)
                               /\ Shift(f, g, N, M, d, from, cut)
<1>1. PICK N \in Nat : N = Len(f) /\ DOMAIN f = 1..N
    BY LenProperties
<1>2. Positions(N, start, end, content, keep, gap, cut, from)
    BY <1>1, LayoutIs DEF Positions
<1>3. from \in 1..N + 1 /\ cut \in from..N + 1
    BY <1>2 DEF Positions
<1>4. from \in 1..Len(f) + 1 /\ cut \in from..Len(f) + 1
    BY <1>1, <1>3
<1>5. PICK K, M, d \in Nat : Shift(f, g, K, M, d, from, cut)
    BY <1>4, WithoutIs
<1>6. K = N
    BY <1>1, <1>5 DEF Shift
<1> QED
    BY <1>2, <1>5, <1>6

(* k is the first line after j that shuts. *)
Shuts(f, j, k) == f[k].kind = "shut" /\ \A i \in j + 1..k - 1 : f[i].kind # "shut"

(* A line that shuts after j has a first such line. *)
LEMMA FirstShut ==
    ASSUME NEW f, NEW j \in Nat, NEW l \in Nat, l > j, f[l].kind = "shut"
    PROVE  \E k \in j + 1..l : Shuts(f, j, k)
<1> DEFINE K == {k \in j + 1..l : f[k].kind = "shut"}
<1>2. K \in SUBSET Nat /\ K # {}
    BY l \in j + 1..l
<1>3. PICK k \in K : \A y \in K : k <= y
    BY <1>2, LeastLine
<1>4. ASSUME NEW i \in j + 1..k - 1, f[i].kind = "shut" PROVE FALSE
    <2>1. k \in Nat /\ k <= l /\ i \in j + 1..l /\ i < k
        BY <1>3
    <2>2. i \in K
        BY <1>4, <2>1
    <2> HIDE DEF K
    <2> QED
        BY <1>3, <2>1, <2>2
<1> QED
    BY <1>3, <1>4 DEF Shuts

(* What is true of a file that parses, line by line. *)
ParsedLine(f, N, i) ==
    /\ f[i].kind = "open" => ~InString(f, i) /\ \E j \in i + 1..N : f[j].kind = "shut"
    /\ f[i].kind = "shut" => InString(f, i)
    /\ f[i].kind \in {"key", "open"} /\ ~InString(f, i) => TableAt(f, i) # 0
    /\ \A j \in 1..N : Header(f, i) /\ Header(f, j) /\ f[i].of = f[j].of => i = j

(* A file parses line by line. *)
LEMMA ParsedLines ==
    ASSUME NEW f, NEW N \in Nat, Len(f) = N, DOMAIN f = 1..N, Parses(f)
    PROVE  \A i \in 1..N : ParsedLine(f, N, i)
BY DEF Parses, ParsedLine

(***************************************************************************)
(* Where the cut passes the checks, the lines it went by were what they    *)
(* looked like.                                                            *)
(***************************************************************************)

(* A string that is cut in two does not parse, nor does one whose end or   *)
(* beginning alone is cut: so the header found first is the table's own.   *)
LEMMA StartIsHeader ==
    ASSUME NEW f \in Seq(Lines), NEW n, NEW start, NEW end, NEW content, NEW keep, NEW gap, NEW cut, NEW from,
           Layout(f, n, start, end, content, keep, gap, cut, from), Parses(f), n \in Entries(f),
           NEW g, g = Without(f, from, cut), Parses(g), n \notin Entries(g)
    PROVE  Header(f, start)
<1>1. PICK N \in Nat, M \in Nat, d \in Nat :
          Positions(N, start, end, content, keep, gap, cut, from) /\ Shift(f, g, N, M, d, from, cut)
    BY CutIs
<1>2. /\ start \in 1..N /\ end \in start + 1..N + 1 /\ cut \in from..N + 1 /\ cut <= end
      /\ from \in 1..start /\ from \in 1..N + 1 /\ start < cut /\ cut = from + d /\ N = M + d
    BY <1>1 DEF Positions, Shift
<1>3. Len(f) = N /\ DOMAIN f = 1..N /\ Len(g) = M /\ DOMAIN g = 1..M
    BY <1>1 DEF Shift
<1>4. /\ g \in Seq(Lines)
      /\ \A i \in cut..N : g[i - d] = f[i]
      /\ \A i \in from..M : g[i] = f[i + d]
    BY <1>1 DEF Shift
<1>5. /\ \A i \in 1..N : ParsedLine(f, N, i)
      /\ \A i \in 1..M : ParsedLine(g, M, i)
    BY <1>3, ParsedLines
<1>6. PICK h \in 1..N : Header(f, h) /\ f[h].of = n
    BY <1>3 DEF Entries
<1>7. SUFFICES ASSUME h # start PROVE FALSE
    BY <1>6
<1>8. h >= end /\ f[h].kind = "head"
    <2>1. Looks(f, h) /\ f[h].kind = "head"
        BY <1>6 DEF Header, Looks
    <2>2. ~(h \in 1..start - 1) /\ ~(h \in start + 1..end - 1)
        BY <1>6, <2>1 DEF Layout, TableLines
    <2> QED
        BY <1>2, <1>6, <1>7, <2>1, <2>2
<1>9. h - d \in from..M /\ g[h - d] = f[h]
    BY <1>2, <1>4, <1>5, <1>8
<1>10. InString(g, h - d)
    <2>1. h - d \in 1..M
        BY <1>2, <1>9
    <2>2. ~Header(g, h - d)
        BY <1>3, <1>6, <1>9, <2>1 DEF Entries
    <2> QED
        BY <1>8, <1>9, <2>2 DEF Header
<1>11. PICK j \in 1..h - d - 1 : g[j].kind = "open" /\ \A k \in j + 1..h - d - 1 : g[k].kind # "shut"
    BY <1>10 DEF InString
<1>12. CASE j >= from
    <2>1. j \in from..M /\ j + d \in 1..h - 1
        BY <1>2, <1>5, <1>9, <1>12
    <2>2. f[j + d].kind = "open"
        BY <1>4, <1>5, <1>11, <2>1
    <2>3. ASSUME NEW k \in j + d + 1..h - 1 PROVE f[k].kind # "shut"
        <3>1. k - d \in j + 1..h - d - 1 /\ k - d \in from..M /\ k - d + d = k
            BY <1>2, <1>5, <1>9, <2>1
        <3> QED
            BY <1>4, <1>5, <1>11, <3>1
    <2>4. InString(f, h)
        BY <2>1, <2>2, <2>3 DEF InString
    <2> QED
        BY <1>6, <2>4 DEF Header
<1>13. CASE j < from
    <2>1. j \in 1..M
        BY <1>9, <1>11, <1>13, <1>2
    <2>2. PICK l \in j + 1..M : g[l].kind = "shut"
        <3>1. ParsedLine(g, M, j) /\ g[j].kind = "open"
            BY <1>5, <1>11, <2>1
        <3> QED
            BY <3>1 DEF ParsedLine
    <2>a. j \in Nat /\ l \in Nat /\ l > j /\ g[l].kind = "shut"
        BY <2>1, <2>2
    <2>b. PICK k \in j + 1..l : Shuts(g, j, k)
        BY <2>a, FirstShut
    <2>3. g[k].kind = "shut" /\ \A i \in j + 1..k - 1 : g[i].kind # "shut"
        BY <2>b DEF Shuts
    <2>4. k >= h - d /\ k # h - d /\ k \in from..M
        BY <1>8, <1>9, <1>11, <2>1, <2>2, <2>3, <1>2
    <2>5. k + d \in h + 1..N /\ f[k + d].kind = "shut"
        BY <1>2, <1>4, <1>5, <1>9, <2>3, <2>4
    <2>6. PICK m \in 1..k + d - 1 : f[m].kind = "open" /\ \A i \in m + 1..k + d - 1 : f[i].kind # "shut"
        <3>1. InString(f, k + d)
            <4>1. k + d \in 1..N
                BY <1>2, <2>5
            <4>2. ParsedLine(f, N, k + d)
                BY <1>5, <4>1
            <4> QED
                BY <2>5, <4>2 DEF ParsedLine
        <3> QED
            BY <3>1 DEF InString
    <2>7. CASE m <= h
        <3>1. m \in 1..h - 1
            BY <1>8, <2>6, <2>7
        <3>2. \A i \in m + 1..h - 1 : f[i].kind # "shut"
            BY <1>2, <2>5, <2>6, <3>1
        <3>3. InString(f, h)
            BY <2>6, <3>1, <3>2 DEF InString
        <3> QED
            BY <1>6, <3>3 DEF Header
    <2>8. CASE m > h
        <3>1. m \in cut..N /\ m - d \in j + 1..k - 1 /\ m - d \in 1..M
            BY <1>2, <1>5, <1>8, <1>9, <1>11, <2>4, <2>5, <2>6, <2>8
        <3>2. g[m - d].kind = "open"
            BY <1>4, <1>5, <2>6, <3>1
        <3>3. ~InString(g, m - d)
            <4>1. ParsedLine(g, M, m - d)
                BY <1>5, <3>1
            <4> QED
                BY <3>2, <4>1 DEF ParsedLine
        <3>4. j \in 1..m - d - 1 /\ \A i \in j + 1..m - d - 1 : g[i].kind # "shut"
            BY <2>1, <2>2, <2>3, <3>1
        <3>5. InString(g, m - d)
            BY <1>11, <3>4 DEF InString
        <3> QED
            BY <3>3, <3>5
    <2> QED
        BY <2>6, <2>7, <2>8, <1>6
<1> QED
    BY <1>11, <1>12, <1>13, <1>2


(* A string of the table is cut whole: so is what ends the table a header. *)
LEMMA EndIsHeader ==
    ASSUME NEW f \in Seq(Lines), NEW n, NEW start, NEW end, NEW content, NEW keep, NEW gap, NEW cut, NEW from,
           Layout(f, n, start, end, content, keep, gap, cut, from), Parses(f), Header(f, start), end <= Len(f),
           NEW g, g = Without(f, from, cut), Parses(g)
    PROVE  Header(f, end)
<1>1. PICK N \in Nat, M \in Nat, d \in Nat :
          Positions(N, start, end, content, keep, gap, cut, from) /\ Shift(f, g, N, M, d, from, cut)
    BY CutIs
<1>2. /\ start \in 1..N /\ end \in start + 1..N + 1 /\ cut \in from..N + 1 /\ cut <= end
      /\ from \in 1..start /\ from \in 1..N + 1 /\ start < cut /\ cut = from + d /\ N = M + d
      /\ content \in start + 1..end /\ content <= cut
    BY <1>1 DEF Positions, Shift
<1>3. Len(f) = N /\ DOMAIN f = 1..N /\ Len(g) = M /\ DOMAIN g = 1..M
    BY <1>1 DEF Shift
<1>4. /\ \A i \in 1..from - 1 : g[i] = f[i]
      /\ \A i \in cut..N : g[i - d] = f[i]
      /\ \A i \in from..M : g[i] = f[i + d]
    BY <1>1 DEF Shift
<1>5. /\ \A i \in 1..N : ParsedLine(f, N, i)
      /\ \A i \in 1..M : ParsedLine(g, M, i)
    BY <1>3, ParsedLines
<1>6. /\ end \in start + 1..N /\ f[end].kind = "head" /\ f[start].kind = "head" /\ ~InString(f, start)
      /\ \A i \in content..end - 1 : f[i].kind = "comment" \/ f[i].kind = "blank"
      /\ \A i \in from..start - 1 : f[i].kind = "blank"
    BY <1>2, <1>3 DEF Layout, TableLines, TailLines, UpperLines, Looks, IsComment, IsBlank, Header
<1>7. SUFFICES ASSUME InString(f, end) PROVE FALSE
    BY <1>6 DEF Header
<1>8. PICK j \in 1..end - 1 : f[j].kind = "open" /\ \A k \in j + 1..end - 1 : f[k].kind # "shut"
    BY <1>7 DEF InString
<1>9. ASSUME NEW m \in 1..start - 1, f[m].kind = "open" PROVE \E i \in m + 1..start - 1 : f[i].kind = "shut"
    BY <1>6, <1>9 DEF InString
<1>10. j \in start + 1..content - 1 /\ j < cut
    <2>1. ~(j \in 1..start - 1)
        <3> SUFFICES ASSUME j \in 1..start - 1 PROVE FALSE
            OBVIOUS
        <3>1. PICK i \in j + 1..start - 1 : f[i].kind = "shut"
            BY <1>8, <1>9
        <3>2. i \in j + 1..end - 1
            BY <1>2
        <3> QED
            BY <1>8, <3>1, <3>2
    <2>2. j # start /\ ~(j \in content..end - 1)
        BY <1>6, <1>8
    <2> QED
        BY <1>2, <1>8, <2>1, <2>2
<1>11. PICK l \in j + 1..N : f[l].kind = "shut"
    <2>1. j \in 1..N
        BY <1>2, <1>8
    <2>2. ParsedLine(f, N, j)
        BY <1>5, <2>1
    <2> QED
        BY <1>8, <2>2 DEF ParsedLine
<1>12. PICK k \in j + 1..l : Shuts(f, j, k)
    <2>1. j \in Nat /\ l \in Nat /\ l > j /\ f[l].kind = "shut"
        BY <1>2, <1>8, <1>11
    <2> QED
        BY <2>1, FirstShut
<1>13. f[k].kind = "shut" /\ \A i \in j + 1..k - 1 : f[i].kind # "shut"
    BY <1>12 DEF Shuts
<1>14. k \in end + 1..N /\ k \in cut..N
    <2>1. k # end /\ ~(k \in j + 1..end - 1)
        BY <1>6, <1>8, <1>13
    <2>2. j \in Nat /\ k \in j + 1..N /\ j < end
        BY <1>2, <1>8, <1>11, <1>12
    <2>3. k \in end + 1..N
        BY <1>2, <2>1, <2>2
    <2> QED
        BY <1>2, <2>3
<1>15. k - d \in from..M /\ k - d \in 1..M /\ g[k - d].kind = "shut"
    <2>1. k - d \in from..M /\ k - d \in 1..M
        BY <1>2, <1>14
    <2>2. g[k - d] = f[k]
        BY <1>4, <1>14
    <2> QED
        BY <1>13, <2>1, <2>2
<1>16. PICK o \in 1..k - d - 1 : g[o].kind = "open" /\ \A i \in o + 1..k - d - 1 : g[i].kind # "shut"
    <2>1. ParsedLine(g, M, k - d)
        BY <1>5, <1>15
    <2>2. InString(g, k - d)
        BY <1>15, <2>1 DEF ParsedLine
    <2> QED
        BY <2>2 DEF InString
<1>17. CASE o >= from
    <2>1. o \in from..M /\ o + d \in cut..k - 1 /\ o + d \in 1..N /\ j \in 1..o + d - 1
        <3>a. o \in Nat /\ k \in Nat /\ o + d < k /\ o < M
            BY <1>2, <1>14
        <3>1. o \in from..M /\ o + d \in cut..k - 1
            BY <1>2, <1>17, <3>a
        <3>2. o + d \in 1..N /\ j < o + d
            BY <1>2, <1>10, <1>14, <3>1
        <3> QED
            BY <1>2, <1>8, <3>1, <3>2
    <2>2. f[o + d].kind = "open"
        BY <1>4, <1>16, <2>1
    <2>3. ~InString(f, o + d)
        <3>1. ParsedLine(f, N, o + d)
            BY <1>5, <2>1
        <3> QED
            BY <2>2, <3>1 DEF ParsedLine
    <2>4. \A i \in j + 1..o + d - 1 : f[i].kind # "shut"
        BY <1>13, <2>1, <1>14
    <2> QED
        BY <1>8, <2>1, <2>3, <2>4 DEF InString
<1>18. CASE o < from
    <2>1. o \in 1..from - 1 /\ o \in 1..start - 1 /\ o \in Nat
        BY <1>2, <1>16, <1>18
    <2>2. f[o].kind = "open"
        BY <1>4, <1>16, <2>1
    <2>3. PICK i \in o + 1..start - 1 : f[i].kind = "shut"
        BY <1>9, <2>1, <2>2
    <2>4. i \in 1..from - 1 /\ i \in o + 1..k - d - 1
        BY <1>2, <1>6, <1>15, <2>1, <2>3
    <2> QED
        BY <1>4, <1>16, <2>3, <2>4
<1> QED
    BY <1>2, <1>16, <1>17, <1>18

(* The table a line is in is the last header's at or above it. *)
LEMMA TableAtIs ==
    ASSUME NEW f, NEW j \in Nat
    PROVE  /\ TableAt(f, j) \in 0..j /\ (TableAt(f, j) = 0 \/ Header(f, TableAt(f, j)))
           /\ \A i \in 1..j : Header(f, i) => i <= TableAt(f, j)
<1> DEFINE S == {0} \cup {i \in 1..j : Header(f, i)}
<1>1. S \in SUBSET Nat /\ S # {} /\ \A y \in S : y <= j
    OBVIOUS
<1>2. TableAt(f, j) = Max(S)
    BY DEF TableAt
<1>3. TableAt(f, j) \in S /\ \A y \in S : y <= TableAt(f, j)
    <2> HIDE DEF S
    <2> QED
        BY <1>1, <1>2, MaxIs
<1> QED
    BY <1>3

(* What the table of a header at start is: its lines, and where its keys   *)
(* and strings end.                                                        *)
LEMMA BodyIs ==
    ASSUME NEW f \in Seq(Lines), NEW n, NEW start, NEW end, NEW content, NEW keep, NEW N \in Nat,
           Len(f) = N, DOMAIN f = 1..N, TableLines(f, n, start, end), TailLines(f, start, end, content, keep),
           Parses(f), Header(f, start), end <= N => Header(f, end)
    PROVE  /\ \A j \in 1..N : TableAt(f, j) = start <=> j \in start..end - 1
           /\ \A j \in start + 1..N : Header(f, j) => j >= end
           /\ \A j \in content..end - 1 : ~InString(f, j)
<1>2. start \in 1..N /\ end \in start + 1..N + 1 /\ content \in start + 1..end
    BY DEF TableLines, TailLines
<1>3. \A i \in 1..N : ParsedLine(f, N, i)
    BY ParsedLines
<1>4. /\ f[start].kind = "head" /\ ~InString(f, start)
      /\ \A i \in start + 1..end - 1 : f[i].kind # "head"
      /\ \A i \in content..end - 1 : f[i].kind = "comment" \/ f[i].kind = "blank"
    BY <1>2 DEF TableLines, TailLines, Looks, IsComment, IsBlank, Header
<1>5. ASSUME NEW j \in start + 1..N, Header(f, j) PROVE j >= end
    <2>1. ~(j \in start + 1..end - 1)
        BY <1>4, <1>5 DEF Header
    <2> QED
        BY <1>2, <2>1
<1>6. ASSUME NEW j \in 1..N PROVE TableAt(f, j) = start <=> j \in start..end - 1
    <2>1. PICK t \in 0..j : /\ t = TableAt(f, j) /\ (t = 0 \/ Header(f, t))
                            /\ \A i \in 1..j : Header(f, i) => i <= t
        <3>1. j \in Nat
            OBVIOUS
        <3> QED
            BY <3>1, TableAtIs
    <2>2. CASE j < start
        BY <1>2, <2>1, <2>2
    <2>3. CASE j \in start..end - 1
        <3>1. start <= t
            BY <1>2, <2>1, <2>3
        <3>2. ~(t \in start + 1..N)
            <4> SUFFICES ASSUME t \in start + 1..N PROVE FALSE
                OBVIOUS
            <4>1. Header(f, t)
                BY <1>2, <2>1
            <4>2. t >= end
                BY <1>5, <4>1
            <4> QED
                BY <1>2, <2>1, <2>3, <4>2
        <3> QED
            BY <1>2, <2>1, <2>3, <3>1, <3>2
    <2>4. CASE j >= end
        <3>1. end \in 1..j /\ end <= N
            BY <1>2, <2>4
        <3>2. end <= t
            BY <2>1, <3>1
        <3> QED
            BY <1>2, <2>1, <2>4, <3>2
    <2> QED
        BY <1>2, <2>2, <2>3, <2>4
<1>7. ASSUME NEW j \in content..end - 1, InString(f, j) PROVE FALSE
    <2>1. PICK m \in 1..j - 1 : f[m].kind = "open" /\ \A k \in m + 1..j - 1 : f[k].kind # "shut"
        BY <1>7 DEF InString
    <2>2. ~(m \in 1..start - 1)
        <3> SUFFICES ASSUME m \in 1..start - 1 PROVE FALSE
            OBVIOUS
        <3>1. \A k \in m + 1..start - 1 : f[k].kind # "shut"
            BY <1>2, <2>1
        <3> QED
            BY <1>4, <2>1, <3>1 DEF InString
    <2>3. m \in start + 1..j - 1 /\ m \in 1..N
        BY <1>2, <1>4, <2>1, <2>2
    <2>4. PICK l \in m + 1..N : f[l].kind = "shut"
        <3>1. ParsedLine(f, N, m)
            BY <1>3, <2>3
        <3> QED
            BY <2>1, <3>1 DEF ParsedLine
    <2>5. PICK k \in m + 1..l : Shuts(f, m, k)
        <3>1. m \in Nat /\ l \in Nat /\ l > m /\ f[l].kind = "shut"
            BY <1>2, <2>3, <2>4
        <3> QED
            BY <3>1, FirstShut
    <2>6. f[k].kind = "shut" /\ \A i \in m + 1..k - 1 : f[i].kind # "shut"
        BY <2>5 DEF Shuts
    <2>7. k >= end /\ k \in 1..N
        <3>1. ~(k \in m + 1..j - 1) /\ ~(k \in content..end - 1)
            BY <1>4, <2>1, <2>6
        <3> QED
            BY <1>2, <2>3, <2>4, <2>5, <3>1
    <2>8. Header(f, end)
        BY <1>2, <2>7
    <2>9. m \in 1..end - 1 /\ \A i \in m + 1..end - 1 : f[i].kind # "shut"
        BY <1>2, <2>3, <2>6, <2>7
    <2> QED
        BY <2>1, <2>8, <2>9 DEF Header, InString
<1> QED
    BY <1>5, <1>6, <1>7

(* Of the lines that are a table's own, the cut takes all and only those.  *)
LEMMA OwnIs ==
    ASSUME NEW f \in Seq(Lines), NEW n, NEW start, NEW end, NEW content, NEW keep, NEW gap, NEW cut, NEW from,
           Layout(f, n, start, end, content, keep, gap, cut, from), Parses(f), Header(f, start),
           end <= Len(f) => Header(f, end), NEW N \in Nat, Len(f) = N, DOMAIN f = 1..N,
           Positions(N, start, end, content, keep, gap, cut, from), NEW i \in 1..N
    PROVE  OwnLine(f, n, i) <=> i \in from..cut - 1
<1> DEFINE h == CHOOSE j \in DOMAIN f : Header(f, j) /\ f[j].of = n
           next == {j \in h + 1..Len(f) : Header(f, j)}
           body == {j \in DOMAIN f : TableAt(f, j) = h}
           held == {j \in body : InString(f, j) \/ ~(IsBlank(f, j) \/ IsComment(f, j))}
           last == Max(held)
           nexts(j) == next # {} /\ \A k \in j..Max(body) : IsComment(f, k)
           glued(j) == \A k \in last + 1..j : IsComment(f, k) /\ ~nexts(k)
           gapped(j) == IsBlank(f, j) /\ \A k \in last + 1..j :
                           glued(k) \/ (IsBlank(f, k) /\ ~(\E m \in last + 1..k : nexts(m)))
           own(j) == j \in body /\ (j <= last \/ glued(j) \/ gapped(j))
           upper(j) == j < h /\ (\A k \in j..h - 1 : IsBlank(f, k)) /\ \A k \in h..Len(f) : own(k)
<1>1. OwnLine(f, n, i) <=> own(i) \/ upper(i)
    BY DEF OwnLine
<1>2. /\ start \in 1..N /\ end \in start + 1..N + 1 /\ content \in start + 1..end /\ keep \in content..end
      /\ gap \in content..keep /\ cut \in gap..keep /\ from \in 1..start
    BY DEF Positions
<1>3. TableLines(f, n, start, end) /\ TailLines(f, start, end, content, keep)
    BY DEF Layout
<1>4. /\ \A j \in 1..N : TableAt(f, j) = start <=> j \in start..end - 1
      /\ \A j \in start + 1..N : Header(f, j) => j >= end
      /\ \A j \in content..end - 1 : ~InString(f, j)
    BY <1>3, BodyIs
<1>5. h = start
    <2>1. f[start].of = n /\ \A j \in 1..N : Header(f, j) /\ f[j].of = n => j = start
        BY <1>2, <1>3 DEF TableLines, Parses
    <2> QED
        BY <1>2, <2>1
<1> HIDE DEF h
<1>6. body = start..end - 1
    <2>1. \A j \in body : j \in start..end - 1
        BY <1>2, <1>4, <1>5
    <2>2. \A j \in start..end - 1 : j \in body
        BY <1>2, <1>4, <1>5
    <2> QED
        BY <2>1, <2>2
<1>7. next # {} <=> end <= N
    <2>1. CASE end <= N
        <3>1. end \in start + 1..N /\ Header(f, end)
            BY <1>2, <2>1
        <3> QED
            BY <1>5, <2>1, <3>1
    <2>2. CASE end > N
        <3> SUFFICES ASSUME NEW j \in start + 1..N, Header(f, j) PROVE FALSE
            BY <1>2, <1>5, <2>2
        <3> QED
            BY <1>2, <1>4, <2>2
    <2> QED
        BY <1>2, <2>1, <2>2
<1>8. last = content - 1
    <2>1. content - 1 \in held
        <3>1. ~IsComment(f, content - 1) /\ ~IsBlank(f, content - 1) /\ content - 1 \in start..end - 1
            BY <1>2, <1>3 DEF TailLines
        <3> QED
            BY <1>6, <3>1
    <2>2. ASSUME NEW j \in held PROVE j <= content - 1
        <3>1. j \in start..end - 1 /\ ~(j \in content..end - 1)
            BY <1>3, <1>4, <1>6 DEF TailLines
        <3> QED
            BY <1>2, <3>1
    <2>3. held \in SUBSET Nat /\ held # {} /\ content - 1 \in Nat
        BY <1>2, <1>6, <2>1
    <2> HIDE DEF held
    <2>4. Max(held) \in held /\ \A y \in held : y <= Max(held)
        BY <2>2, <2>3, MaxIs
    <2>5. last \in Nat /\ content - 1 <= last /\ last <= content - 1
        BY <2>1, <2>2, <2>3, <2>4
    <2> HIDE DEF last
    <2> QED
        BY <1>2, <2>5
<1>9. Max(body) = end - 1
    <2>1. body \in SUBSET Nat /\ body # {} /\ end - 1 \in Nat /\ end - 1 \in body /\ \A y \in body : y <= end - 1
        BY <1>2, <1>6
    <2> HIDE DEF body
    <2>2. Max(body) \in body /\ \A y \in body : y <= Max(body)
        BY <2>1, MaxIs
    <2>3. Max(body) \in Nat /\ Max(body) <= end - 1 /\ end - 1 <= Max(body)
        BY <2>1, <2>2
    <2> QED
        BY <2>1, <2>3
<1>10. ASSUME NEW j \in content..end - 1 PROVE nexts(j) <=> j >= keep
    <2>1. j >= keep <=> (end <= Len(f) /\ \A k \in j..end - 1 : IsComment(f, k))
        BY <1>3 DEF TailLines
    <2> HIDE DEF next, body
    <2> QED
        BY <1>7, <1>9, <2>1
<1> HIDE DEF next, body, held, last, nexts
<1>11. /\ \A k \in content..gap - 1 : IsComment(f, k)
       /\ gap < keep => ~IsComment(f, gap)
       /\ \A k \in gap..cut - 1 : IsBlank(f, k)
       /\ cut < keep => ~IsBlank(f, cut)
    BY DEF Layout, GapLines
<1>12. ASSUME NEW j \in content..end - 1 PROVE glued(j) <=> j < gap
    <2>1. ASSUME j < gap PROVE glued(j)
        <3> SUFFICES ASSUME NEW k \in content..j PROVE IsComment(f, k) /\ ~nexts(k)
            BY <1>2, <1>8
        <3>1. k \in content..gap - 1 /\ k \in content..end - 1 /\ ~(k >= keep)
            BY <1>2, <2>1
        <3> QED
            BY <1>10, <1>11, <3>1
    <2>2. ASSUME glued(j), j >= gap PROVE FALSE
        <3>1. gap \in last + 1..j /\ gap \in content..end - 1
            BY <1>2, <1>8, <2>2
        <3>2. IsComment(f, gap) /\ ~nexts(gap)
            BY <2>2, <3>1
        <3>3. gap < keep
            BY <1>2, <1>10, <3>1, <3>2
        <3> QED
            BY <1>11, <3>2, <3>3
    <2> HIDE DEF glued
    <2> QED
        BY <1>2, <2>1, <2>2
<1> HIDE DEF glued
<1>13. ASSUME NEW j \in content..end - 1 PROVE glued(j) \/ gapped(j) <=> j < cut
    <2>1. ASSUME j < cut, ~(j < gap) PROVE gapped(j)
        <3>1. IsBlank(f, j)
            BY <1>2, <1>11, <2>1
        <3>2. ASSUME NEW k \in content..j, ~glued(k) PROVE IsBlank(f, k) /\ \A m \in content..k : ~nexts(m)
            <4>1. k \in content..end - 1 /\ k \in gap..cut - 1
                BY <1>2, <1>12, <2>1, <3>2
            <4>2. ASSUME NEW m \in content..k PROVE ~nexts(m)
                <5>1. m \in content..end - 1 /\ ~(m >= keep)
                    BY <1>2, <4>1
                <5> QED
                    BY <1>10, <5>1
            <4> QED
                BY <1>11, <4>1, <4>2
        <3>3. last + 1 = content
            BY <1>2, <1>8
        <3> QED
            BY <3>1, <3>2, <3>3
    <2>2. ASSUME gapped(j), ~(j < cut) PROVE FALSE
        <3>1. cut \in last + 1..j /\ cut \in content..end - 1 /\ ~(cut < gap) /\ last + 1 = content
            BY <1>2, <1>8, <2>2
        <3>2. IsBlank(f, cut) /\ ~(\E m \in last + 1..cut : nexts(m))
            BY <1>12, <2>2, <3>1
        <3>3. ~nexts(cut)
            BY <1>2, <3>1, <3>2
        <3>4. cut < keep
            BY <1>2, <1>10, <3>1, <3>3
        <3> QED
            BY <1>11, <3>2, <3>4
    <2> HIDE DEF gapped
    <2>3. j < gap => j < cut
        BY <1>2
    <2> QED
        BY <1>12, <2>1, <2>2, <2>3
<1> HIDE DEF gapped
<1>14. ASSUME NEW j \in 1..N PROVE own(j) <=> j \in start..cut - 1
    <2>1. CASE ~(j \in start..end - 1)
        BY <1>2, <1>6, <2>1
    <2>2. CASE j \in start..content - 1
        BY <1>2, <1>6, <1>8, <2>2
    <2>3. CASE j \in content..end - 1
        <3>1. own(j) <=> glued(j) \/ gapped(j)
            BY <1>2, <1>6, <1>8, <2>3
        <3> HIDE DEF own
        <3> QED
            BY <1>2, <1>13, <2>3, <3>1
    <2> QED
        BY <1>2, <2>1, <2>2, <2>3
<1> HIDE DEF own
<1>15. UpperLines(f, start, cut, from)
    BY DEF Layout
<1>16. (\A k \in start..N : own(k)) <=> cut > N
    <2>1. ASSUME cut <= N, \A k \in start..N : own(k) PROVE FALSE
        <3>1. cut \in start..N /\ cut \in 1..N /\ ~(cut \in start..cut - 1)
            BY <1>2, <2>1
        <3> QED
            BY <1>14, <2>1, <3>1
    <2>2. ASSUME cut > N, NEW k \in start..N PROVE own(k)
        <3>1. k \in 1..N /\ k \in start..cut - 1
            BY <1>2, <2>2
        <3> QED
            BY <1>14, <3>1
    <2> QED
        BY <1>2, <2>1, <2>2
<1>17. upper(i) <=> i \in from..start - 1
    <2>1. CASE cut <= N
        <3>1. from = start /\ ~upper(i)
            BY <1>5, <1>15, <1>16, <1>2, <2>1 DEF UpperLines
        <3> HIDE DEF upper
        <3> QED
            BY <1>2, <3>1
    <2>2. CASE cut > N
        <3>1. upper(i) <=> i < start /\ \A k \in i..start - 1 : IsBlank(f, k)
            BY <1>5, <1>16, <2>2
        <3>2. (\A k \in from..start - 1 : IsBlank(f, k)) /\ (from > 1 => ~IsBlank(f, from - 1))
            BY <1>15, <2>2 DEF UpperLines
        <3> HIDE DEF upper
        <3>3. ASSUME i \in from..start - 1 PROVE upper(i)
            BY <1>2, <3>1, <3>2, <3>3
        <3>4. ASSUME upper(i), i < from PROVE FALSE
            <4>1. from - 1 \in i..start - 1 /\ from > 1
                BY <1>2, <3>4
            <4> QED
                BY <3>1, <3>2, <3>4, <4>1
        <3> QED
            BY <1>2, <3>1, <3>3, <3>4
    <2> QED
        BY <1>2, <2>1, <2>2
<1> HIDE DEF upper
<1> QED
    BY <1>1, <1>2, <1>14, <1>17

(* The first M lines are picked as they are. *)
LEMMA PickedAll ==
    ASSUME NEW g \in Seq(Lines), NEW M \in Nat, Len(g) = M, DOMAIN g = 1..M
    PROVE  Picked(g, 1..M) = g /\ IsFiniteSet(1..M)
<1>1. \A k \in 0..M : IsFiniteSet(1..k) /\ Cardinality(1..k) = k
    <2> SUFFICES ASSUME NEW k \in 0..M PROVE IsFiniteSet(1..k) /\ Cardinality(1..k) = k
        OBVIOUS
    <2>1. IsFiniteSet(1..k) /\ Cardinality(1..k) = IF 1 > k THEN 0 ELSE k - 1 + 1
        BY 1 \in Int, k \in Int, FS_Interval
    <2> QED
        BY <2>1
<1>2. IsFiniteSet(1..M) /\ Cardinality(1..M) = M
    BY <1>1
<1>3. ASSUME NEW k \in 1..M PROVE Nth(1..M, k) = k
    <2>1. Below(1..M, k) = 1..k - 1
        BY DEF Below
    <2>2. k - 1 \in 0..M
        OBVIOUS
    <2>3. Cardinality(Below(1..M, k)) = k - 1
        BY <1>1, <2>1, <2>2
    <2>4. k \in 1..Cardinality(1..M) /\ 1..M \in SUBSET Nat
        BY <1>2
    <2>5. \A i \in 1..M : Cardinality(Below(1..M, i)) = k - 1 => i = Nth(1..M, k)
        BY <1>2, <2>4, NthIs
    <2> QED
        BY <2>3, <2>5
<1>4. Picked(g, 1..M) = [k \in 1..M |-> g[k]]
    BY <1>2, <1>3 DEF Picked
<1>5. g = [k \in 1..M |-> g[k]]
    BY SeqDef
<1> QED
    BY <1>2, <1>4, <1>5

(* What stays is what is picked of the file, in order. *)
LEMMA CutIsPicked ==
    ASSUME NEW f, NEW g, NEW N \in Nat, NEW M \in Nat, NEW d \in Nat, NEW from, NEW cut, Shift(f, g, N, M, d, from, cut)
    PROVE  g = Picked(f, 1..from - 1 \cup cut..N)
<1>1. /\ g \in Seq(Lines) /\ Len(g) = M /\ DOMAIN g = 1..M
      /\ from \in 1..N + 1 /\ cut \in from..N + 1 /\ cut = from + d /\ N = M + d
      /\ \A i \in 1..from - 1 : g[i] = f[i]
      /\ \A i \in from..M : g[i] = f[i + d]
    BY DEF Shift
<1> DEFINE S == 1..M
           T == 1..from - 1 \cup cut..N
           m == [i \in S |-> IF i < from THEN i ELSE i + d]
<1>2. S \in SUBSET Nat /\ T \in SUBSET Nat /\ IsFiniteSet(S) /\ Picked(g, S) = g
    BY <1>1, PickedAll
<1>3. m \in [S -> T]
    BY <1>1
<1>4. \A i, j \in S : i < j => m[i] < m[j]
    BY <1>1
<1>5. ASSUME NEW t \in T PROVE \E i \in S : m[i] = t
    <2>1. CASE t \in 1..from - 1
        <3>1. t \in S /\ m[t] = t
            BY <1>1, <2>1
        <3> QED
            BY <3>1
    <2>2. CASE t \in cut..N
        <3>1. t - d \in S /\ m[t - d] = t
            BY <1>1, <2>2
        <3> QED
            BY <3>1
    <2> QED
        BY <2>1, <2>2
<1>6. \A i \in S : f[m[i]] = g[i]
    BY <1>1
<1> HIDE DEF S, T, m
<1>7. Picked(g, S) = Picked(f, T)
    BY <1>2, <1>3, <1>4, <1>5, <1>6, PickedMoves
<1> QED
    BY <1>2, <1>7 DEF T

(* A removal that is not refused takes the table's own lines and no other. *)
LEMMA CutIsExact ==
    ASSUME NEW f \in Seq(Lines), NEW n, Removable(f, n)
    PROVE  CutTable(f, n) = Picked(f, {i \in DOMAIN f : ~OwnLine(f, n, i)})
<1> DEFINE g == CutTable(f, n)
<1>1. Parses(f) /\ n \in Entries(f) /\ Parses(g) /\ n \notin Entries(g)
    BY DEF Removable
<1>2. PICK N \in Nat : Len(f) = N /\ DOMAIN f = 1..N
    BY LenProperties
<1>3. PICK start, end, content, keep, gap, cut, from :
          Layout(f, n, start, end, content, keep, gap, cut, from) /\ g = Without(f, from, cut)
    <2>1. \E i \in 1..Len(f) : Looks(f, i) /\ f[i].of = n
        BY <1>1, <1>2 DEF Entries, Header, Looks
    <2> QED
        BY <2>1, CutTableIs
<1> HIDE DEF g
<1>4. Header(f, start)
    BY <1>1, <1>3, StartIsHeader
<1>5. end <= Len(f) => Header(f, end)
    BY <1>1, <1>3, <1>4, EndIsHeader
<1>6. PICK K \in Nat, M \in Nat, d \in Nat :
          Positions(K, start, end, content, keep, gap, cut, from) /\ Shift(f, g, K, M, d, from, cut)
    BY <1>3, CutIs
<1>7. K = N
    BY <1>2, <1>6 DEF Shift
<1>8. ASSUME NEW i \in 1..N PROVE OwnLine(f, n, i) <=> i \in from..cut - 1
    BY <1>1, <1>2, <1>3, <1>4, <1>5, <1>6, <1>7, OwnIs
<1>9. from \in 1..N + 1 /\ cut \in from..N + 1
    BY <1>6, <1>7 DEF Shift
<1>10. {i \in DOMAIN f : ~OwnLine(f, n, i)} = 1..from - 1 \cup cut..N
    BY <1>2, <1>8, <1>9
<1>11. g = Picked(f, 1..from - 1 \cup cut..N)
    BY <1>6, <1>7, CutIsPicked
<1> QED
    BY <1>10, <1>11 DEF g

(***************************************************************************)
(* A file without strings: what looks like a header is one, above the cut  *)
(* and below it, and the checks find nothing to refuse.                    *)
(***************************************************************************)

(* No line of it is in a string, and none ends one. *)
PlainText(f, N) ==
    \A i \in 1..N : ~InString(f, i) /\ f[i].kind # "open" /\ f[i].kind # "shut" /\ (Header(f, i) <=> f[i].kind = "head")

(* A file without strings is plain text. *)
LEMMA PlainIs ==
    ASSUME NEW f, NEW N \in Nat, \A i \in 1..N : f[i].kind # "open" /\ f[i].kind # "shut"
    PROVE  PlainText(f, N)
<1>1. ASSUME NEW i \in 1..N, InString(f, i) PROVE FALSE
    <2>1. PICK j \in 1..i - 1 : f[j].kind = "open"
        BY <1>1 DEF InString
    <2> QED
        BY <2>1
<1> QED
    BY <1>1 DEF PlainText, Header

(* Where a line of the file is after the cut, and where it was before. *)
To(from, d, i) == IF i < from THEN i ELSE i - d
Fro(from, d, i) == IF i < from THEN i ELSE i + d

Moves(f, g, N, M, d, from, cut) ==
    /\ \A i \in 1..from - 1 \cup cut..N : /\ To(from, d, i) \in 1..M /\ Fro(from, d, To(from, d, i)) = i
                                          /\ g[To(from, d, i)] = f[i]
    /\ \A i \in 1..M : /\ Fro(from, d, i) \in 1..from - 1 \cup cut..N /\ To(from, d, Fro(from, d, i)) = i
                       /\ Fro(from, d, i) \in 1..N /\ g[i] = f[Fro(from, d, i)]
    /\ \A i, j \in 1..from - 1 \cup cut..N : i < j => To(from, d, i) < To(from, d, j)
    /\ \A i, j \in 1..M : i < j => Fro(from, d, i) < Fro(from, d, j)

(* A line is of the same kind after the cut. *)
LEMMA ToAndFro ==
    ASSUME NEW f, NEW g, NEW N \in Nat, NEW M \in Nat, NEW d \in Nat, NEW from, NEW cut, Shift(f, g, N, M, d, from, cut)
    PROVE  Moves(f, g, N, M, d, from, cut)
<1>1. /\ from \in 1..N + 1 /\ cut \in from..N + 1 /\ cut = from + d /\ N = M + d
      /\ \A i \in 1..from - 1 : g[i] = f[i]
      /\ \A i \in cut..N : g[i - d] = f[i]
      /\ \A i \in from..M : g[i] = f[i + d]
    BY DEF Shift
<1>2. ASSUME NEW i \in 1..from - 1 \cup cut..N
      PROVE  To(from, d, i) \in 1..M /\ Fro(from, d, To(from, d, i)) = i /\ g[To(from, d, i)] = f[i]
    BY <1>1 DEF To, Fro
<1>3. ASSUME NEW i \in 1..M
      PROVE  /\ Fro(from, d, i) \in 1..from - 1 \cup cut..N /\ To(from, d, Fro(from, d, i)) = i
             /\ Fro(from, d, i) \in 1..N /\ g[i] = f[Fro(from, d, i)]
    BY <1>1 DEF To, Fro
<1>4. \A i, j \in 1..from - 1 \cup cut..N : i < j => To(from, d, i) < To(from, d, j)
    BY <1>1 DEF To
<1>5. \A i, j \in 1..M : i < j => Fro(from, d, i) < Fro(from, d, j)
    BY <1>1 DEF Fro
<1> QED
    BY <1>2, <1>3, <1>4, <1>5 DEF Moves

(* What is cut holds the table's header only, and what is left of the      *)
(* table are comments and blanks.                                          *)
LEMMA PlainCut ==
    ASSUME NEW f \in Seq(Lines), NEW n, NEW start, NEW end, NEW content, NEW keep, NEW gap, NEW cut, NEW from,
           Layout(f, n, start, end, content, keep, gap, cut, from), Parses(f),
           NEW N \in Nat, Len(f) = N, DOMAIN f = 1..N, PlainText(f, N),
           Positions(N, start, end, content, keep, gap, cut, from)
    PROVE  /\ \A i \in from..cut - 1 : Header(f, i) => i = start
           /\ \A i \in cut..N : TableAt(f, i) = start => f[i].kind \in {"blank", "comment"}
           /\ \A i \in from..cut - 1 : TableAt(f, i) = start \/ f[i].kind = "blank"
           /\ Header(f, start) /\ f[start].of = n /\ start \in from..cut - 1
<1>1. /\ start \in 1..N /\ end \in start + 1..N + 1 /\ content \in start + 1..end /\ keep \in content..end
      /\ gap \in content..keep /\ cut \in gap..keep /\ from \in 1..start
    BY DEF Positions
<1>2. TableLines(f, n, start, end) /\ TailLines(f, start, end, content, keep) /\ UpperLines(f, start, cut, from)
    BY DEF Layout
<1>3. Header(f, start) /\ f[start].of = n /\ (end <= N => Header(f, end))
    <2>1. f[start].kind = "head" /\ f[start].of = n /\ (end <= N => f[end].kind = "head")
        BY <1>2 DEF TableLines, Looks
    <2>2. end <= N => end \in 1..N
        BY <1>1
    <2> QED
        BY <1>1, <2>1, <2>2 DEF PlainText
<1>4. \A j \in 1..N : TableAt(f, j) = start <=> j \in start..end - 1
    BY <1>2, <1>3, BodyIs
<1>5. \A i \in from..start - 1 : f[i].kind = "blank"
    BY <1>2 DEF UpperLines, IsBlank
<1>6. ASSUME NEW i \in from..cut - 1, Header(f, i) PROVE i = start
    <2>1. f[i].kind = "head"
        BY <1>6 DEF Header
    <2>2. ~(i \in from..start - 1) /\ ~(i \in start + 1..end - 1)
        BY <1>2, <1>5, <2>1 DEF TableLines, Looks
    <2> QED
        BY <1>1, <2>2
<1>7. ASSUME NEW i \in cut..N, TableAt(f, i) = start PROVE f[i].kind \in {"blank", "comment"}
    <2>1. i \in 1..N
        BY <1>1
    <2>2. i \in content..end - 1
        BY <1>1, <1>4, <1>7, <2>1
    <2> QED
        BY <1>2, <2>2 DEF TailLines, IsBlank, IsComment
<1>8. ASSUME NEW i \in from..cut - 1 PROVE TableAt(f, i) = start \/ f[i].kind = "blank"
    <2>1. i \in from..start - 1 \/ (i \in 1..N /\ i \in start..end - 1)
        BY <1>1
    <2> QED
        BY <1>4, <1>5, <2>1
<1>9. start \in from..cut - 1
    BY <1>1
<1> QED
    BY <1>3, <1>6, <1>7, <1>8, <1>9

(* All of it, for a table whose header at start is cut with from..cut-1. *)
PlainCutting(f, g, n, N, M, d, from, cut, start) ==
    /\ Shift(f, g, N, M, d, from, cut) /\ PlainText(f, N) /\ PlainText(g, M) /\ Parses(f)
    /\ Header(f, start) /\ f[start].of = n /\ start \in from..cut - 1
    /\ \A i \in from..cut - 1 : Header(f, i) => i = start
    /\ \A i \in cut..N : TableAt(f, i) = start => f[i].kind \in {"blank", "comment"}
    /\ \A i \in from..cut - 1 : TableAt(f, i) = start \/ f[i].kind = "blank"

(* Such a cut is what config rm plans of a file without strings. *)
LEMMA PlainCuttingIs ==
    ASSUME NEW f \in Seq(Lines), NEW n, Parses(f), n \in Entries(f), \A i \in 1..Len(f) : f[i].kind # "open"
    PROVE  \E N, M, d \in Nat : \E from, cut, start : PlainCutting(f, CutTable(f, n), n, N, M, d, from, cut, start)
<1> DEFINE g == CutTable(f, n)
<1>2. PICK N \in Nat : Len(f) = N /\ DOMAIN f = 1..N
    BY LenProperties
<1>3. PICK start, end, content, keep, gap, cut, from :
          Layout(f, n, start, end, content, keep, gap, cut, from) /\ g = Without(f, from, cut)
    <2>1. \E i \in 1..Len(f) : Looks(f, i) /\ f[i].of = n
        BY <1>2 DEF Entries, Header, Looks
    <2> QED
        BY <2>1, CutTableIs
<1> HIDE DEF g
<1>6. PICK K \in Nat, M \in Nat, d \in Nat :
          Positions(K, start, end, content, keep, gap, cut, from) /\ Shift(f, g, K, M, d, from, cut)
    BY <1>3, CutIs
<1>7. K = N
    BY <1>2, <1>6 DEF Shift
<1>8. \A i \in 1..N : f[i].kind # "open" /\ f[i].kind # "shut"
    <2>1. \A i \in 1..N : ParsedLine(f, N, i) /\ f[i].kind # "open"
        BY <1>2, ParsedLines
    <2> SUFFICES ASSUME NEW i \in 1..N, f[i].kind = "shut" PROVE FALSE
        BY <2>1
    <2>2. PICK j \in 1..i - 1 : f[j].kind = "open"
        BY <2>1 DEF ParsedLine, InString
    <2> QED
        BY <2>1, <2>2
<1>9. PlainText(f, N)
    BY <1>8, PlainIs
<1>10. \A i \in 1..M : g[i].kind # "open" /\ g[i].kind # "shut"
    <2>1. Shift(f, g, N, M, d, from, cut)
        BY <1>6, <1>7
    <2>2. \A i \in 1..M : Fro(from, d, i) \in 1..N /\ g[i] = f[Fro(from, d, i)]
        <3>1. Moves(f, g, N, M, d, from, cut)
            BY <2>1, ToAndFro
        <3> QED
            BY <3>1 DEF Moves
    <2> QED
        BY <1>8, <2>2
<1>11. PlainText(g, M)
    BY <1>10, PlainIs
<1>12. Positions(N, start, end, content, keep, gap, cut, from) /\ Shift(f, g, N, M, d, from, cut)
    BY <1>6, <1>7
<1>13. /\ \A i \in from..cut - 1 : Header(f, i) => i = start
       /\ \A i \in cut..N : TableAt(f, i) = start => f[i].kind \in {"blank", "comment"}
       /\ \A i \in from..cut - 1 : TableAt(f, i) = start \/ f[i].kind = "blank"
       /\ Header(f, start) /\ f[start].of = n /\ start \in from..cut - 1
    BY <1>2, <1>3, <1>9, <1>12, PlainCut
<1>14. PlainCutting(f, g, n, N, M, d, from, cut, start)
    BY <1>9, <1>11, <1>12, <1>13 DEF PlainCutting
<1> QED
    BY <1>14 DEF g

TableMoved(f, g, N, d, from, cut, i) ==
    /\ TableAt(f, i) = 0 => TableAt(g, To(from, d, i)) = 0
    /\ TableAt(f, i) # 0 => /\ TableAt(f, i) \in 1..from - 1 \cup cut..N /\ Header(f, TableAt(f, i))
                            /\ TableAt(g, To(from, d, i)) = To(from, d, TableAt(f, i))

(* A line that stays stays in its table, unless that is the one cut. *)
LEMMA TableMoves ==
    ASSUME NEW f, NEW g, NEW n, NEW N \in Nat, NEW M \in Nat, NEW d \in Nat, NEW from, NEW cut, NEW start,
           PlainCutting(f, g, n, N, M, d, from, cut, start),
           NEW i \in 1..from - 1 \cup cut..N, TableAt(f, i) # start
    PROVE  TableMoved(f, g, N, d, from, cut, i)
<1>1. /\ from \in 1..N + 1 /\ cut \in from..N + 1 /\ cut = from + d /\ N = M + d
      /\ Shift(f, g, N, M, d, from, cut) /\ PlainText(f, N) /\ PlainText(g, M)
      /\ \A j \in from..cut - 1 : Header(f, j) => j = start
    BY DEF PlainCutting, Shift
<1>a. Shift(f, g, N, M, d, from, cut)
    BY <1>1
<1>b. Moves(f, g, N, M, d, from, cut)
    BY <1>a, ToAndFro
<1> DEFINE Kept == 1..from - 1 \cup cut..N
<1>2. /\ \A j \in Kept : To(from, d, j) \in 1..M /\ Fro(from, d, To(from, d, j)) = j /\ g[To(from, d, j)] = f[j]
      /\ \A j \in 1..M : /\ Fro(from, d, j) \in Kept /\ To(from, d, Fro(from, d, j)) = j
                         /\ Fro(from, d, j) \in 1..N /\ g[j] = f[Fro(from, d, j)]
      /\ \A j, k \in Kept : j < k => To(from, d, j) < To(from, d, k)
      /\ \A j, k \in 1..M : j < k => Fro(from, d, j) < Fro(from, d, k)
    BY <1>b DEF Moves
<1>3. i \in 1..N /\ i \in Kept
    BY <1>1
<1>4. PICK t \in 0..i : /\ t = TableAt(f, i) /\ (t = 0 \/ Header(f, t))
                        /\ \A j \in 1..i : Header(f, j) => j <= t
    <2>1. i \in Nat
        BY <1>3
    <2> QED
        BY <2>1, TableAtIs
<1>5. PICK k \in 1..M : k = To(from, d, i)
    BY <1>2
<1>6. PICK s \in 0..k : /\ s = TableAt(g, k) /\ (s = 0 \/ Header(g, s))
                        /\ \A j \in 1..k : Header(g, j) => j <= s
    <2>1. k \in Nat
        OBVIOUS
    <2> QED
        BY <2>1, TableAtIs
<1>7. t # 0 => t \in Kept /\ Header(f, t)
    BY <1>1, <1>3, <1>4
<1>8. ASSUME s # 0 PROVE Fro(from, d, s) \in 1..t
    <2>1. s \in 1..M /\ g[s].kind = "head"
        BY <1>5, <1>6, <1>8 DEF Header
    <2>2. Fro(from, d, s) \in 1..N /\ f[Fro(from, d, s)].kind = "head"
        BY <1>2, <2>1
    <2>3. Header(f, Fro(from, d, s))
        BY <1>1, <2>2 DEF PlainText
    <2>4. Fro(from, d, s) <= i
        <3>1. Fro(from, d, k) = i
            BY <1>2, <1>3, <1>5
        <3>2. s = k \/ s < k
            BY <1>6, <2>1
        <3> QED
            BY <1>2, <1>3, <2>1, <2>2, <3>1, <3>2
    <2> QED
        BY <1>3, <1>4, <2>2, <2>3, <2>4
<1>9. ASSUME t # 0 PROVE To(from, d, t) \in 1..M /\ To(from, d, t) <= s
    <2>1. To(from, d, t) \in 1..M /\ g[To(from, d, t)].kind = "head"
        BY <1>2, <1>7, <1>9 DEF Header
    <2>2. Header(g, To(from, d, t))
        BY <1>1, <2>1 DEF PlainText
    <2>3. To(from, d, t) <= k
        <3>1. t = i \/ t < i
            BY <1>3, <1>4
        <3> QED
            BY <1>2, <1>3, <1>5, <1>7, <1>9, <2>1, <3>1
    <2> QED
        BY <1>6, <2>1, <2>2, <2>3
<1>10. CASE t = 0
    BY <1>4, <1>5, <1>6, <1>8, <1>10 DEF TableMoved
<1>11. CASE t # 0
    <2>1. s # 0 /\ s \in 1..M
        BY <1>5, <1>6, <1>9, <1>11
    <2>2. Fro(from, d, s) <= t /\ Fro(from, d, s) \in Kept
        BY <1>2, <1>8, <2>1
    <2>3. To(from, d, Fro(from, d, s)) = s
        BY <1>2, <2>1
    <2>4. s <= To(from, d, t)
        <3>1. Fro(from, d, s) = t \/ Fro(from, d, s) < t
            BY <1>4, <1>8, <2>1, <2>2
        <3> QED
            BY <1>2, <1>7, <1>9, <1>11, <2>1, <2>2, <2>3, <3>1
    <2>5. s = To(from, d, t)
        BY <1>9, <1>11, <2>1, <2>4
    <2> QED
        BY <1>4, <1>5, <1>6, <1>7, <1>11, <2>5 DEF TableMoved
<1> QED
    BY <1>10, <1>11

HeadersMove(f, g, N, M, d, from, cut, start) ==
    /\ \A i \in 1..N : Header(f, i) /\ i # start =>
          /\ i \in 1..from - 1 \cup cut..N
          /\ To(from, d, i) \in 1..M /\ Header(g, To(from, d, i)) /\ g[To(from, d, i)].of = f[i].of
    /\ \A i \in 1..M : Header(g, i) =>
          /\ Fro(from, d, i) \in 1..N /\ Fro(from, d, i) # start
          /\ Header(f, Fro(from, d, i)) /\ f[Fro(from, d, i)].of = g[i].of

(* The headers that stay are all but the one cut. *)
LEMMA HeadersStay ==
    ASSUME NEW f, NEW g, NEW n, NEW N \in Nat, NEW M \in Nat, NEW d \in Nat, NEW from, NEW cut, NEW start,
           PlainCutting(f, g, n, N, M, d, from, cut, start)
    PROVE  HeadersMove(f, g, N, M, d, from, cut, start)
<1>1. /\ from \in 1..N + 1 /\ cut \in from..N + 1
      /\ PlainText(f, N) /\ PlainText(g, M) /\ start \in from..cut - 1
      /\ \A j \in from..cut - 1 : Header(f, j) => j = start
    BY DEF PlainCutting, Shift
<1>a. Shift(f, g, N, M, d, from, cut)
    BY DEF PlainCutting
<1>b. Moves(f, g, N, M, d, from, cut)
    BY <1>a, ToAndFro
<1>2. /\ \A j \in 1..from - 1 \cup cut..N : To(from, d, j) \in 1..M /\ g[To(from, d, j)] = f[j]
      /\ \A j \in 1..M : /\ Fro(from, d, j) \in 1..from - 1 \cup cut..N
                         /\ Fro(from, d, j) \in 1..N /\ g[j] = f[Fro(from, d, j)]
    BY <1>b DEF Moves
<1>3. ASSUME NEW i \in 1..N, Header(f, i), i # start
      PROVE  /\ i \in 1..from - 1 \cup cut..N
             /\ To(from, d, i) \in 1..M /\ Header(g, To(from, d, i)) /\ g[To(from, d, i)].of = f[i].of
    <2>1. i \in 1..from - 1 \cup cut..N
        BY <1>1, <1>3
    <2>2. To(from, d, i) \in 1..M /\ g[To(from, d, i)] = f[i] /\ f[i].kind = "head"
        BY <1>2, <1>3, <2>1 DEF Header
    <2>3. Header(g, To(from, d, i))
        BY <1>1, <2>2 DEF PlainText
    <2> QED
        BY <2>1, <2>2, <2>3
<1>4. ASSUME NEW i \in 1..M, Header(g, i)
      PROVE  /\ Fro(from, d, i) \in 1..N /\ Fro(from, d, i) # start
             /\ Header(f, Fro(from, d, i)) /\ f[Fro(from, d, i)].of = g[i].of
    <2>1. Fro(from, d, i) \in 1..N /\ g[i] = f[Fro(from, d, i)] /\ g[i].kind = "head"
        BY <1>2, <1>4 DEF Header
    <2>2. Header(f, Fro(from, d, i))
        BY <1>1, <2>1 DEF PlainText
    <2>3. Fro(from, d, i) # start
        BY <1>1, <1>2
    <2> QED
        BY <2>1, <2>2, <2>3
<1> QED
    BY <1>3, <1>4 DEF HeadersMove

(* What is left parses, without the table and with all others. *)
LEMMA PlainParses ==
    ASSUME NEW f, NEW g, NEW n, NEW N \in Nat, NEW M \in Nat, NEW d \in Nat, NEW from, NEW cut, NEW start,
           PlainCutting(f, g, n, N, M, d, from, cut, start)
    PROVE  Parses(g) /\ n \notin Entries(g) /\ Entries(f) \ {n} = Entries(g) \ {n}
<1>a. Shift(f, g, N, M, d, from, cut)
    BY DEF PlainCutting
<1>b. Moves(f, g, N, M, d, from, cut)
    BY <1>a, ToAndFro
<1>1. Len(f) = N /\ DOMAIN f = 1..N /\ Len(g) = M /\ DOMAIN g = 1..M
    BY <1>a DEF Shift
<1>2. /\ PlainText(f, N) /\ PlainText(g, M) /\ Parses(f)
      /\ Header(f, start) /\ f[start].of = n /\ start \in from..cut - 1 /\ from \in 1..N + 1 /\ cut \in from..N + 1
      /\ \A i \in cut..N : TableAt(f, i) = start => f[i].kind \in {"blank", "comment"}
    BY <1>a DEF PlainCutting, Shift
<1>3. \A i \in 1..N : ParsedLine(f, N, i)
    BY <1>1, <1>2, ParsedLines
<1>c. HeadersMove(f, g, N, M, d, from, cut, start)
    BY HeadersStay
<1>4. /\ \A i \in 1..N : Header(f, i) /\ i # start =>
            /\ i \in 1..from - 1 \cup cut..N
            /\ To(from, d, i) \in 1..M /\ Header(g, To(from, d, i)) /\ g[To(from, d, i)].of = f[i].of
      /\ \A i \in 1..M : Header(g, i) =>
            /\ Fro(from, d, i) \in 1..N /\ Fro(from, d, i) # start
            /\ Header(f, Fro(from, d, i)) /\ f[Fro(from, d, i)].of = g[i].of
    BY <1>c DEF HeadersMove
<1>5. /\ \A i \in 1..M : /\ Fro(from, d, i) \in 1..from - 1 \cup cut..N /\ To(from, d, Fro(from, d, i)) = i
                         /\ Fro(from, d, i) \in 1..N /\ g[i] = f[Fro(from, d, i)]
      /\ \A i \in 1..from - 1 \cup cut..N : To(from, d, i) \in 1..M
    BY <1>b DEF Moves
<1>6. start \in 1..N
    BY <1>2
<1>7. ASSUME NEW i \in 1..M, NEW j \in 1..M, Header(g, i), Header(g, j), g[i].of = g[j].of PROVE i = j
    <2>1. Fro(from, d, i) = Fro(from, d, j)
        <3>1. ParsedLine(f, N, Fro(from, d, i))
            BY <1>3, <1>4, <1>7
        <3> QED
            BY <1>4, <1>7, <3>1 DEF ParsedLine
    <2> QED
        BY <1>5, <2>1
<1>8. ASSUME NEW i \in 1..M, g[i].kind = "key" PROVE TableAt(g, i) # 0
    <2>1. PICK e \in 1..from - 1 \cup cut..N : /\ e = Fro(from, d, i) /\ To(from, d, e) = i
                                               /\ e \in 1..N /\ f[e].kind = "key"
        BY <1>5, <1>8
    <2>2. TableAt(f, e) # 0
        <3>1. ParsedLine(f, N, e) /\ ~InString(f, e)
            BY <1>2, <1>3, <2>1 DEF PlainText
        <3> QED
            BY <2>1, <3>1 DEF ParsedLine
    <2>3. TableAt(f, e) # start
        <3>1. CASE e \in cut..N
            BY <1>2, <2>1, <3>1
        <3>2. CASE e \in 1..from - 1
            <4>1. TableAt(f, e) \in 0..e
                BY <2>1, TableAtIs
            <4> QED
                BY <1>2, <3>2, <4>1
        <3> QED
            BY <3>1, <3>2
    <2>4. TableAt(f, e) \in 1..from - 1 \cup cut..N /\ TableAt(g, i) = To(from, d, TableAt(f, e))
        <3>1. TableMoved(f, g, N, d, from, cut, e)
            BY <2>3, TableMoves
        <3> QED
            BY <2>1, <2>2, <3>1 DEF TableMoved
    <2>5. TableAt(g, i) \in 1..M
        BY <1>5, <2>4
    <2> QED
        BY <2>5
<1>9. Parses(g)
    BY <1>1, <1>2, <1>7, <1>8 DEF Parses, PlainText
<1>10. ASSUME n \in Entries(g) PROVE FALSE
    <2>1. PICK i \in 1..M : Header(g, i) /\ g[i].of = n
        BY <1>1, <1>10 DEF Entries
    <2>2. Fro(from, d, i) \in 1..N /\ Fro(from, d, i) # start /\ Header(f, Fro(from, d, i)) /\ f[Fro(from, d, i)].of = n
        BY <1>4, <2>1
    <2>3. ParsedLine(f, N, start)
        BY <1>3, <1>6
    <2> QED
        BY <1>2, <2>2, <2>3 DEF ParsedLine
<1>11. ASSUME NEW o \in Entries(f), o # n PROVE o \in Entries(g)
    <2>1. PICK i \in 1..N : Header(f, i) /\ f[i].of = o
        BY <1>1 DEF Entries
    <2>2. To(from, d, i) \in 1..M /\ Header(g, To(from, d, i)) /\ g[To(from, d, i)].of = o
        BY <1>2, <1>4, <1>11, <2>1
    <2> QED
        BY <1>1, <2>2 DEF Entries
<1>12. ASSUME NEW o \in Entries(g) PROVE o \in Entries(f)
    <2>1. PICK i \in 1..M : Header(g, i) /\ g[i].of = o
        BY <1>1 DEF Entries
    <2>2. Fro(from, d, i) \in 1..N /\ Header(f, Fro(from, d, i)) /\ f[Fro(from, d, i)].of = o
        BY <1>4, <2>1
    <2> QED
        BY <1>1, <2>2 DEF Entries
<1> QED
    BY <1>9, <1>10, <1>11, <1>12

(* What holds a table together: its header, and the lines of it that count. *)
HeaderOf(f, o) == CHOOSE i \in DOMAIN f : Header(f, i) /\ f[i].of = o
Held(f, h) == {i \in DOMAIN f : TableAt(f, i) = h /\ (InString(f, i) \/ f[i].kind \notin {"blank", "comment"})}

(* The content of a table is what is picked of its lines. *)
LEMMA ContentIs ==
    ASSUME NEW f, NEW o
    PROVE  Content(f, o) = Picked(f, Held(f, HeaderOf(f, o)))
BY DEF Content, Picked, Held, HeaderOf, Nth, Below

(* The one header of a name. *)
LEMMA AtIs ==
    ASSUME NEW f, NEW N \in Nat, Len(f) = N, DOMAIN f = 1..N, Parses(f), NEW i \in 1..N, Header(f, i)
    PROVE  HeaderOf(f, f[i].of) = i
<1>1. \A j \in 1..N : Header(f, j) /\ f[j].of = f[i].of => j = i
    BY DEF Parses
<1> QED
    BY <1>1 DEF HeaderOf

(* No other table loses or gains a line. *)
LEMMA PlainSame ==
    ASSUME NEW f, NEW g, NEW n, NEW N \in Nat, NEW M \in Nat, NEW d \in Nat, NEW from, NEW cut, NEW start,
           PlainCutting(f, g, n, N, M, d, from, cut, start), NEW o \in Entries(f), o # n
    PROVE  Content(f, o) = Content(g, o)
<1>a. Shift(f, g, N, M, d, from, cut)
    BY DEF PlainCutting
<1>b. Moves(f, g, N, M, d, from, cut)
    BY <1>a, ToAndFro
<1>c. HeadersMove(f, g, N, M, d, from, cut, start)
    BY HeadersStay
<1>1. /\ Len(f) = N /\ DOMAIN f = 1..N /\ Len(g) = M /\ DOMAIN g = 1..M
      /\ from \in 1..N + 1 /\ cut \in from..N + 1
    BY <1>a DEF Shift
<1>2. /\ PlainText(f, N) /\ PlainText(g, M) /\ Parses(f) /\ Parses(g)
      /\ Header(f, start) /\ f[start].of = n /\ start \in from..cut - 1
      /\ \A i \in cut..N : TableAt(f, i) = start => f[i].kind \in {"blank", "comment"}
      /\ \A i \in from..cut - 1 : TableAt(f, i) = start \/ f[i].kind = "blank"
    BY PlainParses DEF PlainCutting
<1>3. PICK h \in 1..N : Header(f, h) /\ f[h].of = o
    BY <1>1 DEF Entries
<1>4. /\ h # start /\ h \in 1..from - 1 \cup cut..N /\ To(from, d, h) \in 1..M
      /\ Header(g, To(from, d, h)) /\ g[To(from, d, h)].of = o
    BY <1>2, <1>3, <1>c DEF HeadersMove
<1>5. PICK u \in 1..M : u = To(from, d, h) /\ Header(g, u) /\ g[u].of = o
    BY <1>4
<1>6. HeaderOf(f, o) = h /\ HeaderOf(g, o) = u
    <2>1. HeaderOf(f, f[h].of) = h
        BY <1>1, <1>2, <1>3, AtIs
    <2>2. HeaderOf(g, g[u].of) = u
        BY <1>1, <1>2, <1>5, AtIs
    <2> QED
        BY <1>3, <1>5, <2>1, <2>2
<1> DEFINE S == Held(f, h)
           T == Held(g, u)
           m == [i \in S |-> To(from, d, i)]
<1>7. /\ S = {i \in 1..N : TableAt(f, i) = h /\ f[i].kind \notin {"blank", "comment"}}
      /\ T = {i \in 1..M : TableAt(g, i) = u /\ g[i].kind \notin {"blank", "comment"}}
    BY <1>1, <1>2 DEF Held, PlainText
<1>8. ASSUME NEW i \in S
      PROVE  i \in 1..from - 1 \cup cut..N /\ To(from, d, i) \in T /\ g[To(from, d, i)] = f[i]
    <2>1. i \in 1..N /\ TableAt(f, i) = h /\ f[i].kind \notin {"blank", "comment"}
        BY <1>7
    <2>2. i \in 1..from - 1 \cup cut..N
        <3>1. ~(i \in from..cut - 1)
            BY <1>2, <1>4, <2>1
        <3> QED
            BY <1>1, <2>1, <3>1
    <2>3. To(from, d, i) \in 1..M /\ g[To(from, d, i)] = f[i]
        BY <1>b, <2>2 DEF Moves
    <2>4. TableAt(g, To(from, d, i)) = u
        <3>1. TableMoved(f, g, N, d, from, cut, i)
            BY <1>4, <2>1, <2>2, TableMoves
        <3>2. TableAt(f, i) # 0
            BY <1>3, <2>1
        <3> QED
            BY <1>5, <2>1, <3>1, <3>2 DEF TableMoved
    <2> QED
        BY <1>7, <2>1, <2>2, <2>3, <2>4
<1>9. ASSUME NEW t \in T PROVE \E i \in S : To(from, d, i) = t
    <2>1. t \in 1..M /\ TableAt(g, t) = u /\ g[t].kind \notin {"blank", "comment"}
        BY <1>7
    <2>2. PICK i \in 1..from - 1 \cup cut..N : i = Fro(from, d, t) /\ To(from, d, i) = t /\ g[t] = f[i] /\ i \in 1..N
        BY <1>b, <2>1 DEF Moves
    <2>3. TableAt(f, i) # start
        <3>1. CASE i \in cut..N
            BY <1>2, <2>1, <2>2, <3>1
        <3>2. CASE i \in 1..from - 1
            <4>1. TableAt(f, i) \in 0..i
                BY <2>2, TableAtIs
            <4> QED
                BY <1>1, <1>2, <3>2, <4>1
        <3> QED
            BY <3>1, <3>2
    <2>4. TableMoved(f, g, N, d, from, cut, i)
        BY <2>3, TableMoves
    <2>5. TableAt(f, i) # 0
        BY <2>1, <2>2, <2>4 DEF TableMoved
    <2>6. TableAt(f, i) \in 1..from - 1 \cup cut..N /\ To(from, d, TableAt(f, i)) = To(from, d, h)
        BY <1>5, <2>1, <2>2, <2>4, <2>5 DEF TableMoved
    <2>7. TableAt(f, i) = h
        <3>1. Fro(from, d, To(from, d, TableAt(f, i))) = TableAt(f, i) /\ Fro(from, d, To(from, d, h)) = h
            BY <1>b, <1>4, <2>6 DEF Moves
        <3> QED
            BY <2>6, <3>1
    <2> QED
        BY <1>7, <2>1, <2>2, <2>7
<1>10. S \in SUBSET Nat /\ T \in SUBSET Nat /\ IsFiniteSet(S)
    <2>1. S \subseteq 1..N /\ T \subseteq 1..M
        BY <1>7
    <2>2. IsFiniteSet(1..N)
        BY 1 \in Int, N \in Int, FS_Interval
    <2> QED
        BY <2>1, <2>2, FS_Subset
<1> HIDE DEF S, T
<1>11. m \in [S -> T]
    BY <1>8
<1>12. \A i, j \in S : i < j => m[i] < m[j]
    BY <1>8, <1>b DEF Moves
<1>13. \A t \in T : \E i \in S : m[i] = t
    BY <1>9
<1>14. \A i \in S : g[m[i]] = f[i]
    BY <1>8
<1> HIDE DEF m
<1>15. Picked(f, S) = Picked(g, T)
    BY <1>10, <1>11, <1>12, <1>13, <1>14, PickedMoves
<1> QED
    BY <1>6, <1>15, ContentIs DEF S, T

(* A removal from a file without strings is not refused. *)
LEMMA PlainIsRemovable ==
    ASSUME NEW f \in Seq(Lines), NEW n, Parses(f), n \in Entries(f), \A i \in 1..Len(f) : f[i].kind # "open"
    PROVE  Removable(f, n)
<1>1. PICK N, M, d \in Nat : \E from, cut, start : PlainCutting(f, CutTable(f, n), n, N, M, d, from, cut, start)
    BY PlainCuttingIs
<1>2. PICK from, cut, start : PlainCutting(f, CutTable(f, n), n, N, M, d, from, cut, start)
    BY <1>1
<1>3. /\ Parses(CutTable(f, n)) /\ n \notin Entries(CutTable(f, n))
      /\ Entries(f) \ {n} = Entries(CutTable(f, n)) \ {n}
    BY <1>2, PlainParses
<1>4. \A o \in Entries(f) \ {n} : Content(f, o) = Content(CutTable(f, n), o)
    BY <1>2, PlainSame
<1> QED
    BY <1>3, <1>4 DEF Removable, SameExcept

(***************************************************************************)
(* The commands.                                                           *)
(***************************************************************************)

Commands == [at : {"idle", "planned", "compared", "editing", "check", "done"}, name : Tables \cup {New, "none"},
             from : Seq(Lines), data : Seq(Lines), live : BOOLEAN]

FileShape == file \in Seq(Lines) /\ bak \in Seq(Lines) /\ rm \in Commands /\ add \in Commands /\ edit \in Commands

(* A planned removal is of a table its file had, and is that file's cut.   *)
PlannedCut ==
    rm.at \in {"planned", "compared"} => Removable(rm.from, rm.name) /\ rm.data = CutTable(rm.from, rm.name)

(* One that was refused at once is still refused of that file. *)
RefusedAtOnce ==
    rm.at = "done" /\ rm.from = NoText /\ add.at = "idle" /\ edit.at = "idle" => ~Removable(file, rm.name)

CutInv == FileShape /\ PlannedCut /\ RefusedAtOnce

(* A line more is a text still. *)
LEMMA AppendText == ASSUME NEW f \in Seq(Lines), NEW l \in Lines PROVE Append(f, l) \in Seq(Lines)
BY AppendProperties

(* The lines of every kind are lines. *)
LEMMA LineKinds == /\ \A k \in Other : Plain(k) \in Lines
                   /\ \A n \in Tables \cup {New} : HeadLine(n) \in Lines
BY DEF Lines

(* An empty file is a text, and a command that waits a command. *)
LEMMA NoTextIs == NoText \in Seq(Lines) /\ Idle \in Commands
<1>1. NoText \in Seq(Lines)
    BY EmptySeq DEF NoText
<1> QED
    BY <1>1 DEF Idle, Commands

(* A file that has the table is not empty, and its cut is a text. *)
LEMMA RemovedText ==
    ASSUME NEW f \in Seq(Lines), NEW n, Removable(f, n)
    PROVE  f # NoText /\ CutTable(f, n) \in Seq(Lines)
<1>1. n \in Entries(f)
    BY DEF Removable
<1>2. Len(f) \in Nat /\ DOMAIN f = 1..Len(f)
    BY LenProperties
<1>3. PICK i \in 1..Len(f) : Looks(f, i) /\ f[i].of = n
    BY <1>1, <1>2 DEF Entries, Header, Looks
<1>4. f # NoText
    <2>1. Len(NoText) = 0
        BY EmptySeq DEF NoText
    <2> QED
        BY <1>3, <2>1
<1>5. PICK start, end, content, keep, gap, cut, from :
          Layout(f, n, start, end, content, keep, gap, cut, from) /\ CutTable(f, n) = Without(f, from, cut)
    BY <1>3, CutTableIs
<1>6. \E N, M, d \in Nat : Shift(f, CutTable(f, n), N, M, d, from, cut)
    BY <1>5, CutIs
<1> QED
    BY <1>4, <1>6 DEF Shift

(* What the user wrote is a text. *)
LEMMA TextsAre == Texts \subseteq Seq(Lines)
<1> SUFFICES ASSUME NEW k \in 0..MaxLines,
                    NEW f \in [1..k -> {HeadLine(n) : n \in Tables} \cup {Plain(j) : j \in Other}]
             PROVE  f \in Seq(Lines)
    BY DEF Texts
<1>1. k \in Nat
    BY MaxLinesAssumption
<1>2. {HeadLine(n) : n \in Tables} \cup {Plain(j) : j \in Other} \subseteq Lines
    BY DEF Lines
<1>3. f \in [1..k -> Lines]
    BY <1>2
<1> QED
    BY <1>1, <1>3, IsASeq

(* At first nothing is planned and nothing refused. *)
LEMMA CutInit == ConfigInit => CutInv
<1> SUFFICES ASSUME ConfigInit PROVE CutInv
    OBVIOUS
<1>1. FileShape
    BY TextsAre, NoTextIs DEF ConfigInit, FileShape
<1>2. rm.at = "idle"
    BY DEF ConfigInit, Idle
<1> QED
    BY <1>1, <1>2 DEF CutInv, PlannedCut, RefusedAtOnce

(* Every command keeps the types. *)
LEMMA FileStep == FileShape /\ [ConfigNext]_cvars => FileShape'
<1> SUFFICES ASSUME FileShape, [ConfigNext]_cvars PROVE FileShape'
    OBVIOUS
<1> USE DEF FileShape, Commands
<1>1. ASSUME NEW n \in Tables, Plan(n) PROVE FileShape'
    <2>1. CASE Removable(file, n)
        <3>1. CutTable(file, n) \in Seq(Lines)
            BY <2>1, RemovedText
        <3>2. rm' = [at |-> "planned", name |-> n, from |-> file, data |-> CutTable(file, n), live |-> TRUE]
            BY <1>1, <2>1 DEF Plan
        <3>3. rm' \in Commands
            BY <3>1, <3>2
        <3> QED
            BY <1>1, <3>3 DEF Plan
    <2>2. CASE ~Removable(file, n)
        <3>1. rm' = [rm EXCEPT !.at = "done", !.name = n]
            BY <1>1, <2>2 DEF Plan
        <3>2. rm' \in Commands
            BY <3>1
        <3> QED
            BY <1>1, <3>2 DEF Plan
    <2> QED
        BY <2>1, <2>2
<1>2. ASSUME RefuseHeld PROVE FileShape'
    BY <1>2 DEF RefuseHeld
<1>3. ASSUME StopDaemons PROVE FileShape'
    BY <1>3 DEF StopDaemons
<1>4. ASSUME Compare PROVE FileShape'
    BY <1>4, ZenonT(30) DEF Compare
<1>5. ASSUME RenameCut PROVE FileShape'
    BY <1>5 DEF RenameCut
<1>6. ASSUME ReadForAdd PROVE FileShape'
    <2>1. Appended(file, New) \in Seq(Lines)
        <3>1. Plain("blank") \in Lines /\ HeadLine(New) \in Lines
            BY LineKinds DEF Other
        <3>2. Append(file, Plain("blank")) \in Seq(Lines)
            BY <3>1, AppendText
        <3>3. <<HeadLine(New)>> \in Seq(Lines)
            BY <3>1
        <3> QED
            BY <3>2, <3>3, ConcatProperties DEF Appended
    <2>2. CASE Appendable(file, New)
        BY <1>6, <2>1, <2>2, ZenonT(30) DEF ReadForAdd
    <2>3. CASE ~Appendable(file, New)
        BY <1>6, <2>3, ZenonT(30) DEF ReadForAdd
    <2> QED
        BY <2>2, <2>3
<1>7. ASSUME RenameAdd PROVE FileShape'
    BY <1>7 DEF RenameAdd
<1>8. ASSUME OpenEditor PROVE FileShape'
    BY <1>8 DEF OpenEditor
<1>9. ASSUME SaveFile PROVE FileShape'
    <2>1. Plain("comment") \in Lines /\ Plain("shut") \in Lines
        BY LineKinds DEF Other
    <2>2. file' \in Seq(Lines)
        BY <1>9, <2>1, AppendText DEF SaveFile
    <2> QED
        BY <1>9, <2>2 DEF SaveFile
<1>10. ASSUME CheckEdit PROVE FileShape'
    BY <1>10 DEF CheckEdit
<1>11. CASE UNCHANGED cvars
    BY <1>11 DEF cvars
<1> QED
    BY <1>1, <1>2, <1>3, <1>4, <1>5, <1>6, <1>7, <1>8, <1>9, <1>10, <1>11 DEF ConfigNext

(* And leaves a planned cut a cut, and a refusal a refusal. *)
LEMMA CutStep == CutInv /\ [ConfigNext]_cvars => CutInv'
<1> SUFFICES ASSUME CutInv, [ConfigNext]_cvars PROVE CutInv'
    OBVIOUS
<1>1. FileShape /\ FileShape'
    BY FileStep DEF CutInv
<1>2. rm.at \in {"planned", "compared"} => rm.from # NoText
    BY <1>1, RemovedText DEF CutInv, PlannedCut, FileShape, Commands
<1>3. PlannedCut /\ RefusedAtOnce /\ rm \in Commands /\ add \in Commands /\ edit \in Commands
    BY <1>1 DEF CutInv, FileShape
<1>4. ASSUME NEW n \in Tables, Plan(n) PROVE PlannedCut' /\ RefusedAtOnce'
    <2>1. CASE Removable(file, n)
        BY <1>4, <2>1 DEF Plan, PlannedCut, RefusedAtOnce, Commands
    <2>2. CASE ~Removable(file, n)
        BY <1>3, <1>4, <2>2 DEF Plan, PlannedCut, RefusedAtOnce, Commands
    <2> QED
        BY <2>1, <2>2
<1>5. ASSUME RefuseHeld \/ StopDaemons \/ Compare \/ RenameCut PROVE PlannedCut' /\ RefusedAtOnce'
    BY <1>2, <1>3, <1>5 DEF RefuseHeld, StopDaemons, Compare, RenameCut, PlannedCut, RefusedAtOnce, Commands
<1>6. ASSUME ReadForAdd PROVE PlannedCut' /\ RefusedAtOnce'
    BY <1>3, <1>6 DEF ReadForAdd, PlannedCut, RefusedAtOnce, Commands
<1>7. ASSUME RenameAdd PROVE PlannedCut' /\ RefusedAtOnce'
    BY <1>3, <1>7 DEF RenameAdd, PlannedCut, RefusedAtOnce, Commands
<1>8. ASSUME OpenEditor \/ SaveFile \/ CheckEdit PROVE PlannedCut' /\ RefusedAtOnce'
    <2>1. rm' = rm /\ edit'.at # "idle"
        BY <1>3, <1>8 DEF OpenEditor, SaveFile, CheckEdit, Commands
    <2> QED
        BY <1>3, <2>1 DEF PlannedCut, RefusedAtOnce
<1>9. ASSUME UNCHANGED cvars PROVE PlannedCut' /\ RefusedAtOnce'
    <2>1. file' = file /\ rm' = rm /\ add' = add /\ edit' = edit
        BY <1>9 DEF cvars
    <2>2. PlannedCut'
        BY <1>3, <2>1 DEF PlannedCut
    <2>3. RefusedAtOnce'
        BY <1>3, <2>1 DEF RefusedAtOnce
    <2> QED
        BY <2>2, <2>3
<1>10. PlannedCut' /\ RefusedAtOnce'
    BY <1>4, <1>5, <1>6, <1>7, <1>8, <1>9 DEF ConfigNext
<1> QED
    BY <1>1, <1>10 DEF CutInv

(* A cut that is planned is exact, and none is refused for want of an exact one. *)
LEMMA CutInvIsExact == CutInv => ExactCut
<1> SUFFICES ASSUME CutInv PROVE ExactCut
    OBVIOUS
<1>1. file \in Seq(Lines) /\ rm.from \in Seq(Lines)
    BY DEF CutInv, FileShape, Commands
<1>2. ASSUME rm.at = "planned"
      PROVE  rm.data = Picked(rm.from, {i \in DOMAIN rm.from : ~OwnLine(rm.from, rm.name, i)})
    <2>1. Removable(rm.from, rm.name) /\ rm.data = CutTable(rm.from, rm.name)
        BY <1>2 DEF CutInv, PlannedCut
    <2> QED
        BY <1>1, <2>1, CutIsExact
<1>3. ASSUME rm.at = "done", rm.from = NoText, add.at = "idle", edit.at = "idle"
      PROVE  \/ ~Parses(file) \/ rm.name \notin Entries(file)
             \/ \E i \in DOMAIN file : file[i].kind = "open"
    <2>1. ~Removable(file, rm.name)
        BY <1>3 DEF CutInv, RefusedAtOnce
    <2>2. DOMAIN file = 1..Len(file)
        BY <1>1, LenProperties
    <2> QED
        BY <1>1, <2>1, <2>2, PlainIsRemovable
<1> QED
    BY <1>2, <1>3 DEF ExactCut, Picked, Nth, Below

(* Whatever the layout of devvm.toml, what `config rm` plans to take is    *)
(* exactly its table's own lines, or it refuses; and of a file without     *)
(* strings it refuses none.                                                *)
THEOREM CutsAreExact == ConfigSpec => []ExactCut
<1>1. ConfigInit => CutInv
    BY CutInit
<1>2. CutInv /\ [ConfigNext]_cvars => CutInv'
    BY CutStep
<1>3. CutInv => ExactCut
    BY CutInvIsExact
<1> QED
    BY <1>1, <1>2, <1>3, PTL DEF ConfigSpec
=============================================================================
