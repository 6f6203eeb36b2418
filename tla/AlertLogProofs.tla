--------------------------- MODULE AlertLogProofs ---------------------------
(***************************************************************************)
(* What the readers of alerts.jsonl can rely on: an invariant of the files  *)
(* (the chunks of an alert are adjacent, those of an earlier alert come     *)
(* before them, a line that no crash touched begins behind a newline), one  *)
(* of the engine's place in its line, and one of what a stream has passed.  *)
(***************************************************************************)
EXTENDS AlertLog, FiniteSetTheorems, NaturalsInduction, SequenceTheorems, TLAPS

-----------------------------------------------------------------------------
(* The invariant.                                                          *)

Part == <<"head", "rest", "nl">>

\* The chunks of a file: each part behind the one before it, no alert twice.
Adjacent(f) == 
    \A k \in 1..Len(f) : 
      /\ f[k][2] = "rest" => k > 1 /\ f[k - 1] = <<f[k][1], "head">>
      /\ f[k][2] = "nl" => k > 1 /\ f[k - 1] = <<f[k][1], "rest">>
Ascending(f) == 
    \A i, j \in 1..Len(f) : 
      i < j => /\ f[i][1] <= f[j][1]
               /\ f[j][2] = "head" => f[i][1] < f[j][1]
FilesInv == 
    \A g \in 1..Len(file) : 
      /\ Adjacent(file[g]) /\ Ascending(file[g])
      /\ \A k \in 1..Len(file[g]) : 
           file[g][k][1] \in 1..Len(who) /\ home[file[g][k][1]] = g

\* What is left of the last alert's line, and where the rest of it is.
PendInv == 
    /\ Len(home) = Len(who) /\ Len(who) <= MaxAlerts /\ Len(pend) <= 3
    /\ \A k \in 1..Len(pend) : pend[k] = <<Len(who), Part[3 - Len(pend) + k]>>
    /\ pend # <<>> => fd # 0 /\ Len(who) > 0 /\ home[Len(who)] = fd
    /\ Len(pend) = 3 => \A g \in 1..Len(file) : \A k \in 1..Len(file[g]) : 
                          file[g][k][1] < Len(who)
    /\ Len(pend) \in 1..2 => 
         file[fd] # <<>> /\ Last(file[fd]) = <<Len(who), Part[3 - Len(pend)]>>

\* The file that is written next ends with a newline, or its end is spoilt.
Next_ == IF fd # 0 THEN fd ELSE path
EndInv == 
    /\ fd # 0 /\ path # 0 /\ path # fd => file[path] = <<>>
    /\ (Next_ # 0 /\ file[Next_] # <<>> /\ Last(file[Next_])[2] # "nl") =>
         \/ Len(pend) \in 1..2
         \/ pend = <<>> /\ Len(who) \in cut
         \/ Len(pend) = 3 /\ Len(who) - 1 \in cut

\* A line of its own for every alert no crash touched, the parts written.
Kept(f, a, m) == 
    \E k \in 1..Len(f) : 
      /\ k = 1 \/ f[k - 1][2] = "nl"
      /\ k + m - 1 <= Len(f)
      /\ \A i \in 1..m : f[k + i - 1] = <<a, Part[i]>>
      /\ m < 3 => k + m - 1 = Len(f)
KeptInv == 
    \A a \in 1..Len(who) \ Spoilt : 
      /\ a < Len(who) \/ Len(pend) = 0 => Kept(file[home[a]], a, 3)
      /\ a = Len(who) /\ Len(pend) \in 1..2 => 
           Kept(file[home[a]], a, 3 - Len(pend))

\* A stream has sent heads it has passed, in their order, and every line it
\* has passed the head of; unless it met the line half written.
Passed(f, q) == 
    /\ q.pos <= Len(f) /\ q.from <= q.pos + 1
    /\ \A i, j \in 1..Len(q.out) : i < j => q.out[i] < q.out[j]
    /\ \A i \in 1..Len(q.out) : \E k \in 1..q.pos : f[k] = <<q.out[i], "head">>
    /\ q.pos > 0 => (f[q.pos][2] = "head" => f[q.pos][1] \in q.torn)
    /\ \A r \in Lines(f, 1, Len(f)) : 
         (IsJson(f, r) /\ AlertOf(f, r) \notin q.torn 
            /\ q.from <= r[1] /\ r[1] < q.pos) => 
           \E i \in 1..Len(q.out) : q.out[i] = AlertOf(f, r)
TailInv == \A t \in Tail_ : tail[t].ino # 0 => Passed(file[tail[t].ino], tail[t])

AInv == TypeOK /\ FilesInv /\ PendInv /\ EndInv /\ KeptInv /\ TailInv

-----------------------------------------------------------------------------
(* Enumerating a set of alerts, and the smallest of a set.                 *)

\* The place of an alert in a set, counted from its smallest.
LEMMA RankExists == 
  ASSUME NEW n \in Nat, NEW S \in SUBSET (1..n), NEW c \in Nat, 
         c = Cardinality(S)
  PROVE  \E rank \in [S -> 1..c] : 
           /\ \A x, y \in S : x < y => rank[x] < rank[y]
           /\ \A i \in 1..c : \E x \in S : rank[x] = i
  <1>1. IsFiniteSet(S)
    <2>1. IsFiniteSet(1..n)
      BY FS_Interval
    <2> QED BY <2>1, FS_Subset
  <1> DEFINE below(x) == {y \in S : y <= x}
  <1>2. \A x \in S : IsFiniteSet(below(x)) /\ Cardinality(below(x)) \in 1..c
    <2> SUFFICES ASSUME NEW x \in S 
                 PROVE  IsFiniteSet(below(x)) /\ Cardinality(below(x)) \in 1..c
      OBVIOUS
    <2>1. below(x) \in SUBSET S /\ x \in below(x)
      OBVIOUS
    <2>2. IsFiniteSet(below(x)) /\ Cardinality(below(x)) <= c
      BY <1>1, <2>1, FS_Subset
    <2>3. Cardinality(below(x)) \in Nat /\ Cardinality(below(x)) # 0
      BY <2>1, <2>2, FS_CardinalityType, FS_EmptySet
    <2> QED BY <2>2, <2>3
  <1>3. \A x, y \in S : x < y => Cardinality(below(x)) < Cardinality(below(y))
    <2> SUFFICES ASSUME NEW x \in S, NEW y \in S, x < y
                 PROVE  Cardinality(below(x)) < Cardinality(below(y))
      OBVIOUS
    <2>0. x \in Nat /\ y \in Nat
      OBVIOUS
    <2>1. y \in below(y) /\ y \notin below(x)
      BY <2>0
    <2>2. \A z \in S : z \in Nat
      OBVIOUS
    <2>3. \A z \in S : z <= x => z <= y
      BY <2>0, <2>2
    <2>4. below(x) \in SUBSET below(y)
      BY <2>3
    <2>5. below(x) # below(y)
      BY <2>1
    <2>6. /\ Cardinality(below(x)) <= Cardinality(below(y))
          /\ Cardinality(below(y)) # Cardinality(below(x))
      BY <1>2, <2>4, <2>5, FS_Subset
    <2> QED BY <1>2, <2>6
  <1>4. PICK rank : rank = [x \in S |-> Cardinality(below(x))]
    OBVIOUS
  <1>5. rank \in [S -> 1..c] /\ \A x, y \in S : x < y => rank[x] < rank[y]
    BY <1>2, <1>3, <1>4
  <1>6. rank \in Injection(S, 1..c)
    <2>1. \A x, y \in S : rank[x] = rank[y] => x = y
      <3> SUFFICES ASSUME NEW x \in S, NEW y \in S, x # y PROVE rank[x] # rank[y]
        OBVIOUS
      <3>1. x < y \/ y < x
        OBVIOUS
      <3>2. rank[x] \in Nat /\ rank[y] \in Nat
        BY <1>5
      <3> QED BY <1>5, <3>1, <3>2
    <2> QED BY <1>5, <2>1 DEF Injection, IsInjective
  <1>7. rank \in Surjection(S, 1..c)
    <2>1. IsFiniteSet(1..c) /\ Cardinality(1..c) = c
      BY FS_Interval
    <2> QED BY <1>6, <2>1, FS_Injection
  <1>8. \A i \in 1..c : \E x \in S : rank[x] = i
    BY <1>7 DEF Surjection
  <1> QED BY <1>5, <1>8

\* InOrder(S) lists the alerts of S, each once, the smaller ones first.
LEMMA InOrderLists == 
  ASSUME NEW n \in Nat, NEW S \in SUBSET (1..n)
  PROVE  /\ InOrder(S) \in Seq(S)
         /\ \A i, j \in 1..Len(InOrder(S)) : 
              i < j => InOrder(S)[i] < InOrder(S)[j]
         /\ \A x : x \in S <=> \E i \in 1..Len(InOrder(S)) : InOrder(S)[i] = x
  <1>0. \A x \in S : x \in Nat
    OBVIOUS
  <1>1. IsFiniteSet(S)
    <2>1. IsFiniteSet(1..n)
      BY FS_Interval
    <2> QED BY <2>1, FS_Subset
  <1>2. PICK c \in Nat : c = Cardinality(S)
    BY <1>1, FS_CardinalityType
  <1>3. PICK rank \in [S -> 1..c] : 
          /\ \A x, y \in S : x < y => rank[x] < rank[y]
          /\ \A i \in 1..c : \E x \in S : rank[x] = i
    BY <1>2, RankExists, ZenonT(30)
  <1>4. PICK p : p = [i \in 1..c |-> CHOOSE x \in S : rank[x] = i]
    OBVIOUS
  <1>5. p \in [1..c -> S] /\ \A i \in 1..c : rank[p[i]] = i
    BY <1>3, <1>4
  <1>6. \A i, j \in 1..c : i < j => p[i] < p[j]
    <2> SUFFICES ASSUME NEW i \in 1..c, NEW j \in 1..c, i < j
                 PROVE  p[i] < p[j]
      OBVIOUS
    <2>1. /\ p[i] \in S /\ p[j] \in S 
          /\ rank[p[i]] = i /\ rank[p[j]] = j
      BY <1>5
    <2>2. p[i] \in Nat /\ p[j] \in Nat
      BY <1>0, <2>1
    <2>3. p[i] # p[j] /\ ~(p[j] < p[i])
      <3>1. p[j] < p[i] => rank[p[j]] < rank[p[i]]
        BY <1>3, <2>1
      <3> QED BY <2>1, <3>1
    <2> QED BY <2>2, <2>3
  <1>7. PICK q : q = InOrder(S)
    OBVIOUS
  <1>8. q \in [1..c -> S] /\ \A i, j \in 1..c : i < j => q[i] < q[j]
    <2>1. q = CHOOSE z \in [1..c -> S] : \A i, j \in 1..c : i < j => z[i] < z[j]
      BY <1>2, <1>7 DEF InOrder
    <2>2. \E z \in [1..c -> S] : \A i, j \in 1..c : i < j => z[i] < z[j]
      BY <1>5, <1>6
    <2> QED BY <2>1, <2>2
  <1>9. q \in Seq(S) /\ Len(q) = c
    BY <1>8
  <1>10. q \in Injection(1..c, S)
    <2>1. \A i, j \in 1..c : q[i] = q[j] => i = j
      <3> SUFFICES ASSUME NEW i \in 1..c, NEW j \in 1..c, i # j PROVE q[i] # q[j]
        OBVIOUS
      <3>1. i < j \/ j < i
        OBVIOUS
      <3>2. q[i] \in S /\ q[j] \in S
        BY <1>8
      <3>3. q[i] \in Nat /\ q[j] \in Nat
        BY <1>0, <3>2
      <3> QED BY <1>8, <3>1, <3>3
    <2> QED BY <1>8, <2>1 DEF Injection, IsInjective
  <1>11. q \in Surjection(1..c, S)
    <2>1. IsFiniteSet(1..c) /\ Cardinality(1..c) = c
      BY FS_Interval
    <2> QED BY <1>1, <1>2, <1>10, <2>1, FS_Injection
  <1>12. \A x \in S : \E i \in 1..c : q[i] = x
    BY <1>11 DEF Surjection
  <1> QED BY <1>7, <1>8, <1>9, <1>12

\* A set of numbers that is not empty has a smallest.
LEMMA SmallestExists == 
  ASSUME NEW T \in SUBSET Nat, T # {}
  PROVE  \E x \in T : \A y \in T : x <= y
  <1>1. PICK R : R = {ss \in Nat \X Nat : ss[1] < ss[2]}
    OBVIOUS
  <1>2. IsWellFoundedOn(R, Nat)
    BY <1>1, NatLessThanWellFounded DEF OpToRel
  <1>3. PICK x \in T : \A y \in T : <<y, x>> \notin R
    BY <1>2, WFMin
  <1>4. \A y \in T : ~(y < x)
    BY <1>1, <1>3
  <1> QED BY <1>4

-----------------------------------------------------------------------------
(* Lines.                                                                  *)

LEMMA InLines == 
  ASSUME NEW f, NEW a \in Nat, NEW b \in Nat, NEW r \in Lines(f, a, b)
  PROVE  /\ r[1] \in Nat /\ r[2] \in Nat /\ r = <<r[1], r[2]>>
         /\ a <= r[1] /\ r[1] <= r[2] /\ r[2] <= b
         /\ r[1] = a \/ IsNl(f, r[1] - 1)
         /\ r[2] = b \/ IsNl(f, r[2])
         /\ \A k \in r[1]..(r[2] - 1) : ~IsNl(f, k)
  <1>1. r \in (a..b) \X (a..b)
    BY DEF Lines
  <1>2. /\ r[1] <= r[2] /\ (r[1] = a \/ IsNl(f, r[1] - 1))
        /\ r[2] = b \/ IsNl(f, r[2])
        /\ \A k \in r[1]..(r[2] - 1) : ~IsNl(f, k)
    BY DEF Lines
  <1> QED BY <1>1, <1>2

LEMMA IsLine == 
  ASSUME NEW f, NEW a \in Nat, NEW b \in Nat, NEW i \in a..b, NEW j \in i..b,
         i = a \/ IsNl(f, i - 1), j = b \/ IsNl(f, j), 
         \A k \in i..(j - 1) : ~IsNl(f, k)
  PROVE  <<i, j>> \in Lines(f, a, b)
  <1>1. <<i, j>> \in (a..b) \X (a..b)
    OBVIOUS
  <1> QED BY <1>1 DEF Lines

\* The parts of a line that is JSON.
LEMMA JsonParts == 
  ASSUME NEW f, NEW r, r[1] \in Nat, r[2] \in Nat, IsJson(f, r)
  PROVE  /\ f[r[1]] = <<AlertOf(f, r), "head">>
         /\ f[r[1] + 1] = <<AlertOf(f, r), "rest">>
         /\ \/ r[2] = r[1] + 1 /\ ~IsNl(f, r[2])
            \/ r[2] = r[1] + 2 /\ IsNl(f, r[2])
         /\ ~IsNl(f, r[1]) /\ ~IsNl(f, r[1] + 1)
  <1>1. /\ f[r[1]] = <<AlertOf(f, r), "head">>
        /\ f[r[1] + 1] = <<AlertOf(f, r), "rest">>
    BY DEF IsJson, AlertOf
  <1>2. ~IsNl(f, r[1]) /\ ~IsNl(f, r[1] + 1)
    BY <1>1 DEF IsNl
  <1>3. r[2] - r[1] = (IF IsNl(f, r[2]) THEN 2 ELSE 1)
    BY DEF IsJson
  <1>4. r[2] = r[1] + (IF IsNl(f, r[2]) THEN 2 ELSE 1)
    BY <1>3
  <1> QED BY <1>1, <1>2, <1>4

\* Chunks a to b of f have alert x at k, on a line that begins there.
JsonAt(f, a, b, k, x) == 
    /\ k \in a..b /\ k + 1 <= b /\ (k = a \/ IsNl(f, k - 1))
    /\ f[k] = <<x, "head">> /\ f[k + 1] = <<x, "rest">>
    /\ k + 2 <= b => IsNl(f, k + 2)

\* It is a line that is JSON.
LEMMA IsJsonLine == 
  ASSUME NEW f, NEW a \in Nat, NEW b \in Nat, NEW k, NEW x, JsonAt(f, a, b, k, x)
  PROVE  \E r \in Lines(f, a, b) : r[1] = k /\ IsJson(f, r) /\ AlertOf(f, r) = x
  <1>0. /\ k \in a..b /\ k + 1 <= b /\ (k = a \/ IsNl(f, k - 1))
        /\ f[k] = <<x, "head">> /\ f[k + 1] = <<x, "rest">>
        /\ k + 2 <= b => IsNl(f, k + 2)
    BY DEF JsonAt
  <1>1. ~IsNl(f, k) /\ ~IsNl(f, k + 1)
    BY <1>0 DEF IsNl
  <1>2. ASSUME NEW j \in k..b, j = b \/ IsNl(f, j), 
               \A i \in k..(j - 1) : ~IsNl(f, i)
        PROVE  <<k, j>> \in Lines(f, a, b)
    BY <1>0, <1>2, IsLine
  <1>3. k \in Nat
    BY <1>0
  <1>4. CASE k + 1 = b
    <2>1. PICK j \in k..b : j = k + 1
      BY <1>0, <1>4
    <2>2. \A i \in k..(j - 1) : i = k
      BY <1>3, <2>1
    <2>3. <<k, j>> \in Lines(f, a, b)
      BY <1>1, <1>2, <1>4, <2>1, <2>2
    <2>4. IsJson(f, <<k, j>>)
      BY <1>0, <1>1, <1>3, <2>1 DEF IsJson
    <2>5. AlertOf(f, <<k, j>>) = x
      BY <1>0 DEF AlertOf
    <2> QED BY <2>3, <2>4, <2>5
  <1>5. CASE k + 2 <= b
    <2>1. PICK j \in k..b : j = k + 2
      BY <1>0, <1>5
    <2>2. \A i \in k..(j - 1) : i = k \/ i = k + 1
      BY <1>3, <2>1
    <2>3. <<k, j>> \in Lines(f, a, b)
      BY <1>0, <1>1, <1>2, <1>5, <2>1, <2>2
    <2>4. IsJson(f, <<k, j>>)
      BY <1>0, <1>3, <1>5, <2>1 DEF IsJson
    <2>5. AlertOf(f, <<k, j>>) = x
      BY <1>0 DEF AlertOf
    <2> QED BY <2>3, <2>4, <2>5
  <1>6. k + 1 = b \/ k + 2 <= b
    BY <1>0, <1>3
  <1> QED BY <1>4, <1>5, <1>6

\* q is the alerts of the lines that are JSON, the older ones first.
Lists(n, f, lines, q) == 
    /\ q \in Seq(1..n)
    /\ \A i, j \in 1..Len(q) : i < j => q[i] < q[j]
    /\ \A i \in 1..Len(q) : \E r \in lines : IsJson(f, r) /\ AlertOf(f, r) = q[i]
    /\ \A r \in lines : IsJson(f, r) => \E i \in 1..Len(q) : q[i] = AlertOf(f, r)
Known(n, f, lines) == 
    /\ Ascending(f) /\ Len(f) \in Nat
    /\ \A r \in lines : IsJson(f, r) => r[1] \in 1..Len(f) /\ AlertOf(f, r) \in 1..n

\* It is what a reader gets.
LEMMA ParsedLists == 
  ASSUME NEW n \in Nat, NEW f, NEW lines, Known(n, f, lines)
  PROVE  Lists(n, f, lines, Parsed(f, lines))
  <1>0. PICK l \in Nat : l = Len(f)
    BY DEF Known
  <1>1. PICK S : /\ S = {r[1] : r \in {k \in lines : IsJson(f, k)}}
                 /\ l = Len(f)
    BY <1>0
  <1>2. S \in SUBSET (1..l)
    BY <1>1 DEF Known
  <1>3. PICK h : h = InOrder(S)
    OBVIOUS
  <1>4. /\ h \in Seq(S)
        /\ \A i, j \in 1..Len(h) : i < j => h[i] < h[j]
        /\ \A x : x \in S <=> \E i \in 1..Len(h) : h[i] = x
    BY <1>2, <1>3, InOrderLists
  <1>5. PICK c \in Nat : c = Len(h)
    BY <1>4
  <1>6. PICK q : q = [i \in 1..c |-> f[h[i]][1]]
    OBVIOUS
  <1>7. Parsed(f, lines) = q
    BY <1>1, <1>3, <1>5, <1>6 DEF Parsed
  <1>8. \A x \in S : /\ x \in 1..l /\ f[x][2] = "head" /\ f[x][1] \in 1..n
                     /\ \E r \in lines : IsJson(f, r) /\ AlertOf(f, r) = f[x][1]
    <2> SUFFICES ASSUME NEW r \in lines, IsJson(f, r)
                 PROVE  /\ r[1] \in 1..l /\ f[r[1]][2] = "head" 
                        /\ f[r[1]][1] \in 1..n /\ AlertOf(f, r) = f[r[1]][1]
      BY <1>1
    <2>1. f[r[1]][2] = "head"
      BY DEF IsJson
    <2> QED BY <1>1, <2>1 DEF Known, AlertOf
  <1>9. \A i \in 1..c : h[i] \in S /\ q[i] = f[h[i]][1]
    BY <1>4, <1>5, <1>6
  <1>10. q \in Seq(1..n) /\ Len(q) = c
    <2>1. q \in [1..c -> 1..n]
      BY <1>6, <1>8, <1>9
    <2> QED BY <2>1
  <1>11. ASSUME NEW i \in 1..c, NEW j \in 1..c, i < j
         PROVE  q[i] < q[j]
    <2>1. h[i] \in 1..l /\ h[j] \in 1..l /\ h[i] < h[j] /\ f[h[j]][2] = "head"
      BY <1>4, <1>5, <1>8, <1>9, <1>11
    <2>2. f[h[i]][1] < f[h[j]][1]
      BY <1>1, <2>1 DEF Known, Ascending
    <2> QED BY <1>9, <2>2
  <1>12. \A i \in 1..c : \E r \in lines : IsJson(f, r) /\ AlertOf(f, r) = q[i]
    BY <1>8, <1>9
  <1>13. ASSUME NEW r \in lines, IsJson(f, r)
         PROVE  \E i \in 1..c : q[i] = AlertOf(f, r)
    <2>1. r[1] \in S
      BY <1>1, <1>13
    <2>2. PICK i \in 1..c : h[i] = r[1]
      BY <1>4, <1>5, <2>1
    <2> QED BY <1>9, <2>2 DEF AlertOf
  <1>14. Lists(n, f, lines, q)
    BY <1>10, <1>11, <1>12, <1>13 DEF Lists
  <1> QED BY <1>7, <1>14

-----------------------------------------------------------------------------
(* Files.                                                                  *)

\* g is f and more parts of alert a, of which m were there.
Appended(f, g, l, e, m, a) == 
    /\ Len(f) = l /\ Len(g) = e /\ l <= e /\ m + (e - l) <= 3
    /\ \A k \in 1..l : g[k] = f[k]
    /\ \A k \in l + 1..e : g[k] = <<a, Part[m + (k - l)]>>

\* They keep a file in order.
LEMMA PartsAppended == 
  ASSUME NEW f, NEW g, NEW l \in Nat, NEW e \in Nat, NEW m \in Nat, NEW a \in Nat,
         Appended(f, g, l, e, m, a), \A k \in 1..l : f[k][1] \in 1..a,
         m = 0 => \A k \in 1..l : f[k][1] < a,
         m \in 1..2 => l > 0 /\ f[l] = <<a, Part[m]>>,
         Adjacent(f), Ascending(f)
  PROVE  Adjacent(g) /\ Ascending(g)
  <1>0. /\ Len(f) = l /\ Len(g) = e /\ l <= e /\ m + (e - l) <= 3
        /\ \A k \in 1..l : g[k] = f[k]
        /\ \A k \in l + 1..e : g[k] = <<a, Part[m + (k - l)]>>
    BY DEF Appended
  <1>1. Part[1] = "head" /\ Part[2] = "rest" /\ Part[3] = "nl"
    BY DEF Part
  <1>2. \A j \in 1..3 : /\ Part[j] = "head" => j = 1
                        /\ Part[j] = "rest" => j = 2
                        /\ Part[j] = "nl" => j = 3
    <2>1. \A j \in 1..3 : j = 1 \/ j = 2 \/ j = 3
      OBVIOUS
    <2> QED BY <1>1, <2>1
  <1>3. ASSUME NEW k \in l + 1..e
        PROVE  /\ g[k][2] = "rest" => k > 1 /\ g[k - 1] = <<a, "head">>
               /\ g[k][2] = "nl" => k > 1 /\ g[k - 1] = <<a, "rest">>
               /\ g[k][2] = "head" => m = 0 /\ k = l + 1
               /\ g[k][1] = a
    <2>1. PICK j \in 1..3 : j = m + (k - l)
      BY <1>0
    <2>2. g[k] = <<a, Part[j]>>
      BY <1>0, <2>1
    <2>3. g[k][1] = a /\ g[k][2] = Part[j]
      BY <2>2
    <2>4. j > 1 => k > 1 /\ g[k - 1] = <<a, Part[j - 1]>>
      <3>1. CASE k = l + 1
        <4>1. j - 1 = m /\ k - 1 = l
          BY <2>1, <3>1
        <4> QED BY <1>0, <4>1
      <3>2. CASE k > l + 1
        <4>1. k - 1 \in l + 1..e /\ j - 1 = m + ((k - 1) - l) /\ k > 1
          BY <2>1, <3>2
        <4> QED BY <1>0, <4>1
      <3> QED BY <3>1, <3>2
    <2>5. j = 1 => m = 0 /\ k = l + 1
      BY <2>1
    <2>6. CASE j = 1
      BY <1>1, <2>3, <2>5, <2>6
    <2>7. CASE j = 2
      BY <1>1, <2>3, <2>4, <2>7
    <2>8. CASE j = 3
      BY <1>1, <2>3, <2>4, <2>8
    <2> QED BY <2>6, <2>7, <2>8
  <1>4. Adjacent(g)
    <2> SUFFICES ASSUME NEW k \in 1..e
                 PROVE  /\ g[k][2] = "rest" => 
                             k > 1 /\ g[k - 1] = <<g[k][1], "head">>
                        /\ g[k][2] = "nl" => 
                             k > 1 /\ g[k - 1] = <<g[k][1], "rest">>
      BY <1>0 DEF Adjacent
    <2>1. CASE k \in 1..l
      <3>1. k > 1 => k - 1 \in 1..l
        BY <2>1
      <3> QED BY <1>0, <2>1, <3>1 DEF Adjacent
    <2>2. CASE k \in l + 1..e
      BY <1>3, <2>2
    <2> QED BY <1>0, <2>1, <2>2
  <1>5. Ascending(g)
    <2> SUFFICES ASSUME NEW i \in 1..e, NEW j \in 1..e, i < j
                 PROVE  /\ g[i][1] <= g[j][1]
                        /\ g[j][2] = "head" => g[i][1] < g[j][1]
      BY <1>0 DEF Ascending
    <2>1. CASE j \in 1..l
      <3>1. i \in 1..l
        BY <2>1
      <3> QED BY <1>0, <2>1, <3>1 DEF Ascending
    <2>2. CASE j \in l + 1..e /\ i \in 1..l
      <3>1. g[j][1] = a /\ (g[j][2] = "head" => m = 0)
        BY <1>3, <2>2
      <3>2. g[i] = f[i] /\ f[i][1] \in 1..a /\ (m = 0 => f[i][1] < a)
        BY <1>0, <2>2
      <3> QED BY <3>1, <3>2
    <2>3. CASE j \in l + 1..e /\ i \in l + 1..e
      <3>1. g[j][1] = a /\ g[i][1] = a /\ g[j][2] # "head"
        <4>1. g[j][2] = "head" => j = l + 1
          BY <1>3, <2>3
        <4> QED BY <1>3, <2>3, <4>1
      <3> QED BY <3>1
    <2> QED BY <1>0, <2>1, <2>2, <2>3
  <1> QED BY <1>4, <1>5

LEMMA KeptAt == 
  ASSUME NEW g, NEW e \in Nat, NEW k \in 1..e, NEW a, NEW c \in Nat, Len(g) = e,
         k = 1 \/ g[k - 1][2] = "nl", k + c - 1 = e,
         \A i \in 1..c : g[k + i - 1] = <<a, Part[i]>>
  PROVE  Kept(g, a, c)
  <1>1. k \in 1..Len(g) /\ k + c - 1 <= Len(g) /\ k + c - 1 = Len(g)
    OBVIOUS
  <1> QED BY <1>1, Zenon DEF Kept

\* A line that is all there stays, and one that grows stays a line.
LEMMA KeptGrows == 
  ASSUME NEW f, NEW g, NEW l \in Nat, NEW d \in Nat, NEW a, 
         Len(f) = l, Len(g) = l + d, \A k \in 1..l : g[k] = f[k],
         Kept(f, a, 3)
  PROVE  Kept(g, a, 3)
  <1>1. PICK k \in 1..l : /\ k = 1 \/ f[k - 1][2] = "nl"
                          /\ k + 2 <= l
                          /\ \A i \in 1..3 : f[k + i - 1] = <<a, Part[i]>>
    BY DEF Kept
  <1>2. k \in 1..l + d /\ k + 2 <= l + d
    BY <1>1
  <1>3. k = 1 \/ g[k - 1][2] = "nl"
    <2>1. k = 1 \/ k - 1 \in 1..l
      OBVIOUS
    <2> QED BY <1>1, <2>1
  <1>4. ASSUME NEW i \in 1..3 PROVE g[k + i - 1] = <<a, Part[i]>>
    <2>1. k + i - 1 \in 1..l
      BY <1>1
    <2>2. g[k + i - 1] = f[k + i - 1]
      BY <2>1
    <2> QED BY <1>1, <2>2
  <1> QED BY <1>2, <1>3, <1>4, SMTT(30) DEF Kept

LEMMA KeptAppended == 
  ASSUME NEW f, NEW g, NEW l \in Nat, NEW e \in Nat, NEW m \in Nat, NEW c \in Nat,
         NEW a, Appended(f, g, l, e, m, a), l < e, c = m + (e - l), 
         m > 0 => Kept(f, a, m),
         m = 0 => l = 0 \/ f[l][2] = "nl"
  PROVE  Kept(g, a, c)
  <1>0. /\ Len(f) = l /\ Len(g) = e /\ c <= 3
        /\ \A k \in 1..l : g[k] = f[k]
        /\ \A k \in l + 1..e : g[k] = <<a, Part[m + (k - l)]>>
    BY DEF Appended
  <1>1. CASE m = 0
    <2>1. PICK k \in 1..e : k = l + 1
      OBVIOUS
    <2>2. k = 1 \/ g[k - 1][2] = "nl"
      <3>1. k = 1 \/ (k - 1 = l /\ l \in 1..l)
        BY <2>1
      <3> QED BY <1>0, <1>1, <2>1, <3>1
    <2>3. k + c - 1 = e
      BY <1>1, <2>1
    <2>4. ASSUME NEW i \in 1..c
          PROVE  g[k + i - 1] = <<a, Part[i]>>
      <3>1. k + i - 1 \in l + 1..e /\ m + ((k + i - 1) - l) = i
        BY <1>1, <2>1
      <3> QED BY <1>0, <3>1
    <2> QED BY <1>0, <2>2, <2>3, <2>4, KeptAt
  <1>2. CASE m > 0
    <2>1. PICK k \in 1..l : /\ k = 1 \/ f[k - 1][2] = "nl"
                            /\ k + m - 1 = l
                            /\ \A i \in 1..m : f[k + i - 1] = <<a, Part[i]>>
      BY <1>0, <1>2 DEF Kept
    <2>2. k \in 1..e /\ k + c - 1 = e
      BY <2>1
    <2>3. k = 1 \/ g[k - 1][2] = "nl"
      <3>1. k = 1 \/ k - 1 \in 1..l
        OBVIOUS
      <3> QED BY <1>0, <2>1, <3>1
    <2>4. ASSUME NEW i \in 1..c
          PROVE  g[k + i - 1] = <<a, Part[i]>>
      <3>1. CASE i \in 1..m
        <4>1. k + i - 1 \in 1..l
          BY <2>1, <3>1
        <4> QED BY <1>0, <2>1, <3>1, <4>1
      <3>2. CASE i \notin 1..m
        <4>1. k + i - 1 \in l + 1..e /\ m + ((k + i - 1) - l) = i
          BY <2>1, <3>2
        <4> QED BY <1>0, <4>1
      <3> QED BY <3>1, <3>2
    <2> QED BY <1>0, <2>2, <2>3, <2>4, KeptAt
  <1> QED BY <1>1, <1>2

-----------------------------------------------------------------------------
(* What a stream has passed.                                               *)

\* Two lines of a file that begin at the same chunk are the same.
LEMMA SameStart == 
  ASSUME NEW f, NEW a \in Nat, NEW b \in Nat, NEW l \in Nat,
         NEW r \in Lines(f, a, l), NEW s \in Lines(f, b, l), r[1] = s[1]
  PROVE  r = s
  <1>1. /\ r[1] \in Nat /\ r[2] \in Nat /\ r = <<r[1], r[2]>> /\ r[1] <= r[2]
        /\ r[2] <= l /\ (r[2] = l \/ IsNl(f, r[2]))
        /\ \A k \in r[1]..(r[2] - 1) : ~IsNl(f, k)
    BY InLines
  <1>2. /\ s[1] \in Nat /\ s[2] \in Nat /\ s = <<s[1], s[2]>> /\ s[1] <= s[2]
        /\ s[2] <= l /\ (s[2] = l \/ IsNl(f, s[2]))
        /\ \A k \in s[1]..(s[2] - 1) : ~IsNl(f, k)
    BY InLines
  <1>3. ~(r[2] < s[2])
    <2> SUFFICES ASSUME r[2] < s[2] PROVE FALSE
      OBVIOUS
    <2>1. r[2] \in s[1]..(s[2] - 1) /\ r[2] # l
      BY <1>1, <1>2
    <2> QED BY <1>1, <1>2, <2>1
  <1>4. ~(s[2] < r[2])
    <2> SUFFICES ASSUME s[2] < r[2] PROVE FALSE
      OBVIOUS
    <2>1. s[2] \in r[1]..(r[2] - 1) /\ s[2] # l
      BY <1>1, <1>2
    <2> QED BY <1>1, <1>2, <2>1
  <1>5. r[2] = s[2]
    BY <1>1, <1>2, <1>3, <1>4
  <1> QED BY <1>1, <1>2, <1>5

\* A line whose head was passed was JSON when it was: more of the file only
\* brought its newline.
LEMMA LineShrinks == 
  ASSUME NEW f, NEW g, NEW l \in Nat, NEW e \in Nat, NEW a \in 1..l + 1, l <= e,
         \A k \in 1..l : g[k] = f[k],
         NEW r \in Lines(g, 1, e), IsJson(g, r), a <= r[1], r[1] < l
  PROVE  \E s \in Lines(f, a, l) : 
           /\ s[1] = r[1] /\ IsJson(f, s) /\ AlertOf(f, s) = AlertOf(g, r)
  <1>1. /\ r[1] \in Nat /\ r[2] \in Nat /\ 1 <= r[1]
        /\ r[1] = 1 \/ IsNl(g, r[1] - 1)
        /\ r[2] = e \/ IsNl(g, r[2])
    BY InLines
  <1>2. /\ g[r[1]] = <<AlertOf(g, r), "head">>
        /\ g[r[1] + 1] = <<AlertOf(g, r), "rest">>
        /\ \/ r[2] = r[1] + 1 /\ ~IsNl(g, r[2])
           \/ r[2] = r[1] + 2 /\ IsNl(g, r[2])
    BY <1>1, JsonParts
  <1>3. PICK k \in a..l : k = r[1] /\ k + 1 <= l /\ k \in 1..l /\ k + 1 \in 1..l
    BY <1>1
  <1>4. PICK x : x = AlertOf(g, r)
    OBVIOUS
  <1>5. f[k] = <<x, "head">> /\ f[k + 1] = <<x, "rest">>
    BY <1>2, <1>3, <1>4
  <1>6. k = a \/ IsNl(f, k - 1)
    <2>1. CASE k = 1
      BY <2>1
    <2>2. CASE k # 1
      <3>1. k - 1 \in 1..l /\ IsNl(g, k - 1)
        BY <1>1, <1>3, <2>2
      <3> QED BY <3>1 DEF IsNl
    <2> QED BY <2>1, <2>2
  <1>7. k + 2 <= l => IsNl(f, k + 2)
    <2> SUFFICES ASSUME k + 2 <= l PROVE IsNl(f, k + 2)
      OBVIOUS
    <2>1. r[2] # k + 1
      BY <1>1, <1>2, <1>3
    <2>2. IsNl(g, k + 2) /\ k + 2 \in 1..l
      BY <1>2, <1>3, <2>1
    <2> QED BY <2>2 DEF IsNl
  <1>8. \E s \in Lines(f, a, l) : s[1] = k /\ IsJson(f, s) /\ AlertOf(f, s) = x
    <2>1. a \in Nat
      OBVIOUS
    <2>2. JsonAt(f, a, l, k, x)
      BY <1>3, <1>5, <1>6, <1>7 DEF JsonAt
    <2> QED BY <2>1, <2>2, IsJsonLine
  <1> QED BY <1>3, <1>4, <1>8

LEMMA PassedGrows == 
  ASSUME NEW f, NEW g, NEW l \in Nat, NEW e \in Nat, Len(f) = l, Len(g) = e, l <= e,
         \A k \in 1..l : g[k] = f[k], 
         NEW q, q.pos \in Nat, q.from \in Nat, Passed(f, q)
  PROVE  Passed(g, q)
  <1>1. PICK p \in Nat : p = q.pos /\ p <= l /\ p <= e
    BY DEF Passed
  <1>2. /\ q.pos <= Len(g) /\ q.from <= q.pos + 1
        /\ \A i, j \in 1..Len(q.out) : i < j => q.out[i] < q.out[j]
    BY <1>1 DEF Passed
  <1>3. \A i \in 1..Len(q.out) : \E k \in 1..q.pos : g[k] = <<q.out[i], "head">>
    <2>1. \A k \in 1..p : k \in 1..l
      BY <1>1
    <2> QED BY <1>1, <2>1 DEF Passed
  <1>4. q.pos > 0 => (g[q.pos][2] = "head" => g[q.pos][1] \in q.torn)
    <2>1. p > 0 => p \in 1..l
      BY <1>1
    <2> QED BY <1>1, <2>1 DEF Passed
  <1>5. ASSUME NEW r \in Lines(g, 1, e), IsJson(g, r), AlertOf(g, r) \notin q.torn,
               q.from <= r[1], r[1] < q.pos
        PROVE  \E i \in 1..Len(q.out) : q.out[i] = AlertOf(g, r)
    <2>0. r[1] \in Nat /\ 1 <= r[1]
      BY InLines
    <2>1. 1 <= r[1] /\ r[1] < l /\ 1 \in 1..l + 1
      BY <1>1, <1>5, <2>0
    <2>2. PICK s \in Lines(f, 1, l) : 
            s[1] = r[1] /\ IsJson(f, s) /\ AlertOf(f, s) = AlertOf(g, r)
      <3>1. AlertOf(g, r) = AlertOf(g, r) /\ IsJson(g, r)
        BY <1>5
      <3> QED BY <2>1, <3>1, LineShrinks, SMTT(30)
    <2> QED BY <1>5, <2>2 DEF Passed
  <1> QED BY <1>2, <1>3, <1>4, <1>5 DEF Passed

\* One readline().
LEMMA PassedFollow == 
  ASSUME NEW n \in Nat, NEW f, NEW l \in Nat, Len(f) = l, Ascending(f),
         \A k \in 1..l : f[k][1] \in 1..n,
         NEW q, NEW p \in Nat, q.pos = p, q.from \in Nat, q.out \in Seq(1..n),
         Passed(f, q),
         NEW r \in Lines(f, p + 1, l), r[1] = p + 1, 
         NEW q1, q1.pos = r[2], q1.out = q.out \o Parsed(f, {r}), 
         q1.from = q.from, q1.torn = q.torn \cup Cut(f, r[2])
  PROVE  Passed(f, q1) /\ Parsed(f, {r}) \in Seq(1..n)
  <1>0. /\ r[1] \in Nat /\ r[2] \in Nat /\ r[1] <= r[2] /\ r[2] <= l
        /\ \A k \in r[1]..(r[2] - 1) : ~IsNl(f, k)
    <2>1. p + 1 \in Nat
      OBVIOUS
    <2> QED BY <2>1, InLines
  <1>1. PICK e \in Nat : e = r[2] /\ p < e /\ e <= l
    BY <1>0
  <1>2. /\ r[1] \in Nat /\ r[2] \in Nat
        /\ \A k \in p + 1..e - 1 : ~IsNl(f, k)
    BY <1>0, <1>1
  <1>3. PICK a : a = AlertOf(f, r)
    OBVIOUS
  <1>4. IsJson(f, r) => f[p + 1] = <<a, "head">> /\ a \in 1..n
    <2>1. p + 1 \in 1..l
      BY <1>1
    <2>2. IsJson(f, r) => f[p + 1] = <<a, "head">>
      BY <1>2, <1>3, JsonParts
    <2> QED BY <2>1, <2>2
  <1>5. PICK z : z = Parsed(f, {r})
    OBVIOUS
  <1>6. /\ z \in Seq(1..n)
        /\ \A i, j \in 1..Len(z) : i < j => z[i] < z[j]
        /\ \A i \in 1..Len(z) : IsJson(f, r) /\ z[i] = a
        /\ IsJson(f, r) => \E i \in 1..Len(z) : z[i] = a
    <2>1. \A s \in {r} : IsJson(f, s) => 
            s[1] \in 1..Len(f) /\ AlertOf(f, s) \in 1..n
      <3>1. p + 1 \in 1..Len(f)
        BY <1>1
      <3> QED BY <1>3, <1>4, <3>1
    <2>2. PICK L : L = {r}
      OBVIOUS
    <2>3. Known(n, f, L)
      BY <2>1, <2>2 DEF Known
    <2>4. Lists(n, f, L, Parsed(f, L))
      BY <2>3, ParsedLists
    <2>5. z = Parsed(f, L)
      BY <1>5, <2>2
    <2>6. /\ z \in Seq(1..n)
          /\ \A i, j \in 1..Len(z) : i < j => z[i] < z[j]
          /\ \A i \in 1..Len(z) : \E s \in L : IsJson(f, s) /\ AlertOf(f, s) = z[i]
          /\ \A s \in L : IsJson(f, s) => \E i \in 1..Len(z) : z[i] = AlertOf(f, s)
      BY <2>4, <2>5 DEF Lists
    <2> QED BY <1>3, <2>2, <2>6
  <1>7. PICK x \in Seq(1..n) : x = q.out
    OBVIOUS
  <1>8. PICK c \in Nat, d \in Nat : c = Len(x) /\ d = Len(z)
    BY <1>6
  <1>9. PICK y \in Seq(1..n) : y = x \o z
    BY <1>6, ConcatProperties
  <1>10. /\ Len(y) = c + d /\ \A i \in 1..c : y[i] = x[i]
         /\ \A i \in c + 1..c + d : y[i] = z[i - c] /\ i - c \in 1..d
    BY <1>6, <1>8, <1>9
  <1>11. \A i \in c + 1..c + d : IsJson(f, r) /\ y[i] = a
    BY <1>6, <1>8, <1>10
  <1>12. d <= 1
    <2> SUFFICES ASSUME d > 1 PROVE FALSE
      OBVIOUS
    <2>1. 1 \in 1..d /\ 2 \in 1..d
      OBVIOUS
    <2>2. z[1] = a /\ z[2] = a /\ z[1] < z[2] /\ z[1] \in Nat
      BY <1>6, <1>8, <2>1
    <2> QED BY <2>2
  <1>13. \A i \in 1..c : \E k \in 1..p : f[k] = <<x[i], "head">>
    BY <1>7, <1>8 DEF Passed
  <1>14. ASSUME NEW i \in 1..c + d, NEW j \in 1..c + d, i < j
         PROVE  y[i] < y[j]
    <2>1. CASE j \in 1..c
      <3>1. i \in 1..c
        BY <1>14, <2>1
      <3>2. x[i] < x[j]
        BY <1>7, <1>8, <1>14, <2>1, <3>1 DEF Passed
      <3> QED BY <1>10, <2>1, <3>1, <3>2
    <2>2. CASE j \in c + 1..c + d
      <3>1. i \in 1..c
        BY <1>12, <1>14, <2>2
      <3>2. PICK k \in 1..p : f[k] = <<x[i], "head">>
        BY <1>13, <3>1
      <3>3. k \in 1..l /\ p + 1 \in 1..l /\ k < p + 1
        BY <1>1
      <3>4. f[p + 1] = <<a, "head">> /\ y[j] = a
        BY <1>4, <1>11, <2>2
      <3>5. f[k][1] = x[i] /\ f[p + 1][1] = a /\ f[p + 1][2] = "head"
        BY <3>2, <3>4
      <3>6. x[i] < a
        BY <3>3, <3>5 DEF Ascending
      <3> QED BY <1>10, <3>1, <3>4, <3>6
    <2> QED BY <1>14, <2>1, <2>2
  <1>15. ASSUME NEW i \in 1..c + d
         PROVE  \E k \in 1..e : f[k] = <<y[i], "head">>
    <2>1. CASE i \in 1..c
      <3>1. PICK k \in 1..p : f[k] = <<x[i], "head">>
        BY <1>13, <2>1
      <3>2. k \in 1..e
        BY <1>1
      <3>3. y[i] = x[i]
        BY <1>10, <2>1
      <3> QED BY <3>1, <3>2, <3>3
    <2>2. CASE i \in c + 1..c + d
      <3>1. p + 1 \in 1..e
        BY <1>1, SMTT(30)
      <3>2. f[p + 1] = <<a, "head">> /\ y[i] = a
        BY <1>4, <1>11, <2>2
      <3> QED BY <3>1, <3>2
    <2> QED BY <2>1, <2>2, SMTT(30)
  <1>16. f[e][2] = "head" => f[e][1] \in q1.torn
    BY <1>1 DEF Cut
  <1>17. ASSUME NEW s \in Lines(f, 1, l), IsJson(f, s), 
                AlertOf(f, s) \notin q1.torn, q.from <= s[1], s[1] < e
         PROVE  \E i \in 1..c + d : y[i] = AlertOf(f, s)
    <2>1. /\ s[1] \in Nat /\ s[2] \in Nat /\ 1 <= s[1] 
          /\ s[1] = 1 \/ IsNl(f, s[1] - 1)
      BY InLines
    <2>2. f[s[1]] = <<AlertOf(f, s), "head">>
      BY <1>17, <2>1, JsonParts
    <2>3. CASE s[1] < p
      <3>1. PICK i \in 1..Len(q.out) : q.out[i] = AlertOf(f, s)
        BY <1>17, <2>3 DEF Passed
      <3>2. i \in 1..c /\ i \in 1..c + d /\ x[i] = AlertOf(f, s)
        BY <1>7, <1>8, <3>1
      <3> QED BY <1>10, <3>2
    <2>4. CASE s[1] = p
      <3>1. p > 0 /\ f[p][2] = "head" /\ f[p][1] = AlertOf(f, s)
        BY <2>1, <2>2, <2>4
      <3> QED BY <1>17, <3>1 DEF Passed
    <2>5. CASE s[1] > p + 1
      <3>1. s[1] - 1 \in p + 1..e - 1 /\ s[1] # 1
        BY <1>17, <2>1, <2>5, SMTT(30)
      <3> QED BY <1>2, <2>1, <3>1
    <2>6. CASE s[1] = p + 1
      <3>1. p + 1 \in Nat /\ 1 \in Nat
        OBVIOUS
      <3>2. r = s
        BY <2>6, <3>1, SameStart
      <3>3. PICK i \in 1..d : z[i] = AlertOf(f, s)
        BY <1>3, <1>6, <1>8, <1>17, <3>2
      <3>4. c + i \in c + 1..c + d /\ (c + i) - c = i /\ c + i \in 1..c + d
        OBVIOUS
      <3>5. y[c + i] = z[(c + i) - c]
        BY <1>10, <3>4
      <3>6. y[c + i] = AlertOf(f, s)
        BY <3>3, <3>4, <3>5
      <3> QED BY <3>4, <3>6
    <2>7. s[1] < p \/ s[1] = p \/ s[1] > p + 1 \/ s[1] = p + 1
      <3>1. \A j \in Nat : j < p \/ j = p \/ j > p + 1 \/ j = p + 1
        OBVIOUS
      <3> QED BY <2>1, <3>1
    <2> QED BY <2>3, <2>4, <2>5, <2>6, <2>7
  <1>18. q1.out = y /\ q1.pos = e /\ Len(q1.out) = c + d
    BY <1>1, <1>5, <1>7, <1>9, <1>10
  <1>19. e <= l /\ q1.from <= e + 1
    BY <1>1 DEF Passed
  <1> QED BY <1>5, <1>6, <1>14, <1>15, <1>16, <1>17, <1>18, <1>19 DEF Passed

\* The last lines of a part of a file are all those behind the first of them.
LEMMA LastLinesUp == 
  ASSUME NEW f, NEW a \in Nat, NEW b \in Nat, NEW n \in Nat, 
         NEW r \in LastLines(Lines(f, a, b), n), NEW s \in Lines(f, a, b), 
         r[1] <= s[1]
  PROVE  s \in LastLines(Lines(f, a, b), n)
  <1>1. PICK lines : lines = Lines(f, a, b)
    OBVIOUS
  <1>2. IsFiniteSet(lines)
    <2>1. IsFiniteSet(a..b)
      BY FS_Interval
    <2>2. IsFiniteSet((a..b) \X (a..b))
      BY <2>1, FS_Product
    <2>3. lines \in SUBSET ((a..b) \X (a..b))
      BY <1>1 DEF Lines
    <2> QED BY <2>2, <2>3, FS_Subset
  <1>3. PICK R, S : /\ R = {q \in lines : q[1] > r[1]}
                    /\ S = {q \in lines : q[1] > s[1]}
    OBVIOUS
  <1>4. \A q \in lines : q[1] \in Nat
    BY <1>1, InLines
  <1>5. r \in lines /\ Cardinality(R) < n
    BY <1>1, <1>3 DEF LastLines
  <1>6. s[1] \in Nat /\ r[1] \in Nat
    BY <1>1, <1>4, <1>5
  <1>7. R \in SUBSET lines /\ S \in SUBSET R
    <2>1. \A q \in lines : q[1] > s[1] => q[1] > r[1]
      BY <1>4, <1>6
    <2> QED BY <1>3, <2>1
  <1>8. IsFiniteSet(R) 
    BY <1>2, <1>7, FS_Subset
  <1>9. IsFiniteSet(S) /\ Cardinality(S) <= Cardinality(R)
    BY <1>7, <1>8, FS_Subset
  <1>10. Cardinality(R) \in Nat /\ Cardinality(S) \in Nat
    BY <1>8, <1>9, FS_CardinalityType
  <1>11. Cardinality(S) < n
    BY <1>5, <1>9, <1>10
  <1> QED BY <1>1, <1>3, <1>11 DEF LastLines

\* Where the first of the lines that a stream replays begins.
FirstOf(lines, l) == 
    IF lines = {} THEN l + 1 
    ELSE CHOOSE x \in {r[1] : r \in lines} : \A r \in lines : x <= r[1]

\* What a stream has read when it begins to follow.
LEMMA PassedOpen == 
  ASSUME NEW n \in Nat, NEW f, NEW l \in Nat, Len(f) = l, Ascending(f),
         \A k \in 1..l : f[k][1] \in 1..n,
         NEW a \in 1..l + 1, NEW lines, lines = LastLines(Lines(f, a, l), Back), 
         NEW q, q.pos = l, q.out = Parsed(f, lines), q.torn = Cut(f, l),
         q.from = FirstOf(lines, l)
  PROVE  /\ Passed(f, q) /\ Parsed(f, lines) \in Seq(1..n) /\ q.from \in Nat 
         /\ Cut(f, l) \in SUBSET (1..n)
  <1>1. PICK L : L = Lines(f, a, l)
    OBVIOUS
  <1>2. \A r \in lines : r \in L
    BY <1>1 DEF LastLines
  <1>3. a \in Nat
    OBVIOUS
  <1>4. \A r \in L : r[1] \in Nat /\ r[2] \in Nat /\ a <= r[1] /\ r[1] <= l
    <2> SUFFICES ASSUME NEW r \in L 
                 PROVE  r[1] \in Nat /\ r[2] \in Nat /\ a <= r[1] /\ r[1] <= l
      OBVIOUS
    <2>1. /\ r[1] \in Nat /\ r[2] \in Nat /\ a <= r[1] /\ r[1] <= r[2] /\ r[2] <= l
      BY <1>1, <1>3, InLines
    <2> QED BY <2>1
  <1>5. Cut(f, l) \in SUBSET (1..n)
    BY DEF Cut
  <1>6. \A r \in lines : IsJson(f, r) => 
          /\ r[1] \in 1..l /\ f[r[1]] = <<AlertOf(f, r), "head">>
          /\ AlertOf(f, r) \in 1..n
    <2> SUFFICES ASSUME NEW r \in lines, IsJson(f, r) 
                 PROVE  /\ r[1] \in 1..l /\ f[r[1]] = <<AlertOf(f, r), "head">>
                        /\ AlertOf(f, r) \in 1..n
      OBVIOUS
    <2>1. r[1] \in Nat /\ r[2] \in Nat /\ r[1] \in 1..l
      BY <1>2, <1>3, <1>4
    <2> QED BY <2>1, JsonParts DEF AlertOf
  <1>7. PICK z : z = Parsed(f, lines)
    OBVIOUS
  <1>8. /\ z \in Seq(1..n)
        /\ \A i, j \in 1..Len(z) : i < j => z[i] < z[j]
        /\ \A i \in 1..Len(z) : 
             \E r \in lines : IsJson(f, r) /\ AlertOf(f, r) = z[i]
        /\ \A r \in lines : IsJson(f, r) => 
             \E i \in 1..Len(z) : z[i] = AlertOf(f, r)
    <2>1. Known(n, f, lines)
      BY <1>6 DEF Known
    <2>2. Lists(n, f, lines, Parsed(f, lines))
      BY <2>1, ParsedLists
    <2>3. Lists(n, f, lines, z)
      BY <1>7, <2>2
    <2> QED BY <2>3 DEF Lists
  <1>9. \A i \in 1..Len(z) : \E k \in 1..l : f[k] = <<z[i], "head">>
    <2> SUFFICES ASSUME NEW i \in 1..Len(z)
                 PROVE  \E k \in 1..l : f[k] = <<z[i], "head">>
      OBVIOUS
    <2>1. PICK r \in lines : IsJson(f, r) /\ AlertOf(f, r) = z[i]
      BY <1>8
    <2> QED BY <1>6, <2>1
  <1>10. l > 0 => (f[l][2] = "head" => f[l][1] \in q.torn)
    BY DEF Cut
  <1>11. /\ q.from \in Nat /\ q.from <= l + 1
         /\ lines # {} => \E r \in lines : q.from = r[1]
    <2>1. CASE lines = {}
      BY <2>1 DEF FirstOf
    <2>2. CASE lines # {}
      <3>1. PICK T : T = {r[1] : r \in lines}
        OBVIOUS
      <3>2. T \in SUBSET Nat /\ T # {}
        <4>1. \A r \in lines : r[1] \in Nat
          BY <1>2, <1>4
        <4> QED BY <2>2, <3>1, <4>1
      <3>3. PICK y \in T : \A x \in T : y <= x
        BY <3>2, SmallestExists
      <3>4. \E x \in T : \A r \in lines : x <= r[1]
        BY <3>1, <3>3
      <3>5. q.from \in T
        BY <2>2, <3>1, <3>4 DEF FirstOf
      <3>6. PICK r \in lines : q.from = r[1]
        BY <3>1, <3>5
      <3>7. PICK y1 \in Nat : y1 = r[1] /\ y1 <= l
        BY <1>2, <1>4
      <3>8. y1 <= l + 1
        BY <3>7
      <3> QED BY <3>6, <3>7, <3>8
    <2> QED BY <2>1, <2>2
  <1>12. ASSUME NEW r \in Lines(f, 1, l), IsJson(f, r), q.from <= r[1], r[1] < l
         PROVE  \E i \in 1..Len(z) : z[i] = AlertOf(f, r)
    <2>0. r[1] \in Nat
      <3>1. 1 \in Nat
        OBVIOUS
      <3> QED BY <3>1, InLines
    <2>1. lines # {}
      BY <1>12, <2>0 DEF FirstOf
    <2>2. PICK r0 \in lines : q.from = r0[1]
      BY <1>11, <2>1
    <2>3. r0[1] \in Nat /\ a <= r0[1] /\ r0[1] <= r[1]
      BY <1>2, <1>4, <1>12, <2>2
    <2>4. a <= r[1]
      BY <1>3, <2>0, <2>3
    <2>5. PICK s \in Lines(f, a, l) : 
            s[1] = r[1] /\ IsJson(f, s) /\ AlertOf(f, s) = AlertOf(f, r)
      <3>1. l <= l /\ \A k \in 1..l : f[k] = f[k]
        OBVIOUS
      <3>2. IsJson(f, r) /\ a <= r[1] /\ r[1] < l
        BY <1>12, <2>4
      <3> QED BY <3>1, <3>2, LineShrinks
    <2>6. s \in lines
      <3>1. r0[1] <= s[1]
        BY <2>3, <2>5
      <3>2. Back \in Nat
        BY SizesAssumption
      <3> QED BY <1>3, <3>1, <3>2, LastLinesUp
    <2> QED BY <1>8, <2>5, <2>6
  <1>13. q.out = z /\ q.pos = l /\ l <= Len(f)
    BY <1>7
  <1>14. Passed(f, q)
    BY <1>8, <1>9, <1>10, <1>11, <1>12, <1>13 DEF Passed
  <1> QED BY <1>5, <1>7, <1>8, <1>11, <1>14

-----------------------------------------------------------------------------
(* The steps: what each leaves alone.                                      *)

\* Files are only appended to, and alerts only added.
Grows == 
    /\ Len(file) <= Len(file') /\ Len(who) <= Len(who')
    /\ \A g \in 1..Len(file) : 
         /\ Len(file[g]) <= Len(file'[g])
         /\ \A k \in 1..Len(file[g]) : file'[g][k] = file[g][k]
\* No chunk is written.
Still == 
    /\ \A g \in 1..Len(file) : file'[g] = file[g]
    /\ \A g \in 1..Len(file') : g \in 1..Len(file) \/ file'[g] = <<>>

LEMMA Types == 
  ASSUME AInv
  PROVE  /\ Len(file) \in Nat /\ Len(who) \in Nat /\ Len(pend) \in Nat
         /\ \A g \in 1..Len(file) : file[g] \in Seq(Chunk) /\ Len(file[g]) \in Nat
         /\ path \in 0..Len(file) /\ fd \in 0..Len(file)
         /\ \A g \in 1..Len(file) : \A k \in 1..Len(file[g]) : 
              file[g][k][1] \in 1..Len(who)
         /\ \A t \in Tail_ : tail[t] \in TailState
  BY DEF AInv, TypeOK, FilesInv

LEMMA TailKept == 
  ASSUME AInv, Grows, Len(file') \in Nat, Len(who') \in Nat,
         \A g \in 1..Len(file') : Len(file'[g]) \in Nat, NEW t \in Tail_
  PROVE  /\ tail[t] \in TailState'
         /\ tail[t].ino # 0 => /\ tail[t].pos <= Len(file'[tail[t].ino])
                               /\ Passed(file'[tail[t].ino], tail[t])
  <1>1. PICK q : q = tail[t]
    OBVIOUS
  <1>2. /\ q \in TailState /\ Len(file) \in Nat /\ Len(who) \in Nat
        /\ \A g \in 1..Len(file) : Len(file[g]) \in Nat
    BY <1>1, Types
  <1>3. /\ q.ino \in 0..Len(file) /\ q.pos \in Nat /\ q.from \in Nat
        /\ q.out \in Seq(1..Len(who)) /\ q.torn \in SUBSET (1..Len(who))
    BY <1>2 DEF TailState
  <1>4. q.ino \in 0..Len(file')
    BY <1>2, <1>3 DEF Grows
  <1>5. q.out \in Seq(1..Len(who')) /\ q.torn \in SUBSET (1..Len(who'))
    <2>1. 1..Len(who) \in SUBSET (1..Len(who'))
      BY <1>2 DEF Grows
    <2>2. PICK A, B : A = 1..Len(who) /\ B = 1..Len(who') /\ A \in SUBSET B
      BY <2>1
    <2>3. q.out \in Seq(B)
      <3>1. q.out \in Seq(A)
        BY <1>3, <2>2
      <3>2. \A i \in 1..Len(q.out) : q.out[i] \in B
        BY <2>2, <3>1
      <3> QED BY <3>1, <3>2
    <2> QED BY <1>3, <2>2, <2>3
  <1>6. q \in TailState'
    BY <1>2, <1>3, <1>4, <1>5 DEF TailState
  <1>7. ASSUME q.ino # 0
        PROVE  q.pos <= Len(file'[q.ino]) /\ Passed(file'[q.ino], q)
    <2>1. PICK g \in 1..Len(file) : g = q.ino
      BY <1>2, <1>3, <1>7
    <2>2. Passed(file[g], q)
      BY <1>1, <1>7, <2>1 DEF AInv, TailInv
    <2>3. PICK l \in Nat, e \in Nat : l = Len(file[g]) /\ e = Len(file'[g])
      <3>1. g \in 1..Len(file')
        BY <1>2 DEF Grows
      <3> QED BY <1>2, <3>1
    <2>4. l <= e /\ \A k \in 1..l : file'[g][k] = file[g][k]
      BY <2>3 DEF Grows
    <2>5. PICK f, h : f = file[g] /\ h = file'[g]
      OBVIOUS
    <2>6. Passed(h, q)
      BY <1>3, <2>2, <2>3, <2>4, <2>5, PassedGrows
    <2>7. q.pos <= Len(h)
      BY <2>6 DEF Passed
    <2> QED BY <2>1, <2>5, <2>6, <2>7
  <1> QED BY <1>1, <1>6, <1>7

TailsOK == 
    /\ tail \in [Tail_ -> TailState] /\ TailInv
    /\ \A t \in Tail_ : tail[t].ino # 0 => tail[t].pos <= Len(file[tail[t].ino])

LEMMA TailsKept == 
  ASSUME AInv, Grows, Len(file') \in Nat, Len(who') \in Nat,
         \A g \in 1..Len(file') : Len(file'[g]) \in Nat, UNCHANGED tail
  PROVE  TailsOK'
  <1>1. \A t \in Tail_ : 
          /\ tail[t] \in TailState'
          /\ tail[t].ino # 0 => /\ tail[t].pos <= Len(file'[tail[t].ino])
                                /\ Passed(file'[tail[t].ino], tail[t])
    BY TailKept
  <1>2. tail \in [Tail_ -> TailState]
    BY DEF AInv, TypeOK
  <1>3. tail' \in [Tail_ -> TailState']
    BY <1>1, <1>2
  <1> QED BY <1>1, <1>3 DEF TailsOK, TailInv

LEMMA TailStep == 
  ASSUME AInv, Grows, Len(file') \in Nat, Len(who') \in Nat,
         \A g \in 1..Len(file') : Len(file'[g]) \in Nat, 
         NEW t \in Tail_, NEW q, tail' = [tail EXCEPT ![t] = q], q \in TailState',
         Passed(file'[q.ino], q)
  PROVE  TailsOK'
  <1>1. \A u \in Tail_ : 
          /\ tail[u] \in TailState'
          /\ tail[u].ino # 0 => /\ tail[u].pos <= Len(file'[tail[u].ino])
                                /\ Passed(file'[tail[u].ino], tail[u])
    BY TailKept
  <1>2. q.pos <= Len(file'[q.ino])
    BY DEF Passed
  <1>3. tail \in [Tail_ -> TailState]
    BY DEF AInv, TypeOK
  <1>4. /\ tail' \in [Tail_ -> TailState'] /\ tail'[t] = q
        /\ \A u \in Tail_ : u # t => tail'[u] = tail[u]
    BY <1>1, <1>3
  <1>5. ASSUME NEW u \in Tail_, tail'[u].ino # 0
        PROVE  /\ tail'[u].pos <= Len(file'[tail'[u].ino])
               /\ Passed(file'[tail'[u].ino], tail'[u])
    <2>1. CASE u = t
      BY <1>2, <1>4, <2>1
    <2>2. CASE u # t
      BY <1>1, <1>4, <1>5, <2>2
    <2> QED BY <2>1, <2>2
  <1> QED BY <1>4, <1>5 DEF TailsOK, TailInv

\* The files of a step that writes nothing.
LEMMA FilesStill == 
  ASSUME AInv, Still, UNCHANGED <<who, home>>
  PROVE  FilesInv'
  <1> SUFFICES ASSUME NEW g \in 1..Len(file')
               PROVE  /\ Adjacent(file'[g]) /\ Ascending(file'[g])
                      /\ \A k \in 1..Len(file'[g]) : 
                           file'[g][k][1] \in 1..Len(who) 
                           /\ home[file'[g][k][1]] = g
    BY DEF FilesInv
  <1>1. CASE g \in 1..Len(file)
    BY <1>1 DEF Still, AInv, FilesInv
  <1>2. CASE file'[g] = <<>>
    BY <1>2 DEF Adjacent, Ascending
  <1> QED BY <1>1, <1>2 DEF Still

LEMMA CreatFacts == 
  ASSUME AInv, Creat
  PROVE  /\ file' \in Seq(Seq(Chunk)) /\ Len(file) <= Len(file') 
         /\ path' \in 1..Len(file') /\ Still
         /\ path # 0 => file' = file /\ path' = path
         /\ path = 0 => file'[path'] = <<>>
  <1>1. PICK F, p : F = file /\ p = path
    OBVIOUS
  <1>2. F \in Seq(Seq(Chunk)) /\ p \in 0..Len(F)
    BY <1>1 DEF AInv, TypeOK
  <1>3. CASE p = 0
    <2>0. PICK none : none = <<>>
      OBVIOUS
    <2>1. none = <<>> /\ none \in Seq(Chunk) /\ Len(none) = 0
      BY <2>0
    <2>2. file' = Append(F, none) /\ path' = Len(F) + 1
      BY <1>1, <1>3, <2>1 DEF Creat
    <2>3. file' \in Seq(Seq(Chunk)) /\ Len(file') = Len(F) + 1
      BY <1>2, <2>1, <2>2
    <2>4. /\ \A g \in 1..Len(F) : file'[g] = F[g]
          /\ file'[Len(F) + 1] = none
      BY <1>2, <2>1, <2>2
    <2>5. Still
      BY <1>1, <1>2, <2>1, <2>3, <2>4 DEF Still
    <2> QED BY <1>1, <1>2, <1>3, <2>1, <2>2, <2>3, <2>4, <2>5
  <1>4. CASE p # 0
    <2>1. file' = F /\ path' = p
      BY <1>1, <1>4 DEF Creat
    <2> QED BY <1>1, <1>2, <1>4, <2>1 DEF Still
  <1> QED BY <1>3, <1>4

LEMMA HomeType == 
  ASSUME AInv, NEW n \in Nat, Len(file) <= n
  PROVE  home \in Seq(1..n)
  <1>1. home \in Seq(1..Len(file)) /\ Len(file) \in Nat
    BY DEF AInv, TypeOK
  <1>2. \A i \in 1..Len(home) : home[i] \in 1..n
    BY <1>1
  <1> QED BY <1>1, <1>2

\* Nothing about the lines changes, unless the engine is not writing one.
LEMMA StillGrows == 
  ASSUME AInv, Still, Len(file) <= Len(file'), file' \in Seq(Seq(Chunk)), 
         Len(who) <= Len(who')
  PROVE  /\ Grows /\ Len(file') \in Nat
         /\ \A g \in 1..Len(file') : Len(file'[g]) \in Nat
  <1>1. \A g \in 1..Len(file) : file[g] \in Seq(Chunk)
    BY DEF AInv, TypeOK
  <1>2. \A g \in 1..Len(file') : file'[g] \in Seq(Chunk)
    OBVIOUS
  <1>3. Grows
    BY <1>1 DEF Grows, Still
  <1> QED BY <1>2, <1>3

LEMMA StillPend == 
  ASSUME AInv, Still, Len(file) <= Len(file'), file' \in Seq(Seq(Chunk)), 
         UNCHANGED <<who, home, pend>>, pend # <<>> => fd' = fd
  PROVE  PendInv'
  <1>0. Len(file) \in Nat /\ Len(file') \in Nat
    BY DEF AInv, TypeOK
  <1>1. PendInv
    BY DEF AInv
  <1>2. /\ Len(home) = Len(who) /\ Len(who) <= MaxAlerts /\ Len(pend) <= 3
        /\ \A k \in 1..Len(pend) : pend[k] = <<Len(who), Part[3 - Len(pend) + k]>>
        /\ pend # <<>> => fd' # 0 /\ Len(who) > 0 /\ home[Len(who)] = fd'
    BY <1>1 DEF PendInv
  <1>3. Len(pend) = 3 => \A g \in 1..Len(file') : \A k \in 1..Len(file'[g]) : 
                           file'[g][k][1] < Len(who)
    <2> SUFFICES ASSUME Len(pend) = 3, NEW g \in 1..Len(file'), 
                        NEW k \in 1..Len(file'[g])
                 PROVE  file'[g][k][1] < Len(who)
      OBVIOUS
    <2>1. g \in 1..Len(file) /\ file'[g] = file[g]
      BY DEF Still
    <2> QED BY <1>1, <2>1 DEF PendInv
  <1>4. Len(pend) \in 1..2 => 
          file'[fd'] # <<>> /\ Last(file'[fd']) = <<Len(who), Part[3 - Len(pend)]>>
    <2> SUFFICES ASSUME Len(pend) \in 1..2
                 PROVE  file'[fd'] # <<>> 
                        /\ Last(file'[fd']) = <<Len(who), Part[3 - Len(pend)]>>
      OBVIOUS
    <2>1. pend # <<>>
      BY Types
    <2>2. fd' = fd /\ fd \in 1..Len(file)
      BY <1>0, <1>1, <2>1 DEF PendInv, AInv, TypeOK
    <2>3. file'[fd'] = file[fd]
      BY <2>2 DEF Still
    <2> QED BY <1>1, <2>3 DEF PendInv
  <1> QED BY <1>2, <1>3, <1>4 DEF PendInv

LEMMA HomeOf == 
  ASSUME AInv, NEW a \in 1..Len(who)
  PROVE  home[a] \in 1..Len(file)
  <1>1. home \in Seq(1..Len(file)) /\ Len(home) = Len(who)
    BY DEF AInv, TypeOK, PendInv
  <1> QED BY <1>1

LEMMA StillKept == 
  ASSUME AInv, Still, UNCHANGED <<who, home>>, 
         \/ UNCHANGED <<pend, cut>>
         \/ pend' = <<>> /\ cut' = IF pend = <<>> THEN cut 
                                                  ELSE cut \cup {Len(who)}
  PROVE  KeptInv'
  <1> SUFFICES ASSUME NEW a \in 1..Len(who), a \notin Spoilt'
               PROVE  /\ a < Len(who) \/ Len(pend') = 0 => 
                           Kept(file'[home[a]], a, 3)
                      /\ a = Len(who) /\ Len(pend') \in 1..2 => 
                           Kept(file'[home[a]], a, 3 - Len(pend'))
    BY DEF KeptInv
  <1>1. a \notin Spoilt
    BY DEF Spoilt
  <1>2. file'[home[a]] = file[home[a]]
    BY HomeOf DEF Still
  <1>3. /\ a < Len(who) \/ Len(pend) = 0 => Kept(file[home[a]], a, 3)
        /\ a = Len(who) /\ Len(pend) \in 1..2 => 
             Kept(file[home[a]], a, 3 - Len(pend))
    BY <1>1 DEF AInv, KeptInv
  <1>4. CASE UNCHANGED <<pend, cut>>
    BY <1>2, <1>3, <1>4
  <1>5. CASE pend' = <<>> /\ cut' = IF pend = <<>> THEN cut 
                                                   ELSE cut \cup {Len(who)}
    <2>1. CASE pend = <<>>
      BY <1>2, <1>3, <1>5, <2>1
    <2>2. CASE pend # <<>>
      <3>1. a # Len(who)
        BY <1>5, <2>2 DEF Spoilt
      <3>2. Len(who) \in Nat
        BY Types
      <3>3. a < Len(who) /\ Len(pend') = 0
        BY <1>5, <3>1, <3>2
      <3> QED BY <1>2, <1>3, <3>3
    <2> QED BY <2>1, <2>2
  <1> QED BY <1>4, <1>5

-----------------------------------------------------------------------------
(* One lemma per action.                                                   *)

\* The engine opens the file that has the name, at its end.
LEMMA EngineStartsKeeps == 
  ASSUME AInv, EngineStarts
  PROVE  AInv'
  <1>1. /\ fd = 0 /\ Creat /\ fd' = path'
        /\ UNCHANGED <<pend, who, home, cut, tail>>
    BY DEF EngineStarts
  <1>2. pend = <<>>
    BY <1>1 DEF AInv, PendInv
  <1>3. /\ file' \in Seq(Seq(Chunk)) /\ Len(file) <= Len(file') 
        /\ path' \in 1..Len(file') /\ Still
        /\ path # 0 => file' = file /\ path' = path
        /\ path = 0 => file'[path'] = <<>>
    BY <1>1, CreatFacts
  <1>4. /\ Grows /\ Len(file') \in Nat
        /\ \A g \in 1..Len(file') : Len(file'[g]) \in Nat
    BY <1>1, <1>3, StillGrows, Types
  <1>5. TailsOK'
    BY <1>1, <1>4, TailsKept, Types
  <1>6. FilesInv' /\ KeptInv'
    BY <1>1, <1>3, FilesStill, StillKept
  <1>7. PendInv'
    BY <1>1, <1>2, <1>3, StillPend
  <1>8. EndInv'
    <2>1. CASE path # 0
      <3>1. Next_ = path /\ Next_' = path /\ file' = file
        BY <1>1, <1>3, <2>1 DEF Next_
      <3> QED BY <1>1, <1>3, <3>1 DEF AInv, EndInv
    <2>2. CASE path = 0
      <3>1. fd' # 0 /\ Next_' = path' /\ file'[path'] = <<>>
        BY <1>1, <1>3, <2>2 DEF Next_
      <3> QED BY <1>1, <3>1 DEF EndInv
    <2> QED BY <2>1, <2>2
  <1>9. TypeOK'
    <2>1. home \in Seq(1..Len(file'))
      BY <1>3, <1>4, HomeType
    <2> QED BY <1>1, <1>3, <1>4, <1>5, <2>1 DEF AInv, TypeOK, TailsOK
  <1> QED BY <1>5, <1>6, <1>7, <1>8, <1>9 DEF AInv, TailsOK

\* The alert that the engine died in has no line of its own, and the next one
\* may be written behind what there is of it.
LEMMA EngineDiesKeeps == 
  ASSUME AInv, EngineDies
  PROVE  AInv'
  <1>1. /\ fd # 0 /\ fd' = 0 /\ pend' = <<>>
        /\ cut' = IF pend = <<>> THEN cut ELSE cut \cup {Len(who)}
        /\ UNCHANGED <<file, path, who, home, tail>>
    BY DEF EngineDies
  <1>2. Still /\ file' \in Seq(Seq(Chunk)) /\ Len(file) <= Len(file')
    BY <1>1 DEF Still, AInv, TypeOK
  <1>3. TailsOK'
    BY <1>1, <1>2, StillGrows, TailsKept, Types
  <1>4. FilesInv' /\ KeptInv'
    BY <1>1, <1>2, FilesStill, StillKept
  <1>5. PendInv'
    BY <1>1 DEF PendInv, AInv
  <1>6. EndInv'
    <2>1. Next_' = path
      BY <1>1 DEF Next_
    <2> SUFFICES ASSUME path # 0, file[path] # <<>>, Last(file[path])[2] # "nl"
                 PROVE  Len(who) \in cut'
      BY <1>1, <2>1 DEF EndInv
    <2>2. path = fd /\ Next_ = path
      BY <1>1 DEF Next_, AInv, EndInv
    <2>3. Len(pend) \in 1..2 \/ Len(who) \in cut \/ Len(pend) = 3
      BY <2>2 DEF AInv, EndInv
    <2>4. CASE pend = <<>>
      BY <1>1, <2>3, <2>4
    <2>5. CASE pend # <<>>
      BY <1>1, <2>5
    <2> QED BY <2>4, <2>5
  <1>7. TypeOK'
    <2>1. cut' \in SUBSET (1..Len(who))
      <3>1. pend # <<>> => Len(who) \in 1..Len(who)
        BY Types DEF AInv, PendInv
      <3> QED BY <1>1, <3>1 DEF AInv, TypeOK
    <2>2. /\ file' \in Seq(Seq(Chunk)) /\ {path', fd'} \subseteq 0..Len(file)
          /\ pend' \in Seq(Chunk) /\ who' \in Seq(Student) 
          /\ home' \in Seq(1..Len(file))
      BY <1>1, Types DEF AInv, TypeOK
    <2> QED BY <1>1, <1>3, <2>1, <2>2 DEF TypeOK, TailsOK
  <1> QED BY <1>3, <1>4, <1>5, <1>6, <1>7 DEF AInv, TailsOK

LEMMA SweepKeeps == 
  ASSUME AInv, Sweep
  PROVE  AInv'
  <1>1. /\ path' = 0 /\ pend = <<>>
        /\ UNCHANGED <<file, fd, pend, who, home, cut, tail>>
    BY DEF Sweep, engine
  <1>2. Still /\ file' \in Seq(Seq(Chunk)) /\ Len(file) <= Len(file')
    BY <1>1 DEF Still, AInv, TypeOK
  <1>3. TailsOK'
    BY <1>1, <1>2, StillGrows, TailsKept, Types
  <1>4. FilesInv' /\ KeptInv' /\ PendInv'
    BY <1>1, <1>2, FilesStill, StillKept, StillPend
  <1>5. EndInv'
    <2>1. fd # 0 => Next_' = Next_ /\ Next_ = fd
      BY <1>1 DEF Next_
    <2>2. fd = 0 => Next_' = 0
      BY <1>1 DEF Next_
    <2> QED BY <1>1, <2>1, <2>2 DEF AInv, EndInv
  <1>6. TypeOK'
    <2>1. Len(file) \in Nat
      BY Types
    <2> QED BY <1>1, <1>3, <2>1 DEF AInv, TypeOK, TailsOK
  <1> QED BY <1>3, <1>4, <1>5, <1>6 DEF AInv, TailsOK

LEMMA FollowKeeps == 
  ASSUME AInv, NEW t \in Tail_, Follow(t)
  PROVE  AInv'
  <1>1. UNCHANGED <<file, path, fd, pend, who, home, cut>>
    BY DEF Follow, engine
  <1>2. PICK q : q = tail[t]
    OBVIOUS
  <1>3. q \in TailState /\ Len(file) \in Nat /\ Len(who) \in Nat
    BY <1>2, Types
  <1>4. PICK n \in Nat, g \in 1..Len(file), l \in Nat, p \in Nat, f \in Seq(Chunk) : 
          n = Len(who) /\ g = q.ino /\ f = file[g] /\ l = Len(f) /\ p = q.pos
    <2>1. q.ino # 0 
      BY <1>2 DEF Follow
    <2>2. q.ino \in 1..Len(file) /\ q.pos \in Nat
      BY <1>3, <2>1 DEF TailState
    <2>3. file[q.ino] \in Seq(Chunk) /\ Len(file[q.ino]) \in Nat
      BY <2>2, Types
    <2> QED BY <1>3, <2>2, <2>3
  <1>5. /\ l \in Nat /\ Adjacent(f) /\ Ascending(f) 
        /\ \A k \in 1..l : f[k][1] \in 1..n
    BY <1>4, Types DEF AInv, FilesInv
  <1>6. PICK r \in Lines(f, p + 1, l) : 
          /\ r[1] = p + 1
          /\ tail' = [tail EXCEPT 
               ![t].pos = NextPos(f, r),
               ![t].out = @ \o Parsed(f, {r}),
               ![t].torn = @ \cup Cut(f, r[2])]
    BY <1>2, <1>4 DEF Follow
  <1>7. PICK q1 : q1 = [q EXCEPT !.pos = r[2], !.out = q.out \o Parsed(f, {r}), 
                                 !.torn = q.torn \cup Cut(f, r[2])]
    OBVIOUS
  <1>8. tail' = [tail EXCEPT ![t] = q1]
    BY <1>2, <1>6, <1>7 DEF NextPos, AInv, TypeOK, TailState
  <1>9. /\ q.from \in Nat /\ q.out \in Seq(1..n) /\ q.pos = p 
        /\ q.torn \in SUBSET (1..n) /\ q.ino = g
    BY <1>3, <1>4 DEF TailState
  <1>10. /\ q1.pos = r[2] /\ q1.out = q.out \o Parsed(f, {r}) /\ q1.ino = g
         /\ q1.from = q.from /\ q1.torn = q.torn \cup Cut(f, r[2])
    BY <1>3, <1>7, <1>9 DEF TailState
  <1>11. Passed(f, q)
    BY <1>2, <1>4, <1>9 DEF AInv, TailInv
  <1>12. Passed(f, q1) /\ Parsed(f, {r}) \in Seq(1..n)
    BY <1>4, <1>5, <1>6, <1>9, <1>10, <1>11, PassedFollow
  <1>13. r[2] \in Nat /\ r[2] \in 1..l
    <2>1. p + 1 \in Nat
      OBVIOUS
    <2>2. r[2] \in Nat /\ p + 1 <= r[1] /\ r[1] <= r[2] /\ r[2] <= l /\ r[1] \in Nat
      BY <1>5, <1>6, <2>1, InLines
    <2> QED BY <2>2
  <1>14. q1 \in TailState
    <2>1. Cut(f, r[2]) \in SUBSET (1..n)
      BY <1>5, <1>13 DEF Cut
    <2>2. q1.out \in Seq(1..n)
      BY <1>9, <1>10, <1>12
    <2>3. q1 = [ino |-> g, pos |-> r[2], out |-> q.out \o Parsed(f, {r}),
                from |-> q.from, torn |-> q.torn \cup Cut(f, r[2])]
      BY <1>3, <1>7, <1>9 DEF TailState
    <2> QED BY <1>3, <1>4, <1>9, <1>10, <1>13, <2>1, <2>2, <2>3 DEF TailState
  <1>15. Still /\ file' \in Seq(Seq(Chunk)) /\ Len(file) <= Len(file')
    BY <1>1 DEF Still, AInv, TypeOK
  <1>16. /\ Grows /\ Len(file') \in Nat
         /\ \A h \in 1..Len(file') : Len(file'[h]) \in Nat
    BY <1>1, <1>15, StillGrows, Types
  <1>17. q1 \in TailState'
    BY <1>1, <1>14 DEF TailState
  <1>18. Passed(file'[q1.ino], q1)
    BY <1>1, <1>4, <1>10, <1>12
  <1>19. TailsOK'
    BY <1>1, <1>3, <1>8, <1>16, <1>17, <1>18, TailStep
  <1>20. FilesInv' /\ KeptInv' /\ PendInv'
    BY <1>1, <1>15, FilesStill, StillKept, StillPend
  <1>21. EndInv'
    BY <1>1 DEF AInv, EndInv, Next_
  <1>22. TypeOK'
    BY <1>1, <1>19 DEF AInv, TypeOK, TailsOK
  <1> QED BY <1>19, <1>20, <1>21, <1>22 DEF AInv, TailsOK

LEMMA OpenKeeps == 
  ASSUME AInv, NEW t \in Tail_, Open(t)
  PROVE  AInv'
  <1>1. Creat /\ UNCHANGED <<fd, pend, who, home, cut>>
    BY DEF Open, engine
  <1>2. /\ file' \in Seq(Seq(Chunk)) /\ Len(file) <= Len(file') 
        /\ path' \in 1..Len(file') /\ Still
        /\ path # 0 => file' = file /\ path' = path
        /\ path = 0 => file'[path'] = <<>>
    BY <1>1, CreatFacts
  <1>3. /\ Grows /\ Len(file') \in Nat
        /\ \A h \in 1..Len(file') : Len(file'[h]) \in Nat
    BY <1>1, <1>2, StillGrows, Types
  <1>4. FilesInv' /\ KeptInv' /\ PendInv'
    BY <1>1, <1>2, FilesStill, StillKept, StillPend
  <1>5. PICK n \in Nat, g \in 1..Len(file'), f \in Seq(Chunk), l \in Nat : 
          n = Len(who') /\ g = path' /\ f = file'[g] /\ l = Len(f)
    BY <1>1, <1>2, <1>3, Types
  <1>6. Ascending(f) /\ \A k \in 1..l : f[k][1] \in 1..n
    BY <1>4, <1>5 DEF FilesInv
  <1>7. PICK a : a = IF l > BackBuf THEN l - BackBuf + 1 ELSE 1
    OBVIOUS
  <1>8. a \in 1..l + 1
    BY <1>7, SizesAssumption
  <1>9. PICK lines : lines = LastLines(Lines(f, a, l), Back)
    OBVIOUS
  <1>10. PICK q : 
           q = [ino |-> g, pos |-> l, out |-> Parsed(f, lines),
                from |-> FirstOf(lines, l), torn |-> Cut(f, l)]
    OBVIOUS
  <1>11. tail' = [tail EXCEPT ![t] = q]
    BY <1>5, <1>7, <1>9, <1>10, SMTT(30) DEF Open, Follows, FirstOf
  <1>12. /\ q.ino = g /\ q.pos = l /\ q.out = Parsed(f, lines) /\ q.torn = Cut(f, l)
         /\ q.from = FirstOf(lines, l)
    BY <1>10
  <1>13. /\ Passed(f, q) /\ Parsed(f, lines) \in Seq(1..n) /\ q.from \in Nat 
         /\ Cut(f, l) \in SUBSET (1..n)
    <2>1. Len(f) = l /\ Ascending(f) /\ \A k \in 1..l : f[k][1] \in 1..n
      BY <1>5, <1>6
    <2> QED BY <1>8, <1>9, <1>12, <2>1, PassedOpen, ZenonT(60)
  <1>14. q \in TailState'
    <2>1. q.ino \in 0..Len(file')
      BY <1>3, <1>12
    <2>2. q \in [ino : 0..Len(file'), pos : Nat, out : Seq(1..n), from : Nat, 
                 torn : SUBSET (1..n)]
      BY <1>10, <1>12, <1>13, <2>1
    <2> QED BY <1>5, <2>2 DEF TailState
  <1>15. Passed(file'[q.ino], q)
    BY <1>5, <1>12, <1>13
  <1>16. TailsOK'
    BY <1>1, <1>3, <1>11, <1>14, <1>15, TailStep, Types
  <1>17. EndInv'
    <2>1. CASE path # 0
      BY <1>1, <1>2, <2>1 DEF AInv, EndInv, Next_
    <2>2. CASE path = 0 /\ fd = 0
      <3>1. Next_' = path' /\ file'[path'] = <<>>
        BY <1>1, <1>2, <2>2 DEF Next_
      <3> QED BY <1>1, <2>2, <3>1 DEF EndInv
    <2>3. CASE path = 0 /\ fd # 0
      <3>1. /\ Next_' = fd /\ Next_ = fd /\ file'[path'] = <<>>
        BY <1>1, <1>2, <2>3 DEF Next_
      <3>2. fd \in 1..Len(file)
        BY <2>3, Types
      <3>3. file'[fd] = file[fd]
        BY <1>2, <3>2 DEF Still
      <3> QED BY <1>1, <3>1, <3>3 DEF AInv, EndInv
    <2> QED BY <2>1, <2>2, <2>3
  <1>18. TypeOK'
    <2>1. home' \in Seq(1..Len(file'))
      BY <1>1, <1>2, <1>3, HomeType
    <2>2. {path', fd'} \subseteq 0..Len(file')
      BY <1>1, <1>2, <1>3, Types
    <2> QED BY <1>1, <1>2, <1>16, <2>1, <2>2 DEF AInv, TypeOK, TailsOK
  <1> QED BY <1>4, <1>16, <1>17, <1>18 DEF AInv, TailsOK

LEMMA AlertKeeps == 
  ASSUME AInv, NEW s \in Student, Alert(s)
  PROVE  AInv'
  <1>1. /\ fd # 0 /\ pend = <<>> /\ who' = Append(who, s) /\ home' = Append(home, fd)
        /\ UNCHANGED <<file, path, fd, cut, tail>>
    BY DEF Alert
  <1>2. PICK n \in Nat : n = Len(who) /\ n < MaxAlerts /\ n + 1 \in Nat
    BY Types DEF Alert
  <1>3. /\ who \in Seq(Student) /\ home \in Seq(1..Len(file)) /\ Len(home) = n
        /\ fd \in 1..Len(file) /\ Len(file) \in Nat
    BY <1>1, <1>2, Types DEF AInv, TypeOK, PendInv
  <1>4. /\ who' \in Seq(Student) /\ Len(who') = n + 1 
        /\ home' \in Seq(1..Len(file)) /\ Len(home') = n + 1
        /\ home'[n + 1] = fd
        /\ \A a \in 1..n : home'[a] = home[a]
    BY <1>1, <1>2, <1>3
  <1>5. pend' = [k \in 1..3 |-> <<n + 1, Part[k]>>]
    BY <1>2 DEF Alert, Part
  <1>6. /\ pend' \in Seq(Chunk) /\ Len(pend') = 3
        /\ \A k \in 1..3 : pend'[k] = <<n + 1, Part[k]>>
    <2>1. n + 1 \in 1..MaxAlerts
      BY <1>2, SizesAssumption
    <2>2. \A k \in 1..3 : Part[k] \in {"head", "rest", "nl"}
      <3>1. \A k \in 1..3 : k = 1 \/ k = 2 \/ k = 3
        OBVIOUS
      <3> QED BY <3>1 DEF Part
    <2>3. \A k \in 1..3 : <<n + 1, Part[k]>> \in Chunk
      BY <2>1, <2>2 DEF Chunk
    <2> QED BY <1>5, <2>3
  <1>7. Still /\ file' \in Seq(Seq(Chunk)) /\ Len(file) <= Len(file')
    BY <1>1 DEF Still, AInv, TypeOK
  <1>8. TailsOK'
    BY <1>1, <1>2, <1>4, <1>7, StillGrows, TailsKept
  <1>9. FilesInv'
    <2> SUFFICES ASSUME NEW g \in 1..Len(file), NEW k \in 1..Len(file[g])
                 PROVE  /\ file[g][k][1] \in 1..n + 1 
                        /\ home'[file[g][k][1]] = g
      BY <1>1, <1>4 DEF AInv, FilesInv
    <2>1. file[g][k][1] \in 1..n /\ home[file[g][k][1]] = g
      BY <1>2 DEF AInv, FilesInv
    <2> QED BY <1>2, <1>4, <2>1
  <1>10. PendInv'
    <2>1. \A k \in 1..Len(pend') : 
            pend'[k] = <<Len(who'), Part[3 - Len(pend') + k]>>
      BY <1>4, <1>6
    <2>2. \A g \in 1..Len(file) : \A k \in 1..Len(file[g]) : file[g][k][1] < n + 1
      BY <1>2 DEF AInv, FilesInv
    <2>3. /\ Len(home') = Len(who') /\ Len(who') <= MaxAlerts /\ Len(pend') <= 3
          /\ Len(pend') \notin 1..2
      BY <1>2, <1>4, <1>6, SizesAssumption
    <2>4. fd' # 0 /\ Len(who') > 0 /\ home'[Len(who')] = fd'
      BY <1>1, <1>2, <1>4
    <2>5. \A g \in 1..Len(file') : \A k \in 1..Len(file'[g]) : 
            file'[g][k][1] < Len(who')
      BY <1>1, <1>4, <2>2
    <2> QED BY <2>1, <2>3, <2>4, <2>5, Zenon DEF PendInv
  <1>11. EndInv'
    <2>1. Next_' = Next_ /\ Len(who') - 1 = Len(who)
      BY <1>1, <1>2, <1>4 DEF Next_
    <2>2. Len(pend) = 0 /\ Len(pend') = 3
      BY <1>1, <1>6
    <2> QED BY <1>1, <2>1, <2>2 DEF AInv, EndInv
  <1>12. KeptInv'
    <2> SUFFICES ASSUME NEW a \in 1..n + 1, a \notin Spoilt', a < n + 1
                 PROVE  Kept(file[home'[a]], a, 3)
      BY <1>1, <1>4, <1>6 DEF KeptInv
    <2>1. a \in 1..n /\ a \notin Spoilt
      BY <1>1, <1>2, <1>4 DEF Spoilt
    <2>2. Kept(file[home[a]], a, 3)
      BY <1>1, <1>2, <2>1 DEF AInv, KeptInv
    <2> QED BY <1>4, <2>1, <2>2
  <1>13. TypeOK'
    <2>1. cut \in SUBSET (1..Len(who'))
      BY <1>2, <1>4 DEF AInv, TypeOK
    <2>2. {path, fd} \subseteq 0..Len(file)
      BY Types
    <2> QED BY <1>1, <1>4, <1>6, <1>7, <1>8, <2>1, <2>2 DEF TypeOK, TailsOK
  <1> QED BY <1>8, <1>9, <1>10, <1>11, <1>12, <1>13 DEF AInv, TailsOK

\* A write of the next n parts: file fd was f and is g, c of the line's parts 
\* were left and m were there.
Wrote(n, c, l, a, f, g) == 
    /\ n \in 1..c /\ c <= 3 /\ Len(pend) = c /\ a = Len(who) /\ a > 0
    /\ f = file[fd] /\ l = Len(f) /\ Len(g) = l + n
    /\ fd \in 1..Len(file) /\ home[a] = fd
    /\ file' = [file EXCEPT ![fd] = g]
    /\ pend' \in Seq(Chunk) /\ Len(pend') = c - n
    /\ \A k \in 1..c - n : pend'[k] = <<a, Part[3 - (c - n) + k]>>
    /\ \A k \in 1..l : g[k] = f[k]
    /\ \A k \in l + 1..l + n : g[k] = <<a, Part[(3 - c) + (k - l)]>>

LEMMA WriteParts == 
  ASSUME AInv, Write
  PROVE  \E n, c, l, a \in Nat, f, g \in Seq(Chunk) : Wrote(n, c, l, a, f, g)
  <1>1. PICK n \in 1..Len(pend) : 
          /\ file' = [file EXCEPT ![fd] = @ \o SubSeq(pend, 1, n)]
          /\ pend' = SubSeq(pend, n + 1, Len(pend))
    BY DEF Write
  <1>2. PICK c \in Nat, p \in Seq(Chunk) : p = pend /\ c = Len(p)
    BY DEF AInv, TypeOK
  <1>3. n \in 1..c /\ n \in Nat /\ p # <<>>
    BY <1>1, <1>2
  <1>4. /\ c <= 3 /\ fd # 0 /\ Len(who) > 0 /\ home[Len(who)] = fd
        /\ \A k \in 1..c : p[k] = <<Len(who), Part[3 - c + k]>>
    BY <1>2, <1>3 DEF AInv, PendInv
  <1>5. PICK a \in Nat : a = Len(who) /\ a > 0
    BY <1>4, Types
  <1>6. fd \in 1..Len(file)
    BY <1>4, Types
  <1>7. PICK f \in Seq(Chunk), l \in Nat : f = file[fd] /\ l = Len(f)
    BY <1>6, Types
  <1>8. PICK w : w = SubSeq(p, 1, n)
    OBVIOUS
  <1>9. w \in Seq(Chunk) /\ Len(w) = n /\ \A k \in 1..n : w[k] = p[k]
    BY <1>2, <1>3, <1>8
  <1>10. PICK g : g = f \o w
    OBVIOUS
  <1>11. /\ g \in Seq(Chunk) /\ Len(g) = l + n /\ \A k \in 1..l : g[k] = f[k]
         /\ \A k \in l + 1..l + n : g[k] = w[k - l]
    <2>0. Len(f) = l /\ w \in Seq(Chunk) /\ Len(w) = n
      BY <1>7, <1>9
    <2>1. g \in Seq(Chunk) /\ Len(g) = l + n
      BY <1>10, <2>0, ConcatProperties
    <2>2. \A k \in 1..l : g[k] = f[k]
      BY <1>3, <1>10, <2>0, ConcatProperties
    <2>3. ASSUME NEW k \in l + 1..l + n PROVE g[k] = w[k - l]
      <3>1. k \in 1..l + n /\ k > l /\ k \in Nat
        BY <1>3, <1>7
      <3> QED BY <1>3, <1>10, <2>0, <3>1, ConcatProperties
    <2> QED BY <2>1, <2>2, <2>3
  <1>12. \A k \in l + 1..l + n : g[k] = <<a, Part[(3 - c) + (k - l)]>>
    <2> SUFFICES ASSUME NEW k \in l + 1..l + n
                 PROVE  g[k] = <<a, Part[(3 - c) + (k - l)]>>
      OBVIOUS
    <2>1. PICK j \in 1..n : j = k - l
      BY <1>3
    <2>2. j \in 1..c
      BY <1>3
    <2>3. g[k] = <<a, Part[3 - c + j]>>
      BY <1>4, <1>5, <1>9, <1>11, <2>1, <2>2
    <2> QED BY <2>1, <2>3
  <1>13. file' = [file EXCEPT ![fd] = g]
    BY <1>1, <1>2, <1>7, <1>8, <1>10
  <1>14. PICK z : z = SubSeq(p, n + 1, c)
    OBVIOUS
  <1>15. /\ z \in Seq(Chunk) /\ Len(z) = c - n 
         /\ \A k \in 1..c - n : z[k] = p[n + k]
    BY <1>2, <1>3, <1>14
  <1>16. \A k \in 1..c - n : z[k] = <<a, Part[3 - (c - n) + k]>>
    <2> SUFFICES ASSUME NEW k \in 1..c - n
                 PROVE  z[k] = <<a, Part[3 - (c - n) + k]>>
      OBVIOUS
    <2>1. PICK j \in 1..c : j = n + k
      BY <1>3
    <2>2. 3 - c + j = 3 - (c - n) + k
      BY <1>3, <2>1
    <2>3. z[k] = <<a, Part[3 - c + j]>>
      BY <1>4, <1>5, <1>15, <2>1
    <2> QED BY <2>2, <2>3
  <1>17. pend' = z
    BY <1>1, <1>2, <1>14
  <1>18. Wrote(n, c, l, a, f, g)
    BY <1>2, <1>3, <1>4, <1>5, <1>6, <1>7, <1>11, <1>12, <1>13, <1>15, 
       <1>16, <1>17 DEF Wrote
  <1> QED BY <1>2, <1>3, <1>5, <1>7, <1>11, <1>18

LEMMA WriteKeeps == 
  ASSUME AInv, Write
  PROVE  AInv'
  <1>1. UNCHANGED <<path, fd, who, home, cut, tail>>
    BY DEF Write
  <1>2a. PICK n, c, l, a \in Nat, f, g \in Seq(Chunk) : Wrote(n, c, l, a, f, g)
    BY WriteParts
  <1>2. /\ n \in 1..c /\ c <= 3 /\ Len(pend) = c /\ a = Len(who) /\ a > 0
        /\ f = file[fd] /\ l = Len(f) /\ Len(g) = l + n
        /\ fd \in 1..Len(file) /\ home[a] = fd
        /\ file' = [file EXCEPT ![fd] = g]
        /\ pend' \in Seq(Chunk) /\ Len(pend') = c - n
        /\ \A k \in 1..c - n : pend'[k] = <<a, Part[3 - (c - n) + k]>>
        /\ \A k \in 1..l : g[k] = f[k]
        /\ \A k \in l + 1..l + n : g[k] = <<a, Part[(3 - c) + (k - l)]>>
    BY <1>2a DEF Wrote
  <1>2b. 1 <= n /\ n <= c /\ c <= 3
    BY <1>2
  <1>3. PICK m \in Nat, e \in Nat, b \in Nat : m = 3 - c /\ e = l + n /\ b = c - n
    BY <1>2b
  <1>4. /\ l < e /\ m + (e - l) <= 3 /\ l <= e /\ m + (e - l) = 3 - b
        /\ 3 - b \in Nat /\ b <= 2
    BY <1>2b, <1>3
  <1>5. /\ Len(g) = e /\ Len(pend') = b
        /\ \A k \in l + 1..e : g[k] = <<a, Part[m + (k - l)]>>
        /\ \A k \in 1..b : pend'[k] = <<a, Part[3 - b + k]>>
    BY <1>2, <1>3
  <1>6. /\ file' \in Seq(Seq(Chunk)) /\ Len(file') = Len(file) /\ file'[fd] = g
        /\ \A h \in 1..Len(file) : h # fd => file'[h] = file[h]
    BY <1>2 DEF AInv, TypeOK
  <1>7. \A k \in 1..l : f[k][1] \in 1..a /\ home[f[k][1]] = fd
    <2>1. FilesInv /\ fd \in 1..Len(file)
      BY <1>2 DEF AInv
    <2>2. \A k \in 1..Len(file[fd]) : 
            file[fd][k][1] \in 1..Len(who) /\ home[file[fd][k][1]] = fd
      BY <2>1 DEF FilesInv
    <2>3. f = file[fd] /\ l = Len(f) /\ a = Len(who)
      BY <1>2
    <2> QED BY <2>2, <2>3
  <1>8. m = 0 => \A k \in 1..l : f[k][1] < a
    BY <1>2, <1>3 DEF AInv, PendInv
  <1>9. m \in 1..2 => l > 0 /\ f[l] = <<a, Part[m]>>
    <2> SUFFICES ASSUME m \in 1..2 PROVE l > 0 /\ f[l] = <<a, Part[m]>>
      OBVIOUS
    <2>1. Len(pend) \in 1..2 /\ 3 - Len(pend) = m
      BY <1>2, <1>3
    <2>2. f # <<>> /\ Last(f) = <<a, Part[m]>>
      BY <1>2, <2>1 DEF AInv, PendInv
    <2>3. l # 0
      BY <1>2, <2>2
    <2> QED BY <1>2, <2>2, <2>3 DEF Last
  <1>10. Adjacent(f) /\ Ascending(f)
    BY <1>2 DEF AInv, FilesInv
  <1>10a. Appended(f, g, l, e, m, a)
    <2>1. Len(f) = l /\ Len(g) = e /\ \A k \in 1..l : g[k] = f[k]
      BY <1>2, <1>5
    <2>2. \A k \in l + 1..e : g[k] = <<a, Part[m + (k - l)]>>
      BY <1>5
    <2> QED BY <1>4, <2>1, <2>2 DEF Appended
  <1>11. Adjacent(g) /\ Ascending(g)
    <2>1. Appended(f, g, l, e, m, a)
      BY <1>10a
    <2>2. \A k \in 1..l : f[k][1] \in 1..a
      BY <1>7
    <2> QED BY <1>8, <1>9, <1>10, <2>1, <2>2, PartsAppended
  <1>12. g[e] = <<a, Part[3 - b]>> /\ g # <<>> /\ Last(g) = g[e]
    <2>1. e \in l + 1..e /\ e # 0
      BY <1>4
    <2>2. g[e] = <<a, Part[m + (e - l)]>>
      BY <1>5, <2>1
    <2> QED BY <1>2, <1>4, <1>5, <2>1, <2>2 DEF Last
  <1>13. Grows /\ \A h \in 1..Len(file') : Len(file'[h]) \in Nat
    <2>1. ASSUME NEW h \in 1..Len(file)
          PROVE  /\ Len(file[h]) <= Len(file'[h])
                 /\ \A k \in 1..Len(file[h]) : file'[h][k] = file[h][k]
                 /\ Len(file'[h]) \in Nat
      <3>1. Len(file[h]) \in Nat
        BY Types
      <3>2. CASE h = fd
        BY <1>2, <1>4, <1>5, <1>6, <3>2
      <3>3. CASE h # fd
        BY <1>6, <3>1, <3>3
      <3> QED BY <3>2, <3>3
    <2>2. Len(file) <= Len(file') /\ Len(who) <= Len(who')
      BY <1>1, <1>6, Types
    <2>3. Grows
      BY <2>1, <2>2 DEF Grows
    <2> QED BY <1>6, <2>1, <2>3
  <1>14. TailsOK'
    BY <1>1, <1>6, <1>13, TailsKept, Types
  <1>15. FilesInv'
    <2> SUFFICES ASSUME NEW h \in 1..Len(file)
                 PROVE  /\ Adjacent(file'[h]) /\ Ascending(file'[h])
                        /\ \A k \in 1..Len(file'[h]) : 
                             file'[h][k][1] \in 1..Len(who) 
                             /\ home[file'[h][k][1]] = h
      BY <1>1, <1>6 DEF FilesInv
    <2>1. CASE h = fd
      <3>1. \A k \in 1..e : g[k][1] \in 1..a /\ home[g[k][1]] = fd
        <4> SUFFICES ASSUME NEW k \in 1..e
                     PROVE  g[k][1] \in 1..a /\ home[g[k][1]] = fd
          OBVIOUS
        <4>1. k \in 1..l => g[k] = f[k]
          BY <1>2
        <4>2. k \in l + 1..e => g[k][1] = a
          BY <1>5
        <4>3. k \in 1..l \/ k \in l + 1..e
          OBVIOUS
        <4>4. a \in 1..a /\ home[a] = fd
          BY <1>2
        <4> QED BY <1>7, <4>1, <4>2, <4>3, <4>4
      <3> QED BY <1>2, <1>5, <1>6, <1>11, <2>1, <3>1
    <2>2. CASE h # fd
      BY <1>6, <2>2 DEF AInv, FilesInv
    <2> QED BY <2>1, <2>2
  <1>16. PendInv'
    <2>1. /\ Len(home') = Len(who') /\ Len(who') <= MaxAlerts /\ Len(pend') <= 3
          /\ Len(pend') # 3
      BY <1>1, <1>4, <1>5 DEF AInv, PendInv
    <2>2. \A k \in 1..Len(pend') : 
            pend'[k] = <<Len(who'), Part[3 - Len(pend') + k]>>
      BY <1>1, <1>2, <1>5
    <2>3. fd' # 0 /\ Len(who') > 0 /\ home'[Len(who')] = fd'
      BY <1>1, <1>2, Types
    <2>4. /\ file'[fd'] # <<>>
          /\ Last(file'[fd']) = <<Len(who'), Part[3 - Len(pend')]>>
      BY <1>1, <1>2, <1>5, <1>6, <1>12
    <2> QED BY <2>1, <2>2, <2>3, <2>4 DEF PendInv
  <1>17. EndInv'
    <2>1. fd # 0 /\ Next_' = fd /\ Next_ = fd
      BY <1>1, <1>2, Types DEF Next_
    <2>2. path # 0 /\ path # fd => file'[path] = <<>>
      <3> SUFFICES ASSUME path # 0, path # fd PROVE file'[path] = <<>>
        OBVIOUS
      <3>1. path \in 1..Len(file)
        BY Types
      <3> QED BY <1>6, <2>1, <3>1 DEF AInv, EndInv
    <2>3. Last(file'[fd])[2] # "nl" => Len(pend') \in 1..2
      <3> SUFFICES ASSUME b = 0 PROVE g[e][2] = "nl"
        BY <1>4, <1>5, <1>6, <1>12
      <3>1. 3 - b = 3
        OBVIOUS
      <3> QED BY <1>12, <3>1 DEF Part
    <2> QED BY <1>1, <2>1, <2>2, <2>3 DEF EndInv
  <1>18. KeptInv'
    <2> SUFFICES ASSUME NEW x \in 1..a, x \notin Spoilt
                 PROVE  /\ x < a \/ b = 0 => Kept(file'[home[x]], x, 3)
                        /\ x = a /\ b \in 1..2 => Kept(file'[home[x]], x, 3 - b)
      BY <1>1, <1>2, <1>5 DEF KeptInv, Spoilt
    <2>0. c # 0
      BY <1>2
    <2>1. CASE x < a
      <3>1. Kept(file[home[x]], x, 3)
        BY <1>2, <2>1 DEF AInv, KeptInv
      <3>2. CASE home[x] = fd
        <4>1. Kept(f, x, 3)
          BY <1>2, <3>1, <3>2
        <4>2. Kept(g, x, 3)
          <5>1. Len(f) = l /\ Len(g) = l + n /\ \A k \in 1..l : g[k] = f[k]
            BY <1>2
          <5> QED BY <4>1, <5>1, KeptGrows
        <4> QED BY <1>6, <2>1, <3>2, <4>2
      <3>3. CASE home[x] # fd
        <4>1. home[x] \in 1..Len(file)
          BY <1>2, HomeOf
        <4>2. file'[home[x]] = file[home[x]]
          BY <1>6, <3>3, <4>1
        <4> QED BY <2>1, <3>1, <4>2
      <3> QED BY <3>2, <3>3
    <2>2. CASE x = a
      <3>1. m > 0 => Kept(f, a, m)
        <4> SUFFICES ASSUME m > 0 PROVE Kept(f, a, m)
          OBVIOUS
        <4>1. Len(pend) \in 1..2 /\ 3 - Len(pend) = m
          BY <1>2, <1>3, <2>0
        <4>2. a \in 1..Len(who) \ Spoilt
          BY <1>2, <2>2
        <4> QED BY <1>2, <4>1, <4>2 DEF AInv, KeptInv
      <3>2. m = 0 => l = 0 \/ f[l][2] = "nl"
        <4> SUFFICES ASSUME m = 0, l # 0, f[l][2] # "nl" PROVE FALSE
          OBVIOUS
        <4>0. c = 3
          BY <1>3
        <4>1. Len(pend) = 3 /\ pend # <<>>
          <5>1. Len(pend) = 3
            BY <1>2, <4>0
          <5>2. pend # <<>>
            <6> SUFFICES ASSUME pend = <<>> PROVE FALSE
              OBVIOUS
            <6>1. Len(pend) = 0
              OBVIOUS
            <6> QED BY <5>1, <6>1
          <5> QED BY <5>1, <5>2
        <4>2. Next_ = fd /\ fd # 0
          BY <1>2, Types DEF Next_
        <4>3. file[fd] # <<>> /\ Last(file[fd])[2] # "nl"
          <5>1. Last(f) = f[l] /\ f # <<>>
            BY <1>2 DEF Last
          <5> QED BY <1>2, <5>1
        <4>4. Len(who) - 1 \in cut
          BY <4>1, <4>2, <4>3 DEF AInv, EndInv
        <4> QED BY <1>2, <2>2, <4>4 DEF Spoilt
      <3>3. Kept(g, a, 3 - b)
        <4>1. 3 - b <= 3 /\ m + (e - l) = 3 - b
          BY <1>4
        <4>2. PICK d \in Nat : d = 3 - b
          BY <1>4
        <4>3. Kept(g, a, d)
          <5>1. d = m + (e - l) /\ l < e
            BY <1>4, <4>2
          <5> QED BY <1>10a, <3>1, <3>2, <5>1, KeptAppended
        <4> QED BY <4>2, <4>3
      <3>4. home[x] = fd
        BY <1>2, <2>2
      <3>5. b = 0 => 3 - b = 3
        OBVIOUS
      <3> QED BY <1>6, <2>2, <3>3, <3>4, <3>5
    <2> QED BY <1>4, <2>1, <2>2
  <1>19. TypeOK'
    BY <1>1, <1>2, <1>6, <1>14 DEF AInv, TypeOK, TailsOK
  <1> QED BY <1>14, <1>15, <1>16, <1>17, <1>18, <1>19 DEF AInv, TailsOK

-----------------------------------------------------------------------------
(* The invariant.                                                          *)

LEMMA InitKeeps == 
  ASSUME Init
  PROVE  AInv
  <1>1. /\ file = <<>> /\ path = 0 /\ fd = 0 /\ pend = <<>> /\ who = <<>> 
        /\ home = <<>> /\ cut = {} /\ tail = [t \in Tail_ |-> NoTail]
    BY DEF Init
  <1>2. Len(file) = 0 /\ Len(who) = 0 /\ Len(home) = 0 /\ Len(pend) = 0
    BY <1>1
  <1>3. TypeOK
    <2>1. /\ file \in Seq(Seq(Chunk)) /\ pend \in Seq(Chunk) /\ who \in Seq(Student)
          /\ home \in Seq(1..Len(file)) /\ cut \subseteq 1..Len(who)
          /\ {path, fd} \subseteq 0..Len(file)
      BY <1>1, <1>2
    <2>2. NoTail.out \in Seq(1..Len(who))
      BY DEF NoTail
    <2>3. NoTail \in TailState /\ NoTail.ino = 0
      BY <1>2, <2>2 DEF NoTail, TailState
    <2> QED BY <1>1, <2>1, <2>3 DEF TypeOK
  <1>4. FilesInv /\ PendInv /\ KeptInv
    BY <1>1, <1>2, SizesAssumption DEF FilesInv, PendInv, KeptInv
  <1>5. EndInv
    BY <1>1 DEF EndInv, Next_
  <1>6. TailInv
    BY <1>1 DEF TailInv, NoTail
  <1> QED BY <1>3, <1>4, <1>5, <1>6 DEF AInv

LEMMA StutterKeeps == 
  ASSUME AInv, UNCHANGED vars
  PROVE  AInv'
  <1>1. UNCHANGED <<file, path, fd, pend, who, home, cut, tail>>
    BY DEF vars, engine
  <1>2. TypeOK'
    BY <1>1 DEF AInv, TypeOK, TailState
  <1>3. FilesInv' /\ PendInv' /\ EndInv'
    BY <1>1 DEF AInv, FilesInv, PendInv, EndInv, Next_
  <1>4. KeptInv' /\ TailInv'
    BY <1>1 DEF AInv, KeptInv, Spoilt, TailInv
  <1> QED BY <1>2, <1>3, <1>4 DEF AInv

LEMMA StepKeeps == 
  ASSUME AInv, [Next]_vars
  PROVE  AInv'
  <1>1. CASE EngineStarts
    BY <1>1, EngineStartsKeeps
  <1>2. CASE Write
    BY <1>2, WriteKeeps
  <1>3. CASE EngineDies
    BY <1>3, EngineDiesKeeps
  <1>4. ASSUME NEW s \in Student, Alert(s) PROVE AInv'
    BY <1>4, AlertKeeps
  <1>5. CASE Sweep
    BY <1>5, SweepKeeps
  <1>6. ASSUME NEW t \in Tail_, Open(t) PROVE AInv'
    BY <1>6, OpenKeeps
  <1>7. ASSUME NEW t \in Tail_, Follow(t) PROVE AInv'
    BY <1>7, FollowKeeps
  <1>8. CASE UNCHANGED vars
    BY <1>8, StutterKeeps
  <1> QED BY <1>1, <1>2, <1>3, <1>4, <1>5, <1>6, <1>7, <1>8 DEF Next, Engine

LEMMA Invariant == Spec => []AInv
  <1>1. Init => AInv
    BY InitKeeps
  <1>2. AInv /\ [Next]_vars => AInv'
    BY StepKeeps
  <1> QED BY <1>1, <1>2, PTL DEF Spec

-----------------------------------------------------------------------------
(* What it says of the streams and of the reports.                         *)

LEMMA TailsExact == AInv => TailExact
  <1> SUFFICES ASSUME AInv, NEW t \in Tail_, tail[t].ino # 0,
                      NEW q, NEW f, q = tail[t], f = file[q.ino]
               PROVE  /\ \A i, j \in 1..Len(q.out) : i < j => q.out[i] < q.out[j]
                      /\ \A i \in 1..Len(q.out) : home[q.out[i]] = q.ino
                      /\ \A a \in 1..Len(who) \ q.torn : \A r \in Own(f, a) : 
                           (r[1] >= q.from /\ r[1] < q.pos) => 
                             \E i \in 1..Len(q.out) : q.out[i] = a
    BY DEF TailExact
  <1>1. Passed(f, q)
    BY DEF AInv, TailInv
  <1>2. /\ q \in TailState /\ q.ino \in 1..Len(file) /\ Len(f) \in Nat
        /\ q.pos \in Nat /\ q.from \in Nat
    BY Types DEF TailState
  <1>3. ASSUME NEW i \in 1..Len(q.out)
        PROVE  home[q.out[i]] = q.ino
    <2>1. PICK k \in 1..q.pos : f[k] = <<q.out[i], "head">>
      BY <1>1 DEF Passed
    <2>2. k \in 1..Len(f) /\ f[k][1] = q.out[i]
      BY <1>1, <1>2, <2>1 DEF Passed
    <2> QED BY <1>2, <2>2 DEF AInv, FilesInv
  <1>4. ASSUME NEW a \in 1..Len(who) \ q.torn, NEW r \in Own(f, a),
               r[1] >= q.from, r[1] < q.pos
        PROVE  \E i \in 1..Len(q.out) : q.out[i] = a
    <2>1. r \in Lines(f, 1, Len(f)) /\ IsJson(f, r) /\ AlertOf(f, r) = a
      BY DEF Own
    <2>2. r[1] \in Nat
      <3>1. 1 \in Nat
        OBVIOUS
      <3> QED BY <1>2, <2>1, <3>1, InLines
    <2>3. q.from <= r[1]
      BY <1>2, <1>4, <2>2
    <2> QED BY <1>1, <1>4, <2>1, <2>3 DEF Passed
  <1> QED BY <1>1, <1>3, <1>4 DEF Passed

\* An alert that is JSON in a file has been written.
LEMMA JsonWritten == 
  ASSUME AInv, NEW g \in 1..Len(file), NEW r \in Lines(file[g], 1, Len(file[g])), 
         IsJson(file[g], r)
  PROVE  /\ AlertOf(file[g], r) \in 1..Len(who) /\ home[AlertOf(file[g], r)] = g
         /\ Written(AlertOf(file[g], r))
  <1>1. PICK f \in Seq(Chunk), l \in Nat : f = file[g] /\ l = Len(f)
    BY Types
  <1>2. PICK a : a = AlertOf(f, r)
    OBVIOUS
  <1>3. r[1] \in Nat /\ r[2] \in Nat /\ 1 <= r[1] /\ r[2] <= l
    <2>1. 1 \in Nat
      OBVIOUS
    <2> QED BY <1>1, <2>1, InLines
  <1>4. PICK k \in 1..l : /\ k + 1 \in 1..l /\ f[k] = <<a, "head">> 
                          /\ f[k + 1] = <<a, "rest">>
    <2>1. /\ f[r[1]] = <<a, "head">> /\ f[r[1] + 1] = <<a, "rest">>
          /\ r[1] + 1 <= r[2]
      BY <1>1, <1>2, <1>3, JsonParts
    <2>2. r[1] \in 1..l /\ r[1] + 1 \in 1..l
      BY <1>3, <2>1
    <2> QED BY <2>1, <2>2
  <1>5. Ascending(f) /\ \A i \in 1..l : f[i][1] \in 1..Len(who) /\ home[f[i][1]] = g
    BY <1>1 DEF AInv, FilesInv
  <1>6. a \in 1..Len(who) /\ home[a] = g
    BY <1>4, <1>5
  <1>7. ASSUME a = Len(who), Len(pend) > 1
        PROVE  FALSE
    <2>1. Len(pend) = 2 \/ Len(pend) = 3
      <3>1. PICK c \in Nat : c = Len(pend)
        BY Types
      <3>2. c <= 3 /\ c > 1
        BY <1>7, <3>1 DEF AInv, PendInv
      <3> QED BY <3>1, <3>2
    <2>2. CASE Len(pend) = 3
      <3>1. f[k][1] < Len(who)
        BY <1>1, <2>2 DEF AInv, PendInv
      <3> QED BY <1>4, <1>6, <1>7, <3>1
    <2>3. CASE Len(pend) = 2
      <3>1. pend # <<>>
        BY <2>3
      <3>2. fd = g
        BY <1>6, <1>7, <3>1 DEF AInv, PendInv
      <3>3. Last(f) = <<a, Part[3 - Len(pend)]>>
        BY <1>1, <1>7, <2>3, <3>2 DEF AInv, PendInv
      <3>4. f[l] = <<a, "head">>
        BY <1>1, <2>3, <3>3 DEF Last, Part
      <3>5. k + 1 # l
        BY <1>4, <3>4
      <3>6. k + 1 < l /\ l \in 1..l
        BY <1>4, <3>5
      <3>7. f[k + 1][1] < f[l][1]
        <4>1. f[l][2] = "head"
          BY <3>4
        <4> QED BY <1>1, <1>4, <1>5, <3>6, <4>1 DEF Ascending
      <3> QED BY <1>4, <1>6, <3>4, <3>7
    <2> QED BY <2>1, <2>2, <2>3
  <1>8. Written(a)
    BY <1>6, <1>7, Types DEF Written
  <1> QED BY <1>1, <1>2, <1>6, <1>8

\* An alert that no crash touched, and that has been written, is JSON there.
LEMMA WrittenJson == 
  ASSUME AInv, NEW a \in 1..Len(who) \ Spoilt, Written(a)
  PROVE  \E r \in Lines(file[home[a]], 1, Len(file[home[a]])) : 
           IsJson(file[home[a]], r) /\ AlertOf(file[home[a]], r) = a
  <1>1. PICK f \in Seq(Chunk), l \in Nat : f = file[home[a]] /\ l = Len(f)
    BY HomeOf, Types
  <1>2. Part[1] = "head" /\ Part[2] = "rest" /\ Part[3] = "nl"
    BY DEF Part
  <1>3. Kept(f, a, 3) \/ Kept(f, a, 2)
    <2>1. a < Len(who) \/ Len(pend) = 0 \/ (a = Len(who) /\ Len(pend) = 1)
      <3>1. PICK c \in Nat, n \in Nat : c = Len(pend) /\ n = Len(who)
        BY Types
      <3>2. a \in 1..n /\ (a < n \/ c <= 1)
        BY <3>1 DEF Written
      <3>3. a < n \/ c = 0 \/ (a = n /\ c = 1)
        BY <3>2
      <3> QED BY <3>1, <3>3
    <2>2. Len(pend) = 1 => 3 - Len(pend) = 2 /\ Len(pend) \in 1..2
      OBVIOUS
    <2> QED BY <1>1, <2>1, <2>2 DEF AInv, KeptInv
  <1>4. \E k : JsonAt(f, 1, l, k, a)
    <2>1. CASE Kept(f, a, 3)
      <3>1. PICK k \in 1..l : /\ k = 1 \/ f[k - 1][2] = "nl"
                              /\ k + 3 - 1 <= l
                              /\ \A i \in 1..3 : f[k + i - 1] = <<a, Part[i]>>
        BY <1>1, <2>1 DEF Kept
      <3>2. k + 1 - 1 = k /\ k + 2 - 1 = k + 1 /\ k + 3 - 1 = k + 2
        OBVIOUS
      <3>3. /\ f[k] = <<a, "head">> /\ f[k + 1] = <<a, "rest">> 
            /\ f[k + 2] = <<a, "nl">>
        <4>1. 1 \in 1..3 /\ 2 \in 1..3 /\ 3 \in 1..3
          OBVIOUS
        <4> QED BY <1>2, <3>1, <3>2, <4>1
      <3>4. k \in 1..l /\ k + 1 <= l /\ IsNl(f, k + 2)
        BY <3>1, <3>3 DEF IsNl
      <3>5. k = 1 \/ IsNl(f, k - 1)
        BY <3>1 DEF IsNl
      <3>6. JsonAt(f, 1, l, k, a)
        BY <3>3, <3>4, <3>5 DEF JsonAt
      <3> QED BY <3>6
    <2>2. CASE Kept(f, a, 2)
      <3>1. PICK k \in 1..l : /\ k = 1 \/ f[k - 1][2] = "nl"
                              /\ k + 2 - 1 = l
                              /\ \A i \in 1..2 : f[k + i - 1] = <<a, Part[i]>>
        <4>1. 2 < 3 /\ Len(f) = l
          BY <1>1
        <4> QED BY <2>2, <4>1 DEF Kept
      <3>2. k + 1 - 1 = k /\ k + 2 - 1 = k + 1 
        OBVIOUS
      <3>3. f[k] = <<a, "head">> /\ f[k + 1] = <<a, "rest">> 
        <4>1. 1 \in 1..2 /\ 2 \in 1..2
          OBVIOUS
        <4> QED BY <1>2, <3>1, <3>2, <4>1
      <3>4. k \in 1..l /\ k + 1 <= l /\ ~(k + 2 <= l)
        BY <3>1
      <3>5. k = 1 \/ IsNl(f, k - 1)
        BY <3>1 DEF IsNl
      <3>6. JsonAt(f, 1, l, k, a)
        BY <3>3, <3>4, <3>5 DEF JsonAt
      <3> QED BY <3>6
    <2> QED BY <1>3, <2>1, <2>2
  <1>5. \E r \in Lines(f, 1, l) : IsJson(f, r) /\ AlertOf(f, r) = a
    <2>1. 1 \in Nat
      OBVIOUS
    <2> QED BY <1>4, <2>1, IsJsonLine
  <1> QED BY <1>1, <1>5

\* The list a report is made of.
LEMMA ReportLists == 
  ASSUME AInv, NEW s \in Student, path # 0
  PROVE  LET f == file[path]
             lines == {r \in Lines(f, 1, Len(f)) : who[AlertOf(f, r)] = s}
         IN  Lists(Len(who), f, lines, AlertsFor(s))
  <1>1. PICK f, lines : /\ f = file[path]
                        /\ lines = {r \in Lines(f, 1, Len(f)) : 
                                      who[AlertOf(f, r)] = s}
    OBVIOUS
  <1>2. path \in 1..Len(file) /\ Len(who) \in Nat
    BY Types
  <1>3. Known(Len(who), f, lines)
    <2>1. Ascending(f) /\ Len(f) \in Nat
      BY <1>1, <1>2, Types DEF AInv, FilesInv
    <2> SUFFICES ASSUME NEW r \in lines, IsJson(f, r)
                 PROVE  r[1] \in 1..Len(f) /\ AlertOf(f, r) \in 1..Len(who)
      BY <2>1 DEF Known
    <2>2. r \in Lines(f, 1, Len(f))
      BY <1>1
    <2>3. r[1] \in 1..Len(f)
      <3>1. 1 \in Nat
        OBVIOUS
      <3>2. /\ r[1] \in Nat /\ r[2] \in Nat 
            /\ 1 <= r[1] /\ r[1] <= r[2] /\ r[2] <= Len(f)
        BY <2>1, <2>2, <3>1, InLines
      <3> QED BY <2>1, <3>2
    <2> QED BY <1>1, <1>2, <2>2, <2>3, JsonWritten
  <1>4. AlertsFor(s) = Parsed(f, lines)
    BY <1>1 DEF AlertsFor
  <1> QED BY <1>1, <1>2, <1>3, <1>4, ParsedLists

\* Its alerts are those that count.
LEMMA ReportSound == 
  ASSUME AInv, NEW s \in Student, NEW q, q = AlertsFor(s)
  PROVE  /\ \E n \in Nat : q \in Seq(1..n)
         /\ \A i, j \in 1..Len(q) : i < j => q[i] < q[j]
         /\ {q[i] : i \in 1..Len(q)} \ Spoilt = Sound(s)
  <1>1. CASE path = 0
    <2>1. q = <<>> /\ Len(q) = 0
      BY <1>1 DEF AlertsFor
    <2>2. Sound(s) = {}
      <3> SUFFICES ASSUME NEW a \in Sound(s) PROVE FALSE
        OBVIOUS
      <3>1. a \in 1..Len(who) /\ home[a] = 0
        BY <1>1 DEF Sound
      <3> QED BY <3>1, HomeOf
    <2>3. q \in Seq(1..0)
      BY <2>1
    <2> QED BY <2>1, <2>2, <2>3
  <1>2. CASE path # 0
    <2>1. PICK f, lines : /\ f = file[path]
                          /\ lines = {r \in Lines(f, 1, Len(f)) : 
                                        who[AlertOf(f, r)] = s}
      OBVIOUS
    <2>2. PICK n \in Nat : n = Len(who)
      BY Types
    <2>3. Lists(n, f, lines, q)
      BY <1>2, <2>1, <2>2, ReportLists
    <2>4. /\ q \in Seq(1..n)
          /\ \A i, j \in 1..Len(q) : i < j => q[i] < q[j]
          /\ \A i \in 1..Len(q) : 
               \E r \in lines : IsJson(f, r) /\ AlertOf(f, r) = q[i]
          /\ \A r \in lines : IsJson(f, r) => 
               \E i \in 1..Len(q) : q[i] = AlertOf(f, r)
      BY <2>3 DEF Lists
    <2>5. path \in 1..Len(file)
      BY <1>2, Types
    <2>6. ASSUME NEW i \in 1..Len(q), q[i] \notin Spoilt
          PROVE  q[i] \in Sound(s)
      <3>1. PICK r \in lines : IsJson(f, r) /\ AlertOf(f, r) = q[i]
        BY <2>4
      <3>2. r \in Lines(f, 1, Len(f)) /\ who[q[i]] = s
        BY <2>1, <3>1
      <3>3. q[i] \in 1..Len(who) /\ home[q[i]] = path /\ Written(q[i])
        BY <2>1, <2>5, <3>1, <3>2, JsonWritten
      <3> QED BY <2>6, <3>2, <3>3 DEF Sound
    <2>7. ASSUME NEW a \in Sound(s)
          PROVE  a \notin Spoilt /\ \E i \in 1..Len(q) : q[i] = a
      <3>1. /\ a \in 1..Len(who) \ Spoilt /\ who[a] = s /\ home[a] = path 
            /\ Written(a)
        BY DEF Sound
      <3>2. PICK r \in Lines(f, 1, Len(f)) : IsJson(f, r) /\ AlertOf(f, r) = a
        BY <2>1, <3>1, WrittenJson
      <3>3. r \in lines
        BY <2>1, <3>1, <3>2
      <3>4. \E i \in 1..Len(q) : q[i] = AlertOf(f, r)
        BY <2>4, <3>2, <3>3
      <3> QED BY <3>1, <3>2, <3>4
    <2>8. {q[i] : i \in 1..Len(q)} \ Spoilt = Sound(s)
      BY <2>6, <2>7
    <2> QED BY <2>4, <2>8
  <1> QED BY <1>1, <1>2

\* The roster's alert, found by a loop of its own, is the last of the list.
LEMMA RosterShows == 
  ASSUME AInv, NEW s \in Student, NEW q, NEW l \in Nat, q = AlertsFor(s),
         l = Len(q), l > 0
  PROVE  Latest(s) = q[l]
  <1>1. path # 0
    <2> SUFFICES ASSUME path = 0 PROVE FALSE
      OBVIOUS
    <2>1. q = <<>> /\ Len(q) = 0
      BY DEF AlertsFor
    <2> QED BY <2>1
  <1>2. PICK f, lines, theirs : 
          /\ f = file[path] /\ theirs = TheirLines(f, s)
          /\ lines = {r \in Lines(f, 1, Len(f)) : who[AlertOf(f, r)] = s}
    OBVIOUS
  <1>3. PICK n \in Nat : n = Len(who)
    BY Types
  <1>4. Lists(n, f, lines, q)
    BY <1>1, <1>2, <1>3, ReportLists
  <1>5. \A r : r \in theirs <=> r \in lines /\ IsJson(f, r)
    BY <1>2 DEF TheirLines
  <1>6. PICK m \in Nat : m = Len(f) /\ Ascending(f)
    <2>1. path \in 1..Len(file)
      BY <1>1, Types
    <2>2. Ascending(f) /\ Len(f) \in Nat
      BY <1>2, <2>1, Types DEF AInv, FilesInv
    <2> QED BY <2>2
  <1>7. \A r \in theirs : /\ r[1] \in 1..m /\ r = <<r[1], r[2]>> 
                         /\ f[r[1]] = <<AlertOf(f, r), "head">>
    <2> SUFFICES ASSUME NEW r \in theirs
                 PROVE  /\ r[1] \in 1..m /\ r = <<r[1], r[2]>> 
                        /\ f[r[1]] = <<AlertOf(f, r), "head">>
      OBVIOUS
    <2>1. r \in Lines(f, 1, m) /\ IsJson(f, r) /\ 1 \in Nat
      BY <1>2, <1>5, <1>6
    <2>2. /\ r[1] \in Nat /\ r[2] \in Nat /\ r = <<r[1], r[2]>>
          /\ 1 <= r[1] /\ r[1] <= r[2] /\ r[2] <= m
      BY <2>1, InLines
    <2>3. f[r[1]] = <<AlertOf(f, r), "head">>
      BY <2>1, <2>2, JsonParts
    <2>4. r[1] \in 1..m
      BY <2>2
    <2> QED BY <2>2, <2>3, <2>4
  <1>8. PICK z \in theirs : AlertOf(f, z) = q[l]
    <2>1. l \in 1..Len(q)
      OBVIOUS
    <2> QED BY <1>4, <1>5, <2>1 DEF Lists
  <1>9. ASSUME NEW r \in theirs PROVE r[1] <= z[1]
    <2> SUFFICES ASSUME z[1] < r[1] PROVE FALSE
      BY <1>7
    <2>1. AlertOf(f, z) < AlertOf(f, r)
      <3>1. /\ f[z[1]] = <<AlertOf(f, z), "head">>
            /\ f[r[1]] = <<AlertOf(f, r), "head">>
            /\ z[1] \in 1..m /\ r[1] \in 1..m
        BY <1>7
      <3>2. f[z[1]][1] < f[r[1]][1]
        BY <1>6, <3>1 DEF Ascending
      <3> QED BY <3>1, <3>2
    <2>2. PICK i \in 1..Len(q) : q[i] = AlertOf(f, r)
      BY <1>4, <1>5 DEF Lists
    <2>3. i < l \/ i = l
      OBVIOUS
    <2>4. q[i] \in Nat /\ q[l] \in Nat /\ (i < l => q[i] < q[l])
      <3>1. l \in 1..Len(q)
        OBVIOUS
      <3>2. /\ q \in Seq(1..n)
            /\ \A j, k \in 1..Len(q) : j < k => q[j] < q[k]
        BY <1>4 DEF Lists
      <3> QED BY <3>1, <3>2
    <2> QED BY <1>8, <2>1, <2>2, <2>3, <2>4
  <1>10. PICK x \in theirs : /\ x = CHOOSE r \in theirs : 
                                      \A k \in theirs : k[1] <= r[1]
                            /\ \A k \in theirs : k[1] <= x[1]
    BY <1>9
  <1>11. AlertOf(f, x) = AlertOf(f, z)
    <2>1. x[1] = z[1]
      <3>1. x[1] <= z[1] /\ z[1] <= x[1] /\ x[1] \in Nat /\ z[1] \in Nat
        BY <1>7, <1>9, <1>10
      <3> QED BY <3>1
    <2> QED BY <2>1 DEF AlertOf
  <1>12. Latest(s) = AlertOf(f, x)
    BY <1>1, <1>2, <1>10 DEF Latest
  <1> QED BY <1>8, <1>11, <1>12

\* The last row of a report and the roster's alert are the last of the list.
LEMMA LastShown == 
  ASSUME AInv, NEW s \in Student, NEW q, NEW n \in Nat, q = AlertsFor(s),
         q \in Seq(1..n), q # <<>>
  PROVE  /\ Len(q) \in Nat /\ Len(q) > 0 /\ Latest(s) = q[Len(q)]
         /\ Last(ReportMd(s)) = q[Len(q)]
  <1>1. PICK l \in Nat : l = Len(q) /\ l > 0
    BY EmptySeq
  <1>2. Latest(s) = q[l]
    BY <1>1, RosterShows
  <1>3. PICK b \in 1..l : b = IF l > ReportRows THEN l - ReportRows + 1 ELSE 1
    <2>1. ReportRows \in Nat /\ ReportRows > 0
      BY SizesAssumption
    <2>2. 1 \in 1..l /\ (l > ReportRows => l - ReportRows + 1 \in 1..l)
      BY <1>1, <2>1
    <2> QED BY <2>2
  <1>4. PICK z : z = SubSeq(q, b, l)
    OBVIOUS
  <1>5. /\ z \in Seq(1..n) /\ Len(z) = l - b + 1 
        /\ \A i \in 1..l - b + 1 : z[i] = q[b + i - 1]
    <2>1. \A i \in b..l : q[i] \in 1..n
      BY <1>1
    <2> QED BY <1>1, <1>4, <2>1, SubSeqProperties, SMTT(30)
  <1>6. z[Len(z)] = q[l]
    <2>1. PICK i \in 1..l - b + 1 : i = l - b + 1 /\ b + i - 1 = l
      <3>1. l - b + 1 \in 1..l - b + 1 /\ b + (l - b + 1) - 1 = l
        BY <1>1
      <3> QED BY <3>1
    <2> QED BY <1>5, <2>1
  <1>7. ReportMd(s) = z
    BY <1>1, <1>3, <1>4 DEF ReportMd, LastOf
  <1> QED BY <1>1, <1>2, <1>6, <1>7 DEF Last

LEMMA ReportsCurrent == AInv => ReadsCurrent
  <1> SUFFICES ASSUME AInv, NEW s \in Student, NEW q, q = AlertsFor(s)
               PROVE  /\ \A i, j \in 1..Len(q) : i < j => q[i] < q[j]
                      /\ {q[i] : i \in 1..Len(q)} \ Spoilt = Sound(s)
                      /\ q # <<>> => Last(ReportMd(s)) = Latest(s)
                      /\ \A a \in Sound(s) : a <= Latest(s)
    BY DEF ReadsCurrent
  <1>1. PICK n \in Nat : q \in Seq(1..n)
    BY ReportSound
  <1>2. /\ \A i, j \in 1..Len(q) : i < j => q[i] < q[j]
        /\ {q[i] : i \in 1..Len(q)} \ Spoilt = Sound(s)
    BY ReportSound
  <1>3. q # <<>> => Last(ReportMd(s)) = Latest(s)
    BY <1>1, LastShown
  <1>4. ASSUME NEW a \in Sound(s)
        PROVE  a <= Latest(s)
    <2>1. PICK i \in 1..Len(q) : q[i] = a
      BY <1>2
    <2>2. q # <<>>
      BY <2>1
    <2>3. Len(q) \in Nat /\ Latest(s) = q[Len(q)]
      BY <1>1, <2>2, LastShown
    <2>4. i < Len(q) \/ i = Len(q)
      BY <2>3
    <2>5. Len(q) \in 1..Len(q) /\ q[i] \in Nat /\ q[Len(q)] \in Nat
      BY <1>1, <2>1, <2>3
    <2> QED BY <1>2, <2>1, <2>3, <2>4, <2>5
  <1> QED BY <1>2, <1>3, <1>4

-----------------------------------------------------------------------------
(* Theorems.                                                               *)

\* Type correctness: a stream's position is inside its file, through sweeps,
\* restarts and files that lost their name.
THEOREM AlertTypes == Spec => []TypeOK
  <1>1. AInv => TypeOK
    BY DEF AInv
  <1> QED BY <1>1, Invariant, PTL

\* An alert stream sends no alert twice nor out of order, all of one file, and
\* misses none it has passed but one that it met half written.
THEOREM TailCorrect == Spec => []TailExact
  BY TailsExact, Invariant, PTL

\* What the reports list is what the engine has written to the file that is
\* there now, in order, and the roster shows the newest of it; only an alert
\* that a crash cut, and the one written behind it, may be missing.
THEOREM ReadersCorrect == Spec => []ReadsCurrent
  BY ReportsCurrent, Invariant, PTL

=============================================================================
