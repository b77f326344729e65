--------------------------- MODULE RunListsProofs ---------------------------
(***************************************************************************)
(* Proofs about RunLists, for any set of runs and any page size.           *)
(***************************************************************************)
EXTENDS RunLists, FoldFacts, SequenceTheorems

\* The rows of a list that come before a row, and how many they are.
before(rows, r) == {x \in rows : Precedes(x, r)}
rank(rows, r) == Cardinality(before(rows, r))

\* ORDER BY created_at DESC, id is a strict total order.
LEMMA TotalOrder ==
  ASSUME NEW a \in Runs, NEW b \in Runs
  PROVE  /\ ~Precedes(a, a)
         /\ a # b => Precedes(a, b) \/ Precedes(b, a)
         /\ Precedes(a, b) => ~Precedes(b, a)
BY ListsAssumption DEF Precedes

\* An order of a set of rows lists each of them once.
LEMMA OrderListsAll ==
  ASSUME NEW rows \in SUBSET Runs, NEW s \in Orders(rows)
  PROVE  /\ IsFiniteSet(rows) /\ Cardinality(rows) \in Nat
         /\ s \in [1..Cardinality(rows) -> rows]
         /\ s \in Seq(Runs) /\ Len(s) = Cardinality(rows)
         /\ \A i, j \in 1..Len(s) : i # j => s[i] # s[j]
         /\ \A i, j \in 1..Len(s) : i < j => ~Precedes(s[j], s[i])
         /\ \A r \in rows : \E i \in 1..Len(s) : s[i] = r
<1> DEFINE n == Cardinality(rows)
<1>1. IsFiniteSet(rows) /\ n \in Nat
  BY ListsAssumption, FS_Subset, FS_CardinalityType
<1>2. /\ s \in [1..n -> rows]
      /\ \A i, j \in 1..n : i # j => s[i] # s[j]
      /\ \A i, j \in 1..Len(s) : i < j => ~Precedes(s[j], s[i])
  BY DEF Orders, SetToSeqs
<1>3. s \in Seq(Runs) /\ Len(s) = n
  BY <1>1, <1>2
<1>4. s \in Injection(1..n, rows)
  BY <1>2 DEF Injection, IsInjective
<1>5. Cardinality(1..n) = n
  BY <1>1, FS_Interval
<1>6. s \in Surjection(1..n, rows)
  BY <1>1, <1>4, <1>5, FS_Injection
<1> QED BY <1>1, <1>2, <1>3, <1>6 DEF Surjection

\* The row at position i has i - 1 rows before it.
LEMMA RankIsPosition ==
  ASSUME NEW rows \in SUBSET Runs, NEW s \in Orders(rows), NEW i \in 1..Len(s)
  PROVE  s[i] \in rows /\ rank(rows, s[i]) = i - 1
<1> DEFINE f == [k \in 1..(i - 1) |-> s[k]]
           B == before(rows, s[i])
<1>0. /\ s \in [1..Len(s) -> rows] /\ Len(s) \in Nat
      /\ \A a, b \in 1..Len(s) : a # b => s[a] # s[b]
      /\ \A a, b \in 1..Len(s) : a < b => ~Precedes(s[b], s[a])
      /\ \A r \in rows : \E a \in 1..Len(s) : s[a] = r
  BY OrderListsAll
<1>1. ASSUME NEW k \in 1..(i - 1) PROVE s[k] \in B
  <2>1. k \in 1..Len(s) /\ k < i
    BY <1>0
  <2>2. s[k] \in rows /\ s[i] \in rows /\ s[k] # s[i] /\ ~Precedes(s[i], s[k])
    BY <1>0, <2>1
  <2>3. Precedes(s[k], s[i])
    BY <2>2, TotalOrder
  <2> QED BY <2>2, <2>3 DEF before
<1>2. ASSUME NEW r \in B PROVE \E k \in 1..(i - 1) : s[k] = r
  <2>1. r \in rows /\ Precedes(r, s[i])
    BY DEF before
  <2>2. PICK k \in 1..Len(s) : s[k] = r
    BY <1>0, <2>1
  <2>3. k # i
    BY <2>1, <2>2, TotalOrder
  <2>4. ~(i < k)
    BY <1>0, <2>1, <2>2
  <2> QED BY <2>2, <2>3, <2>4, <1>0
<1>3. f \in Bijection(1..(i - 1), B)
  <2>1. f \in [1..(i - 1) -> B]
    BY <1>1
  <2>2. \A a, b \in 1..(i - 1) : f[a] = f[b] => a = b
    BY <1>0
  <2>3. \A r \in B : \E k \in 1..(i - 1) : f[k] = r
    BY <1>2
  <2> HIDE DEF f, B
  <2> QED BY <2>1, <2>2, <2>3 DEF Bijection, Injection, Surjection, IsInjective
<1>4. ExistsBijection(1..(i - 1), B)
  BY <1>3 DEF ExistsBijection
<1>5. i - 1 \in Nat
  BY <1>0
<1>6. Cardinality(B) = i - 1
  BY <1>4, <1>5, FS_CountingElements
<1> QED BY <1>0, <1>6 DEF rank

\* A set of rows has one order.
LEMMA OrderUnique ==
  ASSUME NEW rows \in SUBSET Runs, NEW s \in Orders(rows), NEW t \in Orders(rows)
  PROVE  s = t
<1>1. /\ s \in [1..Cardinality(rows) -> rows] /\ t \in [1..Cardinality(rows) -> rows]
      /\ Len(s) = Cardinality(rows) /\ Len(t) = Cardinality(rows) /\ Cardinality(rows) \in Nat
      /\ \A r \in rows : \E i \in 1..Len(t) : t[i] = r
  BY OrderListsAll
<1>2. ASSUME NEW i \in 1..Cardinality(rows) PROVE s[i] = t[i]
  <2>1. s[i] \in rows /\ rank(rows, s[i]) = i - 1
    BY <1>1, RankIsPosition
  <2>2. PICK j \in 1..Len(t) : t[j] = s[i]
    BY <1>1, <2>1
  <2>3. rank(rows, t[j]) = j - 1
    BY RankIsPosition
  <2>4. i = j
    BY <1>1, <2>1, <2>2, <2>3
  <2> QED BY <2>2, <2>4
<1> QED BY <1>1, <1>2

\* Rows with the same rank are the same; a rank is less than the number of rows.
LEMMA RankFacts ==
  ASSUME NEW rows \in SUBSET Runs, NEW s \in Orders(rows)
  PROVE  /\ \A r \in rows : /\ rank(rows, r) \in 0..(Cardinality(rows) - 1)
                            /\ s[rank(rows, r) + 1] = r
<1> SUFFICES ASSUME NEW r \in rows
             PROVE  rank(rows, r) \in 0..(Cardinality(rows) - 1) /\ s[rank(rows, r) + 1] = r
  OBVIOUS
<1>1. Cardinality(rows) \in Nat /\ Len(s) = Cardinality(rows)
  BY OrderListsAll
<1>2. PICK i \in 1..Len(s) : s[i] = r
  BY OrderListsAll
<1>3. rank(rows, s[i]) = i - 1
  BY RankIsPosition
<1> QED BY <1>1, <1>2, <1>3

\* Rows that enter a list move the others only towards its end.
LEMMA RankGrows ==
  ASSUME NEW rows \in SUBSET Runs, NEW more \in SUBSET Runs, rows \subseteq more,
         NEW r \in rows
  PROVE  rank(rows, r) \in Nat /\ rank(more, r) \in Nat /\ rank(rows, r) <= rank(more, r)
<1>1. IsFiniteSet(before(more, r))
  BY ListsAssumption, FS_Subset DEF before
<1>2. before(rows, r) \in SUBSET before(more, r)
  BY DEF before
<1> QED BY <1>1, <1>2, FS_Subset, FS_CardinalityType DEF rank

-----------------------------------------------------------------------------
(***************************************************************************)
(* Pages.                                                                  *)
(***************************************************************************)

\* Page after page, the offset moves on by the size of a page.
LEMMA OffsetFacts ==
  ASSUME NEW page \in Nat \ {0}
  PROVE  /\ Offset(page) \in Nat /\ Offset(1) = 0
         /\ Offset(page + 1) = Offset(page) + PageSize
         /\ Offset(page) + PageSize = page * PageSize
BY ListsAssumption DEF Offset

\* Behind the last page there is no row of those counted.
LEMMA LastPage ==
  ASSUME NEW page \in Nat \ {0}, NEW total \in Nat, ~(page < Pages(total))
  PROVE  total <= Offset(page) + PageSize
<1> DEFINE q == Pages(total)
<1>1. q \in Int /\ PageSize \in Nat \ {0} /\ total + PageSize - 1 < PageSize * q + PageSize
  BY ListsAssumption DEF Pages
<1>2. q <= page
  BY <1>1
<1>3. Offset(page) + PageSize = page * PageSize
  BY OffsetFacts
<1> HIDE DEF q
<1>4. PageSize * q <= page * PageSize
  BY <1>1, <1>2
<1>5. PageSize * q \in Int /\ page * PageSize \in Int
  BY <1>1
<1> QED BY <1>1, <1>3, <1>4, <1>5

\* The rows up to position k.
upTo(s, k) == SubSeq(s, 1, IF Len(s) < k THEN Len(s) ELSE k)

\* A page holds the rows of its positions, and no more than page_size.
LEMMA PageRows ==
  ASSUME NEW s \in Seq(Runs), NEW page \in Nat \ {0}
  PROVE  /\ Page(s, page) \in Seq(Runs) /\ Len(Page(s, page)) <= PageSize
         /\ \A i \in 1..Len(s) :
              Offset(page) < i /\ i <= Offset(page) + PageSize => s[i] \in ToSet(Page(s, page))
<1> DEFINE o == Offset(page)
           e == IF Len(s) < o + PageSize THEN Len(s) ELSE o + PageSize
           p == SubSeq(s, o + 1, e)
<1>0. o \in Nat
  BY OffsetFacts
<1>1. o \in Nat /\ PageSize \in Nat \ {0} /\ Len(s) \in Nat
  BY <1>0, ListsAssumption
<1>2. p = Page(s, page)
  BY Zenon DEF Page
<1> HIDE DEF o
<1>3. p \in Seq(Runs) /\ Len(p) <= PageSize
  BY <1>1
<1>4. ASSUME NEW i \in 1..Len(s), o < i, i <= o + PageSize PROVE s[i] \in ToSet(p)
  <2>1. i - o \in 1..Len(p) /\ p[i - o] = s[i]
    BY <1>1, <1>4
  <2> QED BY <2>1, <1>3 DEF ToSet
<1> QED BY <1>2, <1>3, <1>4 DEF o

\* What is appended to a sequence adds its rows.
LEMMA Appended ==
  ASSUME NEW g \in Seq(Runs), NEW p \in Seq(Runs)
  PROVE  /\ g \o p \in Seq(Runs) /\ Len(g \o p) = Len(g) + Len(p)
         /\ Len(g) \in Nat /\ Len(p) \in Nat
         /\ ToSet(g) \cup ToSet(p) \subseteq ToSet(g \o p)
<1>1. /\ g \o p \in Seq(Runs) /\ Len(g \o p) = Len(g) + Len(p)
      /\ Len(g) \in Nat /\ Len(p) \in Nat
  OBVIOUS
<1>2. ASSUME NEW i \in 1..Len(g) PROVE g[i] \in ToSet(g \o p)
  <2>1. i \in 1..Len(g \o p) /\ (g \o p)[i] = g[i]
    BY <1>1
  <2> QED BY <1>1, <2>1 DEF ToSet
<1>3. ASSUME NEW i \in 1..Len(p) PROVE p[i] \in ToSet(g \o p)
  <2>1. i + Len(g) \in 1..Len(g \o p) /\ (g \o p)[i + Len(g)] = p[i]
    BY <1>1
  <2> QED BY <1>1, <2>1 DEF ToSet
<1>4. DOMAIN g = 1..Len(g) /\ DOMAIN p = 1..Len(p)
  OBVIOUS
<1>5. ToSet(g) \subseteq ToSet(g \o p) /\ ToSet(p) \subseteq ToSet(g \o p)
  BY <1>2, <1>3, <1>4, Zenon DEF ToSet
<1> QED BY <1>1, <1>5

\* A page of k offsets has k of them.
LEMMA IntervalSize ==
  ASSUME NEW a \in Nat, NEW k \in Nat
  PROVE  IsFiniteSet(a..(a + k - 1)) /\ Cardinality(a..(a + k - 1)) = k
<1>1. a + k - 1 \in Int /\ a \in Int
  OBVIOUS
<1> DEFINE b == a + k - 1
<1>2. IsFiniteSet(a..b) /\ Cardinality(a..b) = IF a > b THEN 0 ELSE b - a + 1
  <2> HIDE DEF b
  <2> QED BY <1>1, FS_Interval DEF b
<1> QED BY <1>2

\* A page continues the rows of the pages before it.
LEMMA PageContinues ==
  ASSUME NEW s \in Seq(Runs), NEW page \in Nat \ {0}
  PROVE  upTo(s, Offset(page)) \o Page(s, page) = upTo(s, Offset(page) + PageSize)
<1> DEFINE o == Offset(page)
           e == IF Len(s) < o + PageSize THEN Len(s) ELSE o + PageSize
<1>0. o \in Nat
  BY OffsetFacts
<1>1. o \in Nat /\ PageSize \in Nat \ {0} /\ Len(s) \in Nat
  BY <1>0, ListsAssumption
<1>2. CASE Len(s) < o
  <2>1. Page(s, page) = << >>
    BY <1>1, <1>2 DEF Page
  <2>2. upTo(s, o) = SubSeq(s, 1, Len(s)) /\ upTo(s, o + PageSize) = SubSeq(s, 1, Len(s))
    BY <1>1, <1>2 DEF upTo
  <2> QED BY <2>1, <2>2
<1>3. CASE ~(Len(s) < o)
  <2>1. upTo(s, o) = SubSeq(s, 1, o) /\ Page(s, page) = SubSeq(s, o + 1, e)
    BY <1>1, <1>3 DEF upTo, Page
  <2>2. upTo(s, o + PageSize) = SubSeq(s, 1, e)
    BY DEF upTo
  <2>3. o \in 0..Len(s) /\ e \in o..Len(s)
    BY <1>1, <1>3
  <2> HIDE DEF o, e
  <2>4. SubSeq(s, 1, o) \o SubSeq(s, o + 1, e) = SubSeq(s, 1, e)
    BY <1>1, <2>3, ConcatAdjacentSubSeq
  <2> QED BY <2>1, <2>2, <2>4 DEF o
<1> QED BY <1>2, <1>3

-----------------------------------------------------------------------------
(***************************************************************************)
(* The invariant.                                                          *)
(***************************************************************************)

walking == walk.phase \in {"asking", "counted"}
list == Listed(walk.filter)

\* Runs that may still enter a list: status only moves on, so once only.
yetToEnter ==
  {r \in Runs : status[r] = "NONE" \/ (walk.filter = "SUCCEEDED" /\ status[r] = "RUNNING")}

\* Between two pages a walk has no more than what the offset says, and rows
\* that came late are rows that cannot come again.
Bounded ==
  walking => /\ Len(walk.got) <= Offset(walk.page)
             /\ walk.late + Cardinality(yetToEnter) <= Cardinality(Runs)

\* While nothing enters or leaves, the user has a prefix of the one order.
CalmSound ==
  walk.calm =>
    /\ walking => /\ walk.still = list
                  /\ \A s \in Orders(list) : walk.got = upTo(s, Offset(walk.page))
    /\ walk.phase = "counted" => walk.total = Cardinality(list)
    /\ walk.phase = "done" => walk.got \in Orders(walk.still)

\* While nothing leaves, the rows of the pages seen are seen, and what was not
\* counted came late.
EnterSound ==
  ~walk.left =>
    /\ walking => /\ walk.still \subseteq list
                  /\ \A r \in walk.still :
                       rank(list, r) < Offset(walk.page) => r \in ToSet(walk.got)
    /\ walk.phase = "counted" => Cardinality(list) <= walk.total + walk.late
    /\ walk.phase = "done" => Cardinality(walk.still \ ToSet(walk.got)) <= walk.late

ListsIInv == ListsTypeOK /\ Bounded /\ CalmSound /\ EnterSound

-----------------------------------------------------------------------------
(***************************************************************************)
(* A change of a run's status.                                             *)
(***************************************************************************)

Moves(r, new) == \/ status[r] = "NONE" /\ new = "RUNNING"
                 \/ status[r] = "RUNNING" /\ new = "SUCCEEDED"

Enters(r, new) == walk.filter \in {"ALL", new} /\ ~Matches(r, walk.filter)
Leaves(r, new) == Matches(r, walk.filter) /\ walk.filter \notin {"ALL", new}

\* What it does to the walk's record and to the list.
LEMMA ChangeFacts ==
  ASSUME ListsTypeOK, NEW r \in Runs, NEW new, Moves(r, new), Change(r, new)
  PROVE  /\ status' \in [Runs -> {"NONE", "RUNNING", "SUCCEEDED"}]
         /\ ~walking => walk' = walk
         /\ walking =>
              walk' = [walk EXCEPT
                         !.calm = walk.calm /\ ~Enters(r, new) /\ ~Leaves(r, new),
                         !.left = walk.left \/ Leaves(r, new),
                         !.still = IF Leaves(r, new) THEN walk.still \ {r} ELSE walk.still,
                         !.late = IF Enters(r, new) /\ walk.phase = "counted"
                                  THEN walk.late + 1 ELSE walk.late]
         /\ Enters(r, new) => r \notin list /\ list' = list \cup {r}
         /\ ~Enters(r, new) /\ ~Leaves(r, new) => list' = list
         /\ yetToEnter' \subseteq yetToEnter
         /\ Enters(r, new) => r \in yetToEnter \ yetToEnter'
<1>1. status' = [status EXCEPT ![r] = new] /\ new \in {"RUNNING", "SUCCEEDED"}
  BY DEF Change, Moves
<1>2. status \in [Runs -> {"NONE", "RUNNING", "SUCCEEDED"}] /\ walk.filter \in Filters
  BY DEF ListsTypeOK
<1>3. walk'.filter = walk.filter
  BY DEF Change, ListsTypeOK
<1>4. /\ ~walking => walk' = walk
      /\ walking =>
           walk' = [walk EXCEPT
                      !.calm = walk.calm /\ ~Enters(r, new) /\ ~Leaves(r, new),
                      !.left = walk.left \/ Leaves(r, new),
                      !.still = IF Leaves(r, new) THEN walk.still \ {r} ELSE walk.still,
                      !.late = IF Enters(r, new) /\ walk.phase = "counted"
                               THEN walk.late + 1 ELSE walk.late]
  BY DEF Change, Enters, Leaves, walking
<1>5. /\ list = {x \in Runs : status[x] # "NONE" /\ walk.filter \in {"ALL", status[x]}}
      /\ list' = {x \in Runs : status'[x] # "NONE" /\ walk.filter \in {"ALL", status'[x]}}
  BY <1>3 DEF list, Listed, Matches
<1>6. /\ Enters(r, new) => r \notin list /\ list' = list \cup {r}
      /\ ~Enters(r, new) /\ ~Leaves(r, new) => list' = list
  BY <1>1, <1>2, <1>5 DEF Enters, Leaves, Matches
<1>7. /\ yetToEnter' \subseteq yetToEnter
      /\ Enters(r, new) => r \in yetToEnter \ yetToEnter'
  BY <1>1, <1>2, <1>3 DEF yetToEnter, Enters, Matches, Moves, Filters
<1> QED BY <1>1, <1>2, <1>4, <1>6, <1>7

\* The lists are finite, and the runs still to enter as well.
LEMMA ListsFinite ==
  /\ list \in SUBSET Runs /\ IsFiniteSet(list) /\ Cardinality(list) \in 0..Cardinality(Runs)
  /\ yetToEnter \in SUBSET Runs /\ IsFiniteSet(yetToEnter)
  /\ Cardinality(yetToEnter) \in 0..Cardinality(Runs) /\ Cardinality(Runs) \in Nat
<1>1. IsFiniteSet(Runs)
  BY ListsAssumption
<1>2. list \in SUBSET Runs /\ yetToEnter \in SUBSET Runs
  BY DEF list, Listed, yetToEnter
<1> HIDE DEF list, yetToEnter
<1>3. \A S \in SUBSET Runs : IsFiniteSet(S) /\ Cardinality(S) \in 0..Cardinality(Runs)
  BY <1>1, FS_Subset, FS_CardinalityType
<1>4. Cardinality(Runs) \in Nat
  BY <1>1, FS_CardinalityType
<1> QED BY <1>2, <1>3, <1>4

\* The steps of the status keep the invariant.
LEMMA ChangeKeeps ==
  ASSUME ListsIInv, NEW r \in Runs, NEW new, Moves(r, new), Change(r, new)
  PROVE  ListsIInv'
<1> USE DEF ListsIInv
<1> DEFINE n == Cardinality(Runs)
<1>0. ListsTypeOK /\ Bounded /\ CalmSound /\ EnterSound
  OBVIOUS
<1>1. /\ status' \in [Runs -> {"NONE", "RUNNING", "SUCCEEDED"}]
      /\ ~walking => walk' = walk
      /\ walking =>
           walk' = [walk EXCEPT
                      !.calm = walk.calm /\ ~Enters(r, new) /\ ~Leaves(r, new),
                      !.left = walk.left \/ Leaves(r, new),
                      !.still = IF Leaves(r, new) THEN walk.still \ {r} ELSE walk.still,
                      !.late = IF Enters(r, new) /\ walk.phase = "counted"
                               THEN walk.late + 1 ELSE walk.late]
      /\ Enters(r, new) => r \notin list /\ list' = list \cup {r}
      /\ ~Enters(r, new) /\ ~Leaves(r, new) => list' = list
      /\ yetToEnter' \subseteq yetToEnter
      /\ Enters(r, new) => r \in yetToEnter \ yetToEnter'
  BY ChangeFacts
<1>2. CASE ~walking
  <2>1. walk' = walk
    BY <1>1, <1>2
  <2>2. ~walking'
    BY <1>2, <2>1 DEF walking
  <2>3. walk.phase # "counted"
    BY <1>2 DEF walking
  <2>4. ListsTypeOK' /\ Bounded'
    BY <1>1, <2>1, <2>2 DEF ListsTypeOK, Bounded
  <2>5. CalmSound'
    BY <2>1, <2>2, <2>3 DEF CalmSound
  <2>6. EnterSound'
    BY <2>1, <2>2, <2>3 DEF EnterSound
  <2> QED BY <2>4, <2>5, <2>6
<1>3. CASE walking
  <2>1. walk' = [walk EXCEPT
                      !.calm = walk.calm /\ ~Enters(r, new) /\ ~Leaves(r, new),
                      !.left = walk.left \/ Leaves(r, new),
                      !.still = IF Leaves(r, new) THEN walk.still \ {r} ELSE walk.still,
                      !.late = IF Enters(r, new) /\ walk.phase = "counted"
                               THEN walk.late + 1 ELSE walk.late]
    BY <1>1, <1>3
  <2>2. walk \in [filter : Filters, page : Nat \ {0},
                   phase : {"idle", "asking", "counted", "done"},
                   total : 0..n, got : Seq(Runs), still : SUBSET Runs,
                   calm : BOOLEAN, left : BOOLEAN, late : 0..n]
    BY DEF ListsTypeOK
  <2>3. /\ walk'.phase = walk.phase /\ walk'.got = walk.got /\ walk'.page = walk.page
        /\ walk'.total = walk.total /\ walk'.filter = walk.filter
        /\ walk'.calm = (walk.calm /\ ~Enters(r, new) /\ ~Leaves(r, new))
        /\ walk'.left = (walk.left \/ Leaves(r, new))
        /\ walk'.still = (IF Leaves(r, new) THEN walk.still \ {r} ELSE walk.still)
        /\ walk'.late = (IF Enters(r, new) /\ walk.phase = "counted"
                         THEN walk.late + 1 ELSE walk.late)
    BY <2>1, <2>2
  <2>4. walking' /\ walk.phase # "done"
    BY <1>3, <2>3 DEF walking
  <2>5. Cardinality(yetToEnter') \in Nat /\ n \in Nat
        /\ walk'.late + Cardinality(yetToEnter') <= n /\ walk'.late \in 0..n
    <3>1. walk.late \in Nat /\ walk.late + Cardinality(yetToEnter) <= n
      BY <1>3, <2>2 DEF Bounded
    <3>2. IsFiniteSet(yetToEnter) /\ Cardinality(yetToEnter) \in Nat /\ n \in Nat
      BY ListsFinite
    <3>3. CASE Enters(r, new)
      <4>1. yetToEnter' \in SUBSET (yetToEnter \ {r})
        BY <1>1, <3>3
      <4>2. /\ IsFiniteSet(yetToEnter \ {r})
            /\ Cardinality(yetToEnter \ {r}) = Cardinality(yetToEnter) - 1
        BY <1>1, <3>2, <3>3, FS_RemoveElement
      <4>3. /\ Cardinality(yetToEnter') <= Cardinality(yetToEnter) - 1
            /\ IsFiniteSet(yetToEnter')
        BY <4>1, <4>2, FS_Subset
      <4>4. Cardinality(yetToEnter') \in Nat
        BY <4>3, FS_CardinalityType
      <4> QED BY <2>3, <3>1, <3>2, <4>3, <4>4
    <3>4. CASE ~Enters(r, new)
      <4>1. Cardinality(yetToEnter') <= Cardinality(yetToEnter) /\ IsFiniteSet(yetToEnter')
        BY <1>1, <3>2, FS_Subset
      <4>2. Cardinality(yetToEnter') \in Nat
        BY <4>1, FS_CardinalityType
      <4> QED BY <2>3, <3>1, <3>2, <3>4, <4>1, <4>2
    <3> QED BY <3>3, <3>4
  <2>6. ListsTypeOK'
    <3>1. walk' \in [filter : Filters, page : Nat \ {0},
                   phase : {"idle", "asking", "counted", "done"},
                   total : 0..n, got : Seq(Runs), still : SUBSET Runs,
                   calm : BOOLEAN, left : BOOLEAN, late : 0..n]
      <4>1. walk'.calm \in BOOLEAN /\ walk'.left \in BOOLEAN
        BY <2>3, Zenon
      <4>2. walk'.late \in 0..n
        BY <2>5
      <4> HIDE DEF n
      <4> QED BY <2>1, <2>2, <4>1, <4>2
    <3> QED BY <1>1, <2>3, <3>1 DEF ListsTypeOK
  <2>7. Bounded'
    BY <1>3, <2>3, <2>5 DEF Bounded, Offset
  <2>8. CalmSound'
    <3> SUFFICES ASSUME walk'.calm PROVE CalmSound'
      BY DEF CalmSound
    <3>1. walk.calm /\ ~Enters(r, new) /\ ~Leaves(r, new)
      BY <2>3
    <3>2. list' = list /\ walk'.still = walk.still
      BY <1>1, <2>3, <3>1
    <3> QED BY <1>3, <2>3, <2>4, <3>1, <3>2 DEF CalmSound, upTo, Offset, Orders, Precedes
  <2>9. EnterSound'
    <3> SUFFICES ASSUME ~walk'.left PROVE EnterSound'
      BY DEF EnterSound
    <3>1. ~walk.left /\ ~Leaves(r, new) /\ walk'.still = walk.still
      BY <2>3
    <3>2. list \subseteq list' /\ list \in SUBSET Runs /\ list' \in SUBSET Runs
      <4>1. list \in SUBSET Runs
        BY ListsFinite
      <4> QED BY <1>1, <3>1, <4>1
    <3>3. walk.still \subseteq list
      BY <1>3, <3>1 DEF EnterSound
    <3>4. ASSUME NEW x \in walk.still, rank(list', x) < Offset(walk.page)
          PROVE  x \in ToSet(walk.got)
      <4>1. rank(list, x) \in Nat /\ rank(list', x) \in Nat /\ rank(list, x) <= rank(list', x)
        BY <3>2, <3>3, RankGrows
      <4>2. Offset(walk.page) \in Nat
        BY <2>2, OffsetFacts
      <4>3. rank(list, x) < Offset(walk.page)
        BY <3>4, <4>1, <4>2
      <4> QED BY <1>3, <3>1, <4>3 DEF EnterSound
    <3>5. walk.phase = "counted" => Cardinality(list') <= walk'.total + walk'.late
      <4> SUFFICES ASSUME walk.phase = "counted"
                   PROVE  Cardinality(list') <= walk'.total + walk'.late
        OBVIOUS
      <4>1. Cardinality(list) <= walk.total + walk.late
        BY <3>1 DEF EnterSound
      <4>2. IsFiniteSet(list) /\ Cardinality(list) \in Nat
        BY ListsFinite
      <4>3. walk.total \in Nat /\ walk.late \in Nat
        BY <2>2
      <4>4. CASE Enters(r, new)
        <5>1. Cardinality(list') = Cardinality(list) + 1
          BY <1>1, <4>2, <4>4, FS_AddElement
        <5> QED BY <2>3, <4>1, <4>2, <4>3, <4>4, <5>1
      <4>5. CASE ~Enters(r, new)
        BY <1>1, <2>3, <3>1, <4>1, <4>5
      <4> QED BY <4>4, <4>5
    <3>6. \A x \in walk'.still :
            (rank(list, x) < Offset(walk.page))' => x \in ToSet(walk'.got)
      BY <2>3, <3>1, <3>4 DEF rank, before, Offset, Precedes
    <3> QED BY <2>3, <2>4, <3>1, <3>2, <3>3, <3>5, <3>6 DEF EnterSound
  <2> QED BY <2>6, <2>7, <2>8, <2>9
<1> QED BY <1>2, <1>3

-----------------------------------------------------------------------------
(***************************************************************************)
(* The steps of the walk.                                                  *)
(***************************************************************************)

\* A walk begins with nothing shown and every listed row still to come.
LEMMA OpenKeeps ==
  ASSUME ListsIInv, NEW f \in Filters, OpenList(f)
  PROVE  ListsIInv'
<1> USE DEF ListsIInv
<1>1. walk' = [NoWalk EXCEPT !.filter = f, !.phase = "asking", !.still = Listed(f)]
  BY DEF OpenList
<1>2. /\ walk'.filter = f /\ walk'.phase = "asking" /\ walk'.still = Listed(f)
      /\ walk'.page = 1 /\ walk'.got = << >> /\ walk'.late = 0 /\ walk'.total = 0
      /\ walk'.calm = TRUE /\ walk'.left = FALSE
  BY <1>1 DEF NoWalk
<1>3. status' = status
  BY DEF OpenList
<1>4. list' = Listed(f) /\ Listed(f) \in SUBSET Runs
  BY <1>2, <1>3 DEF list, Listed, Matches
<1>5. Cardinality(Runs) \in Nat /\ Offset(1) = 0 /\ PageSize \in Nat
  <2>1. Offset(1) = 0
    BY ListsAssumption DEF Offset
  <2> QED BY <2>1, ListsFinite, ListsAssumption
<1>6. ListsTypeOK'
  <2>1. walk' \in [filter : Filters, page : Nat \ {0},
                   phase : {"idle", "asking", "counted", "done"},
                   total : 0..Cardinality(Runs), got : Seq(Runs), still : SUBSET Runs,
                   calm : BOOLEAN, left : BOOLEAN, late : 0..Cardinality(Runs)]
    <3>1. << >> \in Seq(Runs) /\ 0 \in 0..Cardinality(Runs)
      BY <1>5
    <3>2. 1 \in Nat \ {0} /\ "asking" \in {"idle", "asking", "counted", "done"}
      OBVIOUS
    <3>3. walk' = [filter |-> f, page |-> 1, phase |-> "asking", total |-> 0, got |-> << >>,
                   still |-> Listed(f), calm |-> TRUE, left |-> FALSE, late |-> 0]
      BY <1>1 DEF NoWalk
    <3> QED BY <1>4, <3>1, <3>2, <3>3, Zenon
  <2>2. Len(walk'.got) <= walk'.page * PageSize
    BY <1>2, <1>5
  <2> QED BY <1>3, <2>1, <2>2 DEF ListsTypeOK
<1>7. Bounded'
  <2>1. Len(walk'.got) <= Offset(walk'.page)
    BY <1>2, <1>5
  <2>2. Cardinality(yetToEnter') <= Cardinality(Runs) /\ Cardinality(yetToEnter') \in Nat
    <3>1. yetToEnter' \in SUBSET Runs
      BY DEF yetToEnter
    <3> QED BY <3>1, ListsAssumption, FS_Subset, FS_CardinalityType
  <2>3. walk'.late + Cardinality(yetToEnter') <= Cardinality(Runs)
    BY <1>2, <2>2
  <2> QED BY <2>1, <2>3 DEF Bounded, Offset
<1>8. CalmSound'
  <2>1. ASSUME NEW s \in Orders(Listed(f)) PROVE upTo(s, 0) = << >>
    <3>1. s \in Seq(Runs)
      BY <1>4, OrderListsAll
    <3> QED BY <3>1 DEF upTo
  <2>2. \A s \in Orders(list)' : walk'.got = upTo(s, Offset(walk.page))'
    BY <1>2, <1>4, <1>5, <2>1 DEF Orders, Precedes, upTo, Offset
  <2> QED BY <1>2, <1>4, <2>2 DEF CalmSound
<1>9. EnterSound'
  <2>1. ASSUME NEW r \in Listed(f) PROVE ~(rank(Listed(f), r) < 0)
    BY <1>4, RankGrows
  <2>2. \A r \in walk'.still : ~(rank(list, r) < Offset(walk.page))'
    BY <1>2, <1>4, <1>5, <2>1 DEF rank, before, Precedes, Offset
  <2> QED BY <1>2, <1>4, <2>2 DEF EnterSound
<1> QED BY <1>6, <1>7, <1>8, <1>9

\* The count query changes nothing that has been shown.
LEMMA CountKeeps ==
  ASSUME ListsIInv, CountRows
  PROVE  ListsIInv'
<1> USE DEF ListsIInv
<1>1. /\ walk.phase = "asking" /\ status' = status
      /\ walk' = [walk EXCEPT !.phase = "counted", !.total = Cardinality(list), !.late = 0]
  BY DEF CountRows, list
<1>2. walk \in [filter : Filters, page : Nat \ {0},
                phase : {"idle", "asking", "counted", "done"},
                total : 0..Cardinality(Runs), got : Seq(Runs), still : SUBSET Runs,
                calm : BOOLEAN, left : BOOLEAN, late : 0..Cardinality(Runs)]
  BY DEF ListsTypeOK
<1>3. /\ walk'.filter = walk.filter /\ walk'.phase = "counted" /\ walk'.still = walk.still
      /\ walk'.page = walk.page /\ walk'.got = walk.got /\ walk'.late = 0
      /\ walk'.total = Cardinality(list) /\ walk'.calm = walk.calm /\ walk'.left = walk.left
  BY <1>1, <1>2
<1>4. list' = list /\ yetToEnter' = yetToEnter
  BY <1>1, <1>3 DEF list, Listed, Matches, yetToEnter
<1>5. walking /\ walking'
  BY <1>1, <1>3 DEF walking
<1>6. ListsTypeOK'
  <2>1. Cardinality(list) \in 0..Cardinality(Runs) /\ 0 \in 0..Cardinality(Runs)
    BY ListsFinite
  <2>2. walk' \in [filter : Filters, page : Nat \ {0},
                   phase : {"idle", "asking", "counted", "done"},
                   total : 0..Cardinality(Runs), got : Seq(Runs), still : SUBSET Runs,
                   calm : BOOLEAN, left : BOOLEAN, late : 0..Cardinality(Runs)]
    BY <1>1, <1>2, <2>1
  <2> QED BY <1>1, <1>3, <2>2 DEF ListsTypeOK
<1>7. Bounded'
  <2>1. Cardinality(yetToEnter) \in 0..Cardinality(Runs)
    BY ListsFinite
  <2> QED BY <1>3, <1>4, <1>5, <2>1 DEF Bounded, Offset
<1>8. CalmSound'
  BY <1>3, <1>4, <1>5 DEF CalmSound, Orders, Precedes, upTo, Offset
<1>9. EnterSound'
  <2>1. Cardinality(list) \in Nat
    BY ListsFinite
  <2> QED BY <1>3, <1>4, <1>5, <2>1 DEF EnterSound, rank, before, Precedes, Offset
<1> QED BY <1>6, <1>7, <1>8, <1>9

\* A page shows the rows whose ranks it covers: the earlier pages showed the
\* smaller ranks, and what was still to come and is not on it ranks higher.
LEMMA FetchKeeps ==
  ASSUME ListsIInv, FetchPage
  PROVE  ListsIInv'
<1> USE DEF ListsIInv
<1> DEFINE page == walk.page
           o == Offset(page)
           last == ~(page < Pages(walk.total))
<1>1. PICK s \in Orders(list) :
        walk' = [walk EXCEPT !.got = walk.got \o Page(s, page),
                             !.phase = IF page < Pages(walk.total) THEN "asking" ELSE "done",
                             !.page = IF page < Pages(walk.total) THEN page + 1 ELSE page]
  BY DEF FetchPage, list
<1>2. walk.phase = "counted" /\ status' = status
  BY DEF FetchPage
<1>3. walk \in [filter : Filters, page : Nat \ {0},
                phase : {"idle", "asking", "counted", "done"},
                total : 0..Cardinality(Runs), got : Seq(Runs), still : SUBSET Runs,
                calm : BOOLEAN, left : BOOLEAN, late : 0..Cardinality(Runs)]
  BY DEF ListsTypeOK
<1>4. /\ walk'.filter = walk.filter /\ walk'.still = walk.still /\ walk'.late = walk.late
      /\ walk'.total = walk.total /\ walk'.calm = walk.calm /\ walk'.left = walk.left
      /\ walk'.got = walk.got \o Page(s, page)
      /\ walk'.phase = (IF last THEN "done" ELSE "asking")
      /\ walk'.page = (IF last THEN page ELSE page + 1)
  BY <1>1, <1>3
<1>5. list' = list /\ yetToEnter' = yetToEnter /\ list \in SUBSET Runs
  BY <1>2, <1>4 DEF list, Listed, Matches, yetToEnter
<1>6. page \in Nat \ {0} /\ PageSize \in Nat \ {0} /\ walk.total \in Nat /\ walk.late \in Nat
  BY <1>3, ListsAssumption
<1>7. /\ o \in Nat /\ Offset(page + 1) = o + PageSize /\ o + PageSize = page * PageSize
      /\ last => walk.total <= o + PageSize
  BY <1>6, OffsetFacts, LastPage
<1>8. /\ s \in Seq(Runs) /\ Len(s) = Cardinality(list) /\ Cardinality(list) \in Nat
  BY <1>5, OrderListsAll
<1>9. /\ Page(s, page) \in Seq(Runs) /\ Len(Page(s, page)) <= PageSize
      /\ \A i \in 1..Len(s) : o < i /\ i <= o + PageSize => s[i] \in ToSet(Page(s, page))
  BY <1>6, <1>8, PageRows
<1>10. walking
  BY <1>2 DEF walking
<1>11. /\ walk'.got \in Seq(Runs) /\ Len(walk'.got) <= o + PageSize
       /\ \A r : r \in ToSet(walk.got) \/ r \in ToSet(Page(s, page)) => r \in ToSet(walk'.got)
  <2>1. walk.got \in Seq(Runs) /\ Len(walk.got) <= o /\ Len(walk.got) \in Nat
    BY <1>3, <1>10 DEF Bounded
  <2>2. /\ walk'.got \in Seq(Runs) /\ Len(walk'.got) = Len(walk.got) + Len(Page(s, page))
        /\ ToSet(walk.got) \cup ToSet(Page(s, page)) \subseteq ToSet(walk'.got)
        /\ Len(Page(s, page)) \in Nat
    BY <1>4, <1>9, <2>1, Appended
  <2>5. Len(walk'.got) <= o + PageSize
    <3>1. o \in Nat /\ PageSize \in Nat
      BY <1>6, <1>7
    <3>2. Len(Page(s, page)) <= PageSize
      BY <1>9
    <3>3. Len(walk'.got) = Len(walk.got) + Len(Page(s, page)) /\ Len(Page(s, page)) \in Nat
      BY <2>2
    <3>4. Len(walk.got) \in Nat /\ Len(walk.got) <= o
      BY <2>1
    <3> HIDE DEF o, page
    <3> QED BY <3>1, <3>2, <3>3, <3>4
  <2> QED BY <2>2, <2>5
<1> HIDE DEF o, last
<1>12. ListsTypeOK'
  <2>1. walk' \in [filter : Filters, page : Nat \ {0},
                   phase : {"idle", "asking", "counted", "done"},
                   total : 0..Cardinality(Runs), got : Seq(Runs), still : SUBSET Runs,
                   calm : BOOLEAN, left : BOOLEAN, late : 0..Cardinality(Runs)]
    <3>1. walk'.got \in Seq(Runs) /\ walk.got \o Page(s, page) = walk'.got
      BY <1>4, <1>11
    <3>2. /\ (IF page < Pages(walk.total) THEN "asking" ELSE "done") \in {"asking", "done"}
          /\ (IF page < Pages(walk.total) THEN page + 1 ELSE page) \in Nat \ {0}
      BY <1>6
    <3> HIDE DEF page
    <3> QED BY <1>1, <1>3, <3>1, <3>2
  <2>2. Len(walk'.got) <= walk'.page * PageSize
    <3>1. (page + 1) * PageSize = page * PageSize + PageSize
      BY <1>6
    <3>2. page * PageSize \in Nat /\ Len(walk'.got) \in Nat
      BY <1>6, <1>11
    <3>3. Len(walk'.got) <= page * PageSize
      BY <1>7, <1>11
    <3>4. walk'.page = page \/ walk'.page = page + 1
      BY <1>4
    <3> QED BY <1>6, <3>1, <3>2, <3>3, <3>4
  <2>3. status' \in [Runs -> {"NONE", "RUNNING", "SUCCEEDED"}]
    BY <1>2 DEF ListsTypeOK
  <2> QED BY <2>1, <2>2, <2>3 DEF ListsTypeOK
<1>13. Bounded'
  <2> SUFFICES ASSUME walking' PROVE Bounded'
    BY DEF Bounded
  <2>1. walk'.page = page + 1
    BY <1>4 DEF walking
  <2> QED BY <1>4, <1>5, <1>7, <1>10, <1>11, <2>1 DEF Bounded, Offset
<1>14. CalmSound'
  <2> SUFFICES ASSUME walk.calm PROVE CalmSound'
    BY <1>4 DEF CalmSound
  <2>1. /\ walk.still = list /\ walk.got = upTo(s, o) /\ walk.total = Cardinality(list)
    BY <1>2, <1>10 DEF CalmSound, o
  <2>2. walk'.got = upTo(s, o + PageSize)
    BY <1>4, <1>6, <1>8, <2>1, PageContinues DEF o
  <2>3. CASE last
    <3>1. walk'.got = SubSeq(s, 1, Len(s))
      BY <1>6, <1>7, <1>8, <2>1, <2>2, <2>3 DEF upTo
    <3>2. walk'.got = s
      BY <1>8, <3>1
    <3>3. walk'.got \in Orders(walk.still)'
      BY <1>4, <2>1, <3>2 DEF Orders, Precedes
    <3> QED BY <1>4, <2>3, <3>3 DEF CalmSound, walking
  <2>4. CASE ~last
    <3>1. \A t \in Orders(list) : walk'.got = upTo(t, Offset(page + 1))
      <4> SUFFICES ASSUME NEW t \in Orders(list) PROVE walk'.got = upTo(t, o + PageSize)
        BY <1>7
      <4>1. s = t
        BY <1>5, OrderUnique
      <4> QED BY <2>2, <4>1
    <3>2. \A t \in Orders(list)' : walk'.got = upTo(t, Offset(walk.page))'
      BY <1>4, <1>5, <2>4, <3>1 DEF Orders, Precedes, upTo, Offset
    <3> QED BY <1>4, <1>5, <2>1, <2>4, <3>2 DEF CalmSound
  <2> QED BY <2>3, <2>4
<1>15. EnterSound'
  <2> SUFFICES ASSUME ~walk.left PROVE EnterSound'
    BY <1>4 DEF EnterSound
  <2>1. /\ walk.still \subseteq list /\ Cardinality(list) <= walk.total + walk.late
        /\ \A r \in walk.still : rank(list, r) < o => r \in ToSet(walk.got)
    BY <1>2, <1>10 DEF EnterSound, o
  <2>2. ASSUME NEW r \in walk.still, rank(list, r) < o + PageSize
        PROVE  r \in ToSet(walk'.got)
    <3>1. /\ rank(list, r) \in 0..(Cardinality(list) - 1)
          /\ s[rank(list, r) + 1] = r
      BY <1>5, <2>1, RankFacts
    <3>2. CASE rank(list, r) < o
      BY <1>11, <2>1, <3>2
    <3>3. CASE ~(rank(list, r) < o)
      <4>1. /\ rank(list, r) + 1 \in 1..Len(s) /\ o < rank(list, r) + 1
            /\ rank(list, r) + 1 <= o + PageSize
        BY <1>6, <1>7, <1>8, <2>2, <3>1, <3>3
      <4>2. r \in ToSet(Page(s, page))
        BY <1>9, <3>1, <4>1
      <4> QED BY <1>11, <4>2
    <3> QED BY <3>2, <3>3
  <2>3. CASE last
    <3> DEFINE X == walk.still \ ToSet(walk'.got)
               Y == walk.total..(walk.total + walk.late - 1)
               f == [r \in X |-> rank(list, r)]
    <3>1. ASSUME NEW r \in X PROVE rank(list, r) \in Y /\ s[rank(list, r) + 1] = r
      <4>1. /\ rank(list, r) \in 0..(Cardinality(list) - 1)
            /\ s[rank(list, r) + 1] = r
        BY <1>5, <2>1, RankFacts
      <4>2. ~(rank(list, r) < o + PageSize)
        BY <2>2
      <4> QED BY <1>6, <1>7, <1>8, <2>1, <2>3, <4>1, <4>2
    <3>2. f \in [X -> Y] /\ \A a, b \in X : f[a] = f[b] => a = b
      BY <3>1
    <3>3. f \in Injection(X, Y)
      <4> HIDE DEF f, X, Y
      <4> QED BY <3>2 DEF Injection, IsInjective
    <3>4. IsFiniteSet(Y) /\ Cardinality(Y) <= walk.late
      <4>1. IsFiniteSet(Y) /\ Cardinality(Y) = walk.late
        BY <1>6, IntervalSize, Zenon
      <4> QED BY <1>6, <4>1
    <3>5. Cardinality(X) <= Cardinality(Y) /\ IsFiniteSet(X)
      <4> HIDE DEF f, X, Y
      <4> QED BY <3>3, <3>4, FS_Injection
    <3>6. Cardinality(X) <= walk.late
      <4>1. Cardinality(X) \in Nat /\ Cardinality(Y) \in Nat
        <5> HIDE DEF X, Y
        <5> QED BY <3>4, <3>5, FS_CardinalityType
      <4> HIDE DEF X, Y
      <4> QED BY <1>6, <3>4, <3>5, <4>1
    <3> QED BY <1>4, <2>3, <3>6 DEF EnterSound, walking
  <2>4. CASE ~last
    <3>1. \A r \in walk'.still :
            (rank(list, r) < Offset(walk.page))' => r \in ToSet(walk'.got)
      BY <1>4, <1>5, <1>7, <2>2, <2>4 DEF rank, before, Precedes, Offset
    <3> QED BY <1>4, <1>5, <2>1, <2>4, <3>1 DEF EnterSound
  <2> QED BY <2>3, <2>4
<1> QED BY <1>12, <1>13, <1>14, <1>15

\* No walk is open at first.
LEMMA InitLists == Init => ListsIInv
<1> SUFFICES ASSUME Init PROVE ListsIInv
  OBVIOUS
<1>1. walk = NoWalk /\ status \in [Runs -> {"NONE", "RUNNING"}]
  BY DEF Init
<1>2. walk.phase = "idle" /\ walk.got = << >> /\ walk.page = 1
  BY <1>1 DEF NoWalk
<1>3. walk \in [filter : Filters, page : Nat \ {0},
                phase : {"idle", "asking", "counted", "done"},
                total : 0..Cardinality(Runs), got : Seq(Runs), still : SUBSET Runs,
                calm : BOOLEAN, left : BOOLEAN, late : 0..Cardinality(Runs)]
  <2>1. /\ "ALL" \in Filters /\ 1 \in Nat \ {0} /\ << >> \in Seq(Runs)
        /\ "idle" \in {"idle", "asking", "counted", "done"} /\ {} \in SUBSET Runs
    BY DEF Filters
  <2>2. 0 \in 0..Cardinality(Runs)
    BY ListsFinite
  <2> QED BY <1>1, <2>1, <2>2, Zenon DEF NoWalk
<1>4. Len(walk.got) <= walk.page * PageSize
  BY <1>2, ListsAssumption
<1>5. ListsTypeOK
  BY <1>1, <1>3, <1>4 DEF ListsTypeOK
<1> QED BY <1>2, <1>5 DEF ListsIInv, Bounded, CalmSound, EnterSound, walking

\* Every step keeps the invariant.
LEMMA StepLists == ListsIInv /\ [Next]_vars => ListsIInv'
<1> SUFFICES ASSUME ListsIInv, [Next]_vars PROVE ListsIInv'
  OBVIOUS
<1>1. CASE \E r \in Runs : SubmitRun(r) \/ FinishRun(r)
  BY <1>1, ChangeKeeps DEF SubmitRun, FinishRun, Moves
<1>2. CASE \E f \in Filters : OpenList(f)
  BY <1>2, OpenKeeps
<1>3. CASE CountRows
  BY <1>3, CountKeeps
<1>4. CASE FetchPage
  BY <1>4, FetchKeeps
<1>5. CASE UNCHANGED <<status, walk>>
  BY <1>5 DEF ListsIInv, ListsTypeOK, Bounded, CalmSound, EnterSound, walking, list, Listed,
              Matches, yetToEnter, Orders, Precedes, upTo, Offset, rank, before
<1>6. CASE \E ids \in Selections : CompareRuns(ids)
  BY <1>5, <1>6 DEF CompareRuns
<1>7. CASE UNCHANGED vars
  BY <1>5, <1>7 DEF vars
<1> QED BY <1>1, <1>2, <1>3, <1>4, <1>6, <1>7 DEF Next

\* The invariant of the walks of list_runs.
THEOREM ListsInvariant == Spec => []ListsIInv
BY InitLists, StepLists, PTL DEF Spec

\* The types of a walk, and that it has no more than the pages asked for.
THEOREM ListsTypes == Spec => []ListsTypeOK
<1>1. ListsIInv => ListsTypeOK
  BY DEF ListsIInv
<1> QED BY <1>1, ListsInvariant, PTL

\* For any number of runs and any page size, the pages of an unchanging list
\* put together are the list, each row once and in order.
THEOREM CalmWalks == Spec => []CalmWalkIsExact
<1>1. ListsIInv => CalmWalkIsExact
  BY DEF ListsIInv, CalmSound, CalmWalkIsExact
<1> QED BY <1>1, ListsInvariant, PTL

\* For any number of runs and any page size, entering runs hide no more rows
\* than entered between the count and the items of the last page.
THEOREM EnteringWalks == Spec => []EnteringHidesNothing
<1>1. ListsIInv => EnteringHidesNothing
  BY DEF ListsIInv, EnterSound, EnteringHidesNothing
<1> QED BY <1>1, ListsInvariant, PTL

-----------------------------------------------------------------------------
(***************************************************************************)
(* The comparison.                                                         *)
(***************************************************************************)

\* max() looks at one more run.
looksAt(name, best, r) ==
  IF HasMetric(r, name) /\ (best = NoRun \/ Better(r, best, name)) THEN r ELSE best

bestRecursion(f, ids, name) ==
  f = [s \in SUBSET DOMAIN ids |->
         IF s = {} THEN NoRun ELSE looksAt(name, f[s \ {Max(s)}], ids[Max(s)])]

\* Best is the loop over the ids, one index at a time.
LEMMA BestUnfolds ==
  ASSUME NEW ids, NEW name
  PROVE  Best(ids, name) = (CHOOSE f : bestRecursion(f, ids, name))[DOMAIN ids]
BY DEF Best, FoldLeft, MapThenFoldSet, looksAt, bestRecursion

bestSoFar(h, n, ids, name) ==
  /\ h[0] = NoRun /\ h[n] = Best(ids, name)
  /\ \A i \in 1..n : h[i] = looksAt(name, h[i - 1], ids[i])

\* The fold of Best goes through the runs in the order of the request.
LEMMA BestFolds ==
  ASSUME NEW n \in Nat, NEW ids \in [1..n -> Runs], NEW name
  PROVE  \E h : bestSoFar(h, n, ids, name)
<1> DEFINE V == Runs \cup {NoRun}
           step == [x \in 1..n |-> [v \in V |-> looksAt(name, v, ids[x])]]
           c == CHOOSE f : bestRecursion(f, ids, name)
<1>1. step \in [1..n -> [V -> V]]
  BY DEF looksAt
<1>2. NoRun \in V
  OBVIOUS
<1>f. PICK f : FoldsPrefixes(f, n, V, NoRun, step)
  <2> HIDE DEF V, step
  <2> QED BY <1>1, <1>2, FoldPrefixes
<1>3. /\ f \in [SUBSET (1..n) -> V]
      /\ Folds(f, 1..n, NoRun, largest(n), step)
      /\ f[{}] = NoRun
      /\ \A i \in 1..n : f[1..i] = step[i][f[1..(i - 1)]]
  BY <1>f DEF FoldsPrefixes
<1>4. ASSUME NEW s \in SUBSET (1..n), s # {}
      PROVE  /\ largest(n)[s] = Max(s) /\ Max(s) \in s /\ s \ {Max(s)} \in SUBSET (1..n)
             /\ f[s] = looksAt(name, f[s \ {Max(s)}], ids[Max(s)])
  <2>1. largest(n)[s] = Max(s) /\ Max(s) \in s
    BY <1>4, MaxOfIndexes DEF largest, Picks
  <2>2. Max(s) \in 1..n /\ s \ {Max(s)} \in SUBSET (1..n)
    BY <2>1
  <2>3. f[s] = step[Max(s)][f[s \ {Max(s)}]]
    <3> HIDE DEF step
    <3> QED BY <1>3, <1>4, <2>1 DEF Folds
  <2>4. f[s \ {Max(s)}] \in V
    <3> HIDE DEF V
    <3> QED BY <1>3, <2>2
  <2>5. step[Max(s)] = [v \in V |-> looksAt(name, v, ids[Max(s)])]
    BY <2>2
  <2>6. step[Max(s)][f[s \ {Max(s)}]] = looksAt(name, f[s \ {Max(s)}], ids[Max(s)])
    <3> HIDE DEF V, step
    <3> QED BY <2>4, <2>5
  <2> QED BY <2>1, <2>2, <2>3, <2>6
<1>5. bestRecursion(f, ids, name)
  <2>1. DOMAIN ids = 1..n
    OBVIOUS
  <2>2. \A s \in SUBSET (1..n) :
          f[s] = IF s = {} THEN NoRun ELSE looksAt(name, f[s \ {Max(s)}], ids[Max(s)])
    BY <1>3, <1>4
  <2>3. f = [s \in SUBSET (1..n) |-> f[s]]
    BY <1>3
  <2> QED BY <2>1, <2>2, <2>3 DEF bestRecursion
<1>6. bestRecursion(c, ids, name)
  BY <1>5
<1> HIDE DEF c
<1>7. c = f
  <2>1. /\ c = [s \in SUBSET (1..n) |-> c[s]] /\ c[{}] = NoRun
        /\ \A s \in SUBSET (1..n) :
             s # {} => c[s] = looksAt(name, c[s \ {Max(s)}], ids[Max(s)])
    BY <1>6 DEF bestRecursion
  <2>2. \A s \in SUBSET (1..n) :
          s # {} /\ c[s \ {largest(n)[s]}] = f[s \ {largest(n)[s]}] => c[s] = f[s]
    <3> SUFFICES ASSUME NEW s \in SUBSET (1..n), s # {},
                        c[s \ {largest(n)[s]}] = f[s \ {largest(n)[s]}]
                 PROVE  c[s] = f[s]
      BY Zenon
    <3>1. c[s] = looksAt(name, c[s \ {Max(s)}], ids[Max(s)])
      BY <2>1
    <3>2. largest(n)[s] = Max(s) /\ f[s] = looksAt(name, f[s \ {Max(s)}], ids[Max(s)])
      BY <1>4
    <3> QED BY <3>1, <3>2
  <2>3. IsFiniteSet(1..n) /\ Picks(largest(n), 1..n)
    BY FS_Interval, MaxOfIndexes
  <2> HIDE DEF V
  <2>4. f = [s \in SUBSET (1..n) |-> f[s]] /\ c[{}] = f[{}]
    BY <1>3, <2>1
  <2>5. Follows(c, f, 1..n, largest(n))
    BY <2>1, <2>2, <2>4 DEF Follows
  <2> QED BY <2>3, <2>5, FoldUnique
<1> DEFINE h == [i \in 0..n |-> f[1..i]]
<1>8. h \in [0..n -> V] /\ h[0] = NoRun
  <2>1. \A i \in 0..n : 1..i \in SUBSET (1..n)
    OBVIOUS
  <2>2. 1..0 = {} /\ 0 \in 0..n
    OBVIOUS
  <2> HIDE DEF V
  <2>3. h \in [0..n -> V]
    BY <1>3, <2>1
  <2>4. h[0] = f[1..0]
    BY <2>2
  <2> QED BY <1>3, <2>2, <2>3, <2>4
<1>9. h[n] = Best(ids, name)
  <2>1. Best(ids, name) = c[1..n]
    BY BestUnfolds DEF c
  <2> QED BY <1>7, <2>1
<1>10. ASSUME NEW i \in 1..n PROVE h[i] = looksAt(name, h[i - 1], ids[i])
  <2>1. i - 1 \in 0..n /\ i \in 0..n
    OBVIOUS
  <2>2. h[i - 1] \in V /\ h[i] = step[i][h[i - 1]]
    <3> HIDE DEF V, step
    <3> QED BY <1>3, <1>8, <2>1
  <2>3. step[i] = [v \in V |-> looksAt(name, v, ids[i])]
    OBVIOUS
  <2> HIDE DEF V, step, h
  <2> QED BY <2>2, <2>3
<1> HIDE DEF h
<1> QED BY <1>8, <1>9, <1>10 DEF bestSoFar

\* The final value of a metric is a number.
LEMMA FinalValueIsNumber ==
  ASSUME NEW r \in Runs, NEW name, HasMetric(r, name)
  PROVE  FinalValue(r, name) \in Int
<1> DEFINE rows == {m \in Metrics[r] : m.name = name}
           from(m) == {k \in rows : k.step >= m.step}
           T == {from(m) : m \in rows}
<1>1. IsFiniteSet(rows) /\ rows # {} /\ \A m \in rows : m.step \in Nat /\ m.value \in Int
  <2>1. rows \in SUBSET Metrics[r] /\ IsFiniteSet(Metrics[r])
    BY ListsAssumption
  <2>2. rows # {}
    BY DEF HasMetric
  <2>3. \A m \in rows : m.step \in Nat /\ m.value \in Int
    BY ListsAssumption
  <2> QED BY <2>1, <2>2, <2>3, FS_Subset
<1>2. T \in SUBSET (SUBSET rows) /\ T # {}
  <2> HIDE DEF rows
  <2>1. PICK m : m \in rows
    BY <1>1
  <2>2. from(m) \in T
    BY <2>1
  <2>3. \A k \in rows : from(k) \in SUBSET rows
    OBVIOUS
  <2> QED BY <2>2, <2>3
<1>3. PICK x \in T : \A y \in T : y \subseteq x => y = x
  <2> HIDE DEF T, rows
  <2> QED BY <1>1, <1>2, LeastSubset
<1>4. PICK m \in rows : x = from(m)
  BY <1>3
<1>5. ASSUME NEW k \in rows PROVE k.step <= m.step
  <2> HIDE DEF rows
  <2> SUFFICES ASSUME m.step < k.step PROVE FALSE
    BY <1>1
  <2>1. from(k) \subseteq from(m) /\ m \in from(m) /\ m \notin from(k)
    BY <1>1
  <2> QED BY <1>3, <1>4, <2>1
<1>6. \E k \in rows : \A l \in rows : l.step <= k.step
  BY <1>5
<1> QED BY <1>1, <1>6 DEF FinalValue

\* h[k] is what max() holds after k runs: nothing while none has the metric,
\* then the first whose final value none of them exceeds.
firstMaximum(ids, name, k, i) ==
  /\ HasMetric(ids[i], name)
  /\ \A j \in 1..k :
       HasMetric(ids[j], name) =>
         /\ FinalValue(ids[j], name) <= FinalValue(ids[i], name)
         /\ j < i => FinalValue(ids[j], name) < FinalValue(ids[i], name)

holds(ids, name, h, k) ==
  IF \E j \in 1..k : HasMetric(ids[j], name)
  THEN \E i \in 1..k : h[k] = ids[i] /\ firstMaximum(ids, name, k, i)
  ELSE h[k] = NoRun

\* The loop invariant: the best of the first k is their first maximum.
LEMMA MaxLoop ==
  ASSUME NEW n \in Nat, NEW ids \in [1..n -> Runs], NEW name, NEW h,
         NEW k \in 0..(n - 1), holds(ids, name, h, k),
         h[k + 1] = looksAt(name, h[k], ids[k + 1])
  PROVE  holds(ids, name, h, k + 1)
<1> DEFINE has(j) == HasMetric(ids[j], name)
           v(j) == FinalValue(ids[j], name)
<1>1. \A j \in 1..n : ids[j] \in Runs /\ ids[j] # NoRun /\ (has(j) => v(j) \in Int)
  BY ListsAssumption, FinalValueIsNumber DEF NoRun
<1>2. k + 1 \in 1..n /\ \A j \in 1..(k + 1) : j \in 1..k \/ j = k + 1
  OBVIOUS
<1>3. \A j \in 1..k : j \in 1..n /\ j \in 1..(k + 1) /\ j < k + 1
  OBVIOUS
<1>4. CASE ~has(k + 1)
  <2>1. h[k + 1] = h[k]
    BY <1>4 DEF looksAt
  <2>2. (\E j \in 1..(k + 1) : has(j)) <=> (\E j \in 1..k : has(j))
    BY <1>2, <1>3, <1>4
  <2>3. ASSUME NEW i \in 1..k, firstMaximum(ids, name, k, i)
        PROVE  firstMaximum(ids, name, k + 1, i)
    BY <1>2, <1>4, <2>3 DEF firstMaximum
  <2> QED BY <1>3, <2>1, <2>2, <2>3 DEF holds
<1>5. CASE has(k + 1) /\ ~\E j \in 1..k : has(j)
  <2>1. h[k + 1] = ids[k + 1]
    BY <1>5 DEF looksAt, holds
  <2>2. firstMaximum(ids, name, k + 1, k + 1)
    BY <1>1, <1>2, <1>5 DEF firstMaximum
  <2> QED BY <1>2, <1>5, <2>1, <2>2 DEF holds
<1>6. CASE has(k + 1) /\ \E j \in 1..k : has(j)
  <2>1. PICK i \in 1..k : h[k] = ids[i] /\ firstMaximum(ids, name, k, i)
    BY <1>6 DEF holds
  <2>2. /\ has(i) /\ v(i) \in Int /\ v(k + 1) \in Int /\ h[k] # NoRun
        /\ \A j \in 1..k : has(j) => v(j) \in Int /\ v(j) <= v(i) /\ (j < i => v(j) < v(i))
    BY <1>1, <1>2, <1>3, <1>6, <2>1 DEF firstMaximum
  <2>3. CASE v(k + 1) > v(i)
    <3>1. h[k + 1] = ids[k + 1]
      BY <1>6, <2>1, <2>3 DEF looksAt, Better
    <3>2. firstMaximum(ids, name, k + 1, k + 1)
      <4> SUFFICES ASSUME NEW j \in 1..(k + 1), has(j)
                   PROVE  v(j) <= v(k + 1) /\ (j < k + 1 => v(j) < v(k + 1))
        BY <1>6 DEF firstMaximum
      <4>1. CASE j = k + 1
        BY <2>2, <4>1
      <4>2. CASE j \in 1..k
        BY <2>2, <2>3, <4>2
      <4> QED BY <1>2, <4>1, <4>2
    <3> QED BY <1>2, <1>6, <3>1, <3>2 DEF holds
  <2>4. CASE ~(v(k + 1) > v(i))
    <3>1. h[k + 1] = ids[i]
      BY <2>1, <2>2, <2>4 DEF looksAt, Better
    <3>2. firstMaximum(ids, name, k + 1, i)
      <4> SUFFICES ASSUME NEW j \in 1..(k + 1), has(j)
                   PROVE  v(j) <= v(i) /\ (j < i => v(j) < v(i))
        BY <2>2 DEF firstMaximum
      <4>1. CASE j = k + 1
        BY <2>2, <2>4, <4>1
      <4>2. CASE j \in 1..k
        BY <2>2, <4>2
      <4> QED BY <1>2, <4>1, <4>2
    <3> QED BY <1>2, <1>3, <1>6, <3>1, <3>2 DEF holds
  <2> QED BY <2>3, <2>4
<1> QED BY <1>4, <1>5, <1>6

\* Of the runs that have a metric, Best is the first with the greatest value.
LEMMA BestIsFirst ==
  ASSUME NEW n \in Nat, NEW ids \in [1..n -> Runs], NEW name,
         \E j \in 1..n : HasMetric(ids[j], name)
  PROVE  \E i \in 1..n : ids[i] = Best(ids, name) /\ firstMaximum(ids, name, n, i)
<1>0. PICK h : bestSoFar(h, n, ids, name)
  BY BestFolds
<1>1. /\ h[0] = NoRun /\ h[n] = Best(ids, name)
      /\ \A i \in 1..n : h[i] = looksAt(name, h[i - 1], ids[i])
  BY <1>0 DEF bestSoFar
<1> DEFINE good == {k \in Nat : holds(ids, name, h, k)}
<1>2. 0 \in good
  BY <1>1 DEF holds
<1>3. ASSUME NEW k \in 0..(n - 1), k \in good PROVE k + 1 \in good
  <2>1. k + 1 \in 1..n /\ (k + 1) - 1 = k
    OBVIOUS
  <2>2. h[k + 1] = looksAt(name, h[k], ids[k + 1])
    BY <1>1, <2>1
  <2>3. holds(ids, name, h, k + 1)
    BY <1>3, <2>2, MaxLoop
  <2> QED BY <2>1, <2>3
<1>4. n \in good
  <2>1. \A k \in 0..(n - 1) : k \in good => k + 1 \in good
    BY <1>3
  <2> HIDE DEF good
  <2>2. \A k \in 0..n : k \in good
    BY <1>2, <2>1, InductionUpTo
  <2> QED BY <2>2
<1> QED BY <1>1, <1>4 DEF holds

\* An answer is what the loop found, and stands until the next comparison.
LEMMA StepBest == BestIsFirstMaximum /\ [Next]_vars => BestIsFirstMaximum'
<1> SUFFICES ASSUME BestIsFirstMaximum, [Next]_vars PROVE BestIsFirstMaximum'
  OBVIOUS
<1>1. CASE answer' = NoAnswer
  BY <1>1 DEF BestIsFirstMaximum, NoAnswer
<1>2. CASE UNCHANGED answer
  BY <1>2 DEF BestIsFirstMaximum
<1>3. ASSUME NEW ids \in Selections, CompareRuns(ids) PROVE BestIsFirstMaximum'
  <2>1. PICK n \in 2..MaxCompared : ids \in [1..n -> Runs]
    BY DEF Selections
  <2>2. n \in Nat /\ Len(ids) = n
    BY <2>1, ListsAssumption
  <2>3. CASE CompareError(ids) # "none"
    BY <1>3, <2>3 DEF CompareRuns, BestIsFirstMaximum
  <2>4. CASE CompareError(ids) = "none"
    <3>1. /\ answer'.ids = ids
          /\ answer'.best = {[name |-> m, run |-> Best(ids, m)] : m \in Names(ids)}
      BY <1>3, <2>4 DEF CompareRuns
    <3>2. ASSUME NEW m \in Names(ids)
          PROVE  \E i \in {k \in 1..n : HasMetric(ids[k], m)} :
                   /\ ids[i] = Best(ids, m)
                   /\ \A j \in {k \in 1..n : HasMetric(ids[k], m)} :
                        /\ FinalValue(ids[j], m) <= FinalValue(ids[i], m)
                        /\ j < i => FinalValue(ids[j], m) < FinalValue(ids[i], m)
      <4>1. \E j \in 1..n : HasMetric(ids[j], m)
        BY <2>2 DEF Names, HasMetric
      <4>2. PICK i \in 1..n : ids[i] = Best(ids, m) /\ firstMaximum(ids, m, n, i)
        BY <2>1, <2>2, <4>1, BestIsFirst
      <4> QED BY <4>2 DEF firstMaximum
    <3> QED BY <2>2, <3>1, <3>2 DEF BestIsFirstMaximum
  <2> QED BY <2>3, <2>4
<1>4. CASE UNCHANGED vars
  BY <1>2, <1>4 DEF vars
<1>5. CASE Next
  BY <1>1, <1>3, <1>5 DEF Next, SubmitRun, FinishRun, Change, OpenList, CountRows, FetchPage
<1> QED BY <1>4, <1>5

\* For any runs and metrics and any size of a comparison, compare_runs names the
\* first of the runs whose final value is greatest.
THEOREM BestByMetric == Spec => []BestIsFirstMaximum
<1>1. Init => BestIsFirstMaximum
  BY DEF Init, NoAnswer, BestIsFirstMaximum
<1> QED BY <1>1, StepBest, PTL DEF Spec
=============================================================================
