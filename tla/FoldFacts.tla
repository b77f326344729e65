------------------------------ MODULE FoldFacts ------------------------------
(***************************************************************************)
(* What the folds of the community modules compute.                        *)
(*                                                                         *)
(* MapThenSumSet and FoldLeft are recursions on the subsets of a finite    *)
(* set.  Induction theorems with an operator for the predicate cannot be   *)
(* instantiated by the provers; here the predicate is a set, and the       *)
(* induction a choice of the least element outside it.                     *)
(***************************************************************************)
EXTENDS Integers, SequencesExt, FiniteSetTheorems, TLAPS

\* Every nonempty set of natural numbers has a least element.
LEMMA LeastNatural ==
  ASSUME NEW T \in SUBSET Nat, T # {}
  PROVE  \E x \in T : \A y \in T : x <= y
<1> DEFINE R == {ss \in Nat \X Nat : ss[1] < ss[2]}
<1>1. OpToRel(<, Nat) = R
  BY Zenon DEF OpToRel
<1>2. IsWellFoundedOn(R, Nat)
  BY <1>1, NatLessThanWellFounded, Zenon
<1> HIDE DEF R
<1>3. PICK x \in T : \A y \in T : ~ (<<y, x>> \in R)
  BY <1>2, WFMin
<1>4. \A y \in T : ~ (y < x)
  BY <1>3 DEF R
<1> QED BY <1>4

\* Every nonempty family of subsets of a finite set has a minimal member.
LEMMA LeastSubset ==
  ASSUME NEW S, IsFiniteSet(S), NEW T \in SUBSET (SUBSET S), T # {}
  PROVE  \E x \in T : \A y \in T : y \subseteq x => y = x
<1>1. IsWellFoundedOn(StrictSubsetOrdering(S), SUBSET S)
  BY FS_StrictSubsetOrderingWellFounded, FS_FiniteSubsetsOfFinite
<1>2. PICK x \in T : \A y \in T : ~ (<<y, x>> \in StrictSubsetOrdering(S))
  BY <1>1, WFMin
<1> QED BY <1>2 DEF StrictSubsetOrdering

\* Induction over 0..n, with a set for the predicate.
LEMMA InductionUpTo ==
  ASSUME NEW n \in Nat, NEW good, 0 \in good,
         \A i \in 0..(n - 1) : i \in good => i + 1 \in good
  PROVE  \A i \in 0..n : i \in good
<1> DEFINE bad == {i \in 0..n : i \notin good}
<1> SUFFICES ASSUME bad # {} PROVE FALSE
  OBVIOUS
<1>1. bad \in SUBSET Nat
  OBVIOUS
<1>2. PICK x \in bad : \A y \in bad : x <= y
  BY <1>1, LeastNatural
<1>3. x # 0 /\ x \in 0..n
  OBVIOUS
<1>4. x - 1 \in 0..(n-1) /\ x - 1 \notin bad
  BY <1>2, <1>3
<1> QED BY <1>3, <1>4

-----------------------------------------------------------------------------
\* The recursion of MapThenFoldSet on the subsets of a set, with functions for
\* its operators: pick[s] is taken out of s, step[x] is applied for it.
Folds(f, S, base, pick, step) ==
  f = [s \in SUBSET S |-> IF s = {} THEN base
                          ELSE step[pick[s]][f[s \ {pick[s]}]]]

Picks(pick, S) == \A s \in SUBSET S : s # {} => pick[s] \in s

Small(S, n) == {s \in SUBSET S : Cardinality(s) <= n}

\* One element less.
LEMMA Smaller ==
  ASSUME NEW S, IsFiniteSet(S), NEW s \in SUBSET S, NEW x \in s
  PROVE  /\ s \ {x} \in SUBSET S
         /\ Cardinality(s) \in Nat \ {0}
         /\ Cardinality(s \ {x}) = Cardinality(s) - 1
<1>1. IsFiniteSet(s)
  BY FS_Subset
<1>2. Cardinality(s) \in Nat /\ Cardinality(s) # 0
  BY <1>1, FS_CardinalityType, FS_EmptySet
<1> QED BY <1>1, <1>2, FS_RemoveElement

\* Only the empty set has no element.
LEMMA NoneSmall ==
  ASSUME NEW S, IsFiniteSet(S), NEW s \in Small(S, 0)
  PROVE  s = {}
<1> SUFFICES ASSUME NEW x \in s PROVE FALSE
  BY Zenon
<1>1. s \in SUBSET S /\ Cardinality(s) <= 0
  BY DEF Small
<1>2. Cardinality(s) \in Nat \ {0}
  BY <1>1, Smaller
<1> QED BY <1>1, <1>2

\* The recursion has a solution.
LEMMA FoldExists ==
  ASSUME NEW S, IsFiniteSet(S), NEW V, NEW base \in V,
         NEW pick, Picks(pick, S), NEW step \in [S -> [V -> V]]
  PROVE  \E f : Folds(f, S, base, pick, step)
<1> DEFINE value(f, s) == IF s = {} THEN base ELSE step[pick[s]][f[s \ {pick[s]}]]
           Solves(f, n) == /\ f \in [Small(S, n) -> V]
                           /\ \A s \in Small(S, n) : f[s] = value(f, s)
           good == {n \in Nat : \E f : Solves(f, n)}
           N == Cardinality(S)
<1>0. N \in Nat
  BY FS_CardinalityType
<1>1. 0 \in good
  <2> DEFINE f == [s \in Small(S, 0) |-> base]
  <2>1. \A s \in Small(S, 0) : s = {}
    BY NoneSmall
  <2>2. Solves(f, 0)
    BY <2>1
  <2> QED BY <2>2
<1>2. ASSUME NEW n \in 0..(N - 1), n \in good PROVE n + 1 \in good
  <2>1. PICK f : Solves(f, n)
    BY <1>2
  <2> DEFINE g == [s \in Small(S, n + 1) |-> value(f, s)]
  <2>2. ASSUME NEW s \in Small(S, n + 1), s # {}
        PROVE  s \ {pick[s]} \in Small(S, n) /\ pick[s] \in S
    <3>1. s \in SUBSET S /\ pick[s] \in s
      BY <2>2 DEF Small, Picks
    <3>2. Cardinality(s) <= n + 1
      BY DEF Small
    <3> QED BY <3>1, <3>2, Smaller DEF Small
  <2>3. \A s \in Small(S, n) : s \in Small(S, n + 1) /\ g[s] = f[s]
    <3> SUFFICES ASSUME NEW s \in Small(S, n) PROVE s \in Small(S, n + 1) /\ g[s] = f[s]
      OBVIOUS
    <3>1. s \in SUBSET S /\ Cardinality(s) <= n
      BY DEF Small
    <3>2. Cardinality(s) \in Nat
      BY <3>1, FS_Subset, FS_CardinalityType
    <3>3. s \in Small(S, n + 1)
      BY <3>1, <3>2 DEF Small
    <3> QED BY <3>3, <2>1
  <2>4. g \in [Small(S, n + 1) -> V]
    <3> SUFFICES ASSUME NEW s \in Small(S, n + 1), s # {} PROVE value(f, s) \in V
      BY Zenon
    <3> QED BY <2>1, <2>2
  <2>5. \A s \in Small(S, n + 1) : g[s] = value(g, s)
    <3> SUFFICES ASSUME NEW s \in Small(S, n + 1), s # {} PROVE value(f, s) = value(g, s)
      OBVIOUS
    <3> QED BY <2>2, <2>3
  <2> HIDE DEF g
  <2>6. Solves(g, n + 1)
    BY <2>4, <2>5
  <2>7. n + 1 \in Nat
    OBVIOUS
  <2> HIDE DEF Solves
  <2> QED BY <2>6, <2>7
<1>3. N \in good
  <2> HIDE DEF good
  <2> QED BY <1>0, <1>1, <1>2, InductionUpTo
<1>4. PICK f : Solves(f, N)
  BY <1>3
<1>5. Small(S, N) = SUBSET S
  BY FS_Subset, Zenon DEF Small
<1>6. f = [s \in SUBSET S |-> value(f, s)]
  BY <1>4, <1>5
<1> QED BY <1>6 DEF Folds

\* Every solution has its values in the set that the steps stay in.
LEMMA FoldType ==
  ASSUME NEW S, IsFiniteSet(S), NEW V, NEW base \in V,
         NEW pick, Picks(pick, S), NEW step \in [S -> [V -> V]],
         NEW f, Folds(f, S, base, pick, step)
  PROVE  f \in [SUBSET S -> V]
<1> DEFINE good == {n \in Nat : \A s \in Small(S, n) : f[s] \in V}
           N == Cardinality(S)
<1>0. N \in Nat
  BY FS_CardinalityType
<1>1. 0 \in good
  <2> SUFFICES ASSUME NEW s \in Small(S, 0) PROVE f[s] \in V
    OBVIOUS
  <2>1. s = {}
    BY NoneSmall
  <2> QED BY <2>1 DEF Folds
<1>2. ASSUME NEW n \in 0..(N - 1), n \in good PROVE n + 1 \in good
  <2> SUFFICES ASSUME NEW s \in Small(S, n + 1) PROVE f[s] \in V
    OBVIOUS
  <2>0. CASE s = {}
    BY <2>0 DEF Folds
  <2> SUFFICES ASSUME s # {} PROVE f[s] \in V
    BY <2>0
  <2>1. s \in SUBSET S /\ pick[s] \in s /\ Cardinality(s) <= n + 1
    BY DEF Small, Picks
  <2>2. s \ {pick[s]} \in Small(S, n)
    BY <2>1, Smaller DEF Small
  <2>3. f[s \ {pick[s]}] \in V
    BY <1>2, <2>2
  <2>4. f[s] = step[pick[s]][f[s \ {pick[s]}]]
    BY <2>1 DEF Folds
  <2> QED BY <2>1, <2>3, <2>4
<1>3. N \in good
  <2> HIDE DEF good
  <2> QED BY <1>0, <1>1, <1>2, InductionUpTo
<1>4. \A s \in SUBSET S : s \in Small(S, N)
  BY FS_Subset, Zenon DEF Small
<1> QED BY <1>3, <1>4 DEF Folds

\* c takes every step that f takes.
Follows(c, f, S, pick) ==
  /\ c = [s \in SUBSET S |-> c[s]] /\ f = [s \in SUBSET S |-> f[s]] /\ c[{}] = f[{}]
  /\ \A s \in SUBSET S :
       s # {} /\ c[s \ {pick[s]}] = f[s \ {pick[s]}] => c[s] = f[s]

\* What follows a solution of the recursion is the same function.
LEMMA FoldUnique ==
  ASSUME NEW S, IsFiniteSet(S), NEW pick, Picks(pick, S), NEW f, NEW c, Follows(c, f, S, pick)
  PROVE  c = f
<1> DEFINE good == {n \in Nat : \A s \in Small(S, n) : c[s] = f[s]}
           N == Cardinality(S)
<1>0. N \in Nat
  BY FS_CardinalityType
<1>f. /\ c = [s \in SUBSET S |-> c[s]] /\ f = [s \in SUBSET S |-> f[s]] /\ c[{}] = f[{}]
      /\ \A s \in SUBSET S :
           s # {} /\ c[s \ {pick[s]}] = f[s \ {pick[s]}] => c[s] = f[s]
  BY DEF Follows
<1>1. 0 \in good
  BY <1>f, NoneSmall
<1>2. ASSUME NEW n \in 0..(N - 1), n \in good PROVE n + 1 \in good
  <2>0. n + 1 \in Nat
    OBVIOUS
  <2> SUFFICES ASSUME NEW s \in Small(S, n + 1) PROVE c[s] = f[s]
    BY <2>0, Zenon
  <2> SUFFICES ASSUME s # {} PROVE c[s] = f[s]
    BY <1>f
  <2>1. s \in SUBSET S /\ pick[s] \in s /\ Cardinality(s) <= n + 1
    BY DEF Small, Picks
  <2>2. s \ {pick[s]} \in Small(S, n)
    BY <2>1, Smaller DEF Small
  <2> QED BY <1>2, <1>f, <2>1, <2>2
<1>3. N \in good
  <2> HIDE DEF good
  <2> QED BY <1>0, <1>1, <1>2, InductionUpTo
<1>4. \A s \in SUBSET S : s \in Small(S, N)
  BY FS_Subset, Zenon DEF Small
<1>5. \A s \in SUBSET S : c[s] = f[s]
  BY <1>3, <1>4
<1> QED BY <1>5, <1>f

-----------------------------------------------------------------------------
(***************************************************************************)
(* Folds of sequences, which take out the largest index.                   *)
(***************************************************************************)

largest(n) == [s \in SUBSET (1..n) |-> Max(s)]

\* The largest index is taken out of every set of indexes.
LEMMA MaxOfIndexes ==
  ASSUME NEW n \in Nat
  PROVE  /\ Picks(largest(n), 1..n)
         /\ \A i \in 1..n : largest(n)[1..i] = i
<1>1. ASSUME NEW s \in SUBSET (1..n), s # {}
      PROVE  Max(s) \in s /\ \A y \in s : Max(s) >= y
  <2> DEFINE T == {n - y : y \in s}
  <2>1. T \in SUBSET Nat
    OBVIOUS
  <2>0. T # {}
    <3>1. PICK y : y \in s
      BY <1>1
    <3> QED BY <3>1
  <2>2. PICK t \in T : \A u \in T : t <= u
    BY <2>0, <2>1, LeastNatural
  <2>3. PICK x \in s : t = n - x
    OBVIOUS
  <2>4. \A y \in s : x >= y
    BY <2>2, <2>3
  <2> QED BY <2>4 DEF Max
<1>2. Picks(largest(n), 1..n)
  BY <1>1 DEF Picks, largest
<1>3. ASSUME NEW i \in 1..n PROVE Max(1..i) = i
  <2>1. 1..i \in SUBSET (1..n) /\ i \in 1..i
    OBVIOUS
  <2>2. Max(1..i) \in 1..i /\ Max(1..i) >= i
    BY <1>1, <2>1
  <2> QED BY <2>2
<1> QED BY <1>2, <1>3 DEF largest

FoldsPrefixes(f, n, V, base, step) ==
  /\ f \in [SUBSET (1..n) -> V]
  /\ Folds(f, 1..n, base, largest(n), step)
  /\ f[{}] = base
  /\ \A i \in 1..n : f[1..i] = step[i][f[1..(i - 1)]]

\* A fold of a sequence goes through its prefixes.
LEMMA FoldPrefixes ==
  ASSUME NEW n \in Nat, NEW V, NEW base \in V, NEW step \in [1..n -> [V -> V]]
  PROVE  \E f : FoldsPrefixes(f, n, V, base, step)
<1>1. IsFiniteSet(1..n)
  BY FS_Interval
<1>2. PICK f : Folds(f, 1..n, base, largest(n), step)
  BY <1>1, MaxOfIndexes, FoldExists
<1>3. f \in [SUBSET (1..n) -> V]
  BY <1>1, <1>2, MaxOfIndexes, FoldType
<1>4. f[{}] = base
  BY <1>2 DEF Folds
<1>5. ASSUME NEW i \in 1..n PROVE f[1..i] = step[i][f[1..(i - 1)]]
  <2>1. 1..i \in SUBSET (1..n) /\ 1..i # {} /\ (1..i) \ {i} = 1..(i - 1)
    OBVIOUS
  <2>2. largest(n)[1..i] = i
    BY MaxOfIndexes
  <2> QED BY <1>2, <2>1, <2>2 DEF Folds
<1> QED BY <1>2, <1>3, <1>4, <1>5 DEF FoldsPrefixes
=============================================================================
