------------------------ MODULE WorkerCapacityProofs ------------------------
(***************************************************************************)
(* Proofs about WorkerCapacity, for any runs, sizes and capacity.          *)
(***************************************************************************)
EXTENDS WorkerCapacity, FoldFacts

-----------------------------------------------------------------------------
(***************************************************************************)
(* The cpu used by a set of runs.                                          *)
(***************************************************************************)

\* The run that MapThenSumSet takes out of a set, and the recursion it is.
anyOf == [s \in SUBSET Runs |-> CHOOSE x \in s : TRUE]

usedRecursion(f, S) ==
  f = [s \in SUBSET S |-> IF s = {} THEN 0
                          ELSE Cpu[CHOOSE x \in s : TRUE] + f[s \ {CHOOSE x \in s : TRUE}]]

\* Used is the recursion of the fold, on the subsets of its argument.
LEMMA UsedUnfolds ==
  ASSUME NEW S
  PROVE  Used(S) = (CHOOSE f : usedRecursion(f, S))[S]
BY DEF Used, MapThenSumSet, MapThenFoldSet, usedRecursion

\* One function sums every set of runs.
sums(F) ==
  /\ F \in [SUBSET Runs -> Nat] /\ F[{}] = 0
  /\ \A s \in SUBSET Runs : s # {} => F[s] = Cpu[anyOf[s]] + F[s \ {anyOf[s]}]

\* Every set of runs is finite, and the fold takes out one of its members.
LEMMA RunsPicked ==
  /\ \A S \in SUBSET Runs : Picks(anyOf, S) /\ IsFiniteSet(S)
  /\ \A s \in SUBSET Runs :
       s # {} => anyOf[s] \in s /\ anyOf[s] \in Runs /\ anyOf[s] = CHOOSE x \in s : TRUE
<1>1. ASSUME NEW s \in SUBSET Runs, s # {}
      PROVE  anyOf[s] \in s /\ anyOf[s] \in Runs /\ anyOf[s] = CHOOSE x \in s : TRUE
  <2>1. (CHOOSE x \in s : TRUE) \in s
    BY <1>1, Zenon
  <2> QED BY <2>1 DEF anyOf
<1>2. \A S \in SUBSET Runs : Picks(anyOf, S)
  BY <1>1 DEF Picks
<1>3. \A S \in SUBSET Runs : IsFiniteSet(S)
  BY CapacityAssumption, FS_Subset
<1> QED BY <1>1, <1>2, <1>3

\* There is such a function.
LEMMA SumsExist == \E F : sums(F)
<1> DEFINE step == [x \in Runs |-> [v \in Nat |-> Cpu[x] + v]]
<1>1. step \in [Runs -> [Nat -> Nat]]
  BY CapacityAssumption
<1>2. IsFiniteSet(Runs) /\ Picks(anyOf, Runs)
  BY RunsPicked
<1>3. PICK F : Folds(F, Runs, 0, anyOf, step)
  <2> HIDE DEF step
  <2> QED BY <1>1, <1>2, FoldExists
<1>4. F \in [SUBSET Runs -> Nat]
  <2> HIDE DEF step
  <2> QED BY <1>1, <1>2, <1>3, FoldType
<1>5. F[{}] = 0
  BY <1>3 DEF Folds
<1>6. ASSUME NEW s \in SUBSET Runs, s # {}
      PROVE  F[s] = Cpu[anyOf[s]] + F[s \ {anyOf[s]}]
  <2>1. anyOf[s] \in Runs /\ s \ {anyOf[s]} \in SUBSET Runs
    BY <1>6, RunsPicked
  <2>2. F[s] = step[anyOf[s]][F[s \ {anyOf[s]}]]
    <3> HIDE DEF step
    <3> QED BY <1>3, <1>6 DEF Folds
  <2>3. F[s \ {anyOf[s]}] \in Nat
    BY <1>4, <2>1
  <2>4. step[anyOf[s]] = [v \in Nat |-> Cpu[anyOf[s]] + v]
    BY <2>1
  <2> HIDE DEF step
  <2> QED BY <2>2, <2>3, <2>4
<1> QED BY <1>4, <1>5, <1>6 DEF sums

\* Used agrees with it on every set of runs.
LEMMA UsedIsSum ==
  ASSUME NEW F, sums(F), NEW S \in SUBSET Runs
  PROVE  Used(S) = F[S]
<1> DEFINE f == [s \in SUBSET S |-> F[s]]
           c == CHOOSE g : usedRecursion(g, S)
<1>1. \A s \in SUBSET S : f[s] = F[s] /\ s \in SUBSET Runs
  OBVIOUS
<1>2. ASSUME NEW s \in SUBSET S, s # {}
      PROVE  /\ anyOf[s] = CHOOSE x \in s : TRUE
             /\ f[s] = Cpu[anyOf[s]] + f[s \ {anyOf[s]}]
  <2>1. anyOf[s] = CHOOSE x \in s : TRUE
    BY <1>1, <1>2, RunsPicked
  <2>2. s \ {anyOf[s]} \in SUBSET S
    OBVIOUS
  <2>3. F[s] = Cpu[anyOf[s]] + F[s \ {anyOf[s]}]
    BY <1>1, <1>2 DEF sums
  <2> QED BY <1>1, <2>1, <2>2, <2>3
<1>3. f[{}] = 0
  BY DEF sums
<1>4. usedRecursion(f, S)
  <2>1. \A s \in SUBSET S :
          f[s] = IF s = {} THEN 0
                 ELSE Cpu[CHOOSE x \in s : TRUE] + f[s \ {CHOOSE x \in s : TRUE}]
    BY <1>2, <1>3, Zenon
  <2>2. f = [s \in SUBSET S |-> f[s]]
    OBVIOUS
  <2> HIDE DEF f
  <2> QED BY <2>1, <2>2, Zenon DEF usedRecursion
<1>5. usedRecursion(c, S)
  BY <1>4, Zenon
<1> HIDE DEF c
<1>6. Follows(c, f, S, anyOf)
  <2>1. /\ c = [s \in SUBSET S |-> c[s]] /\ c[{}] = 0
        /\ \A s \in SUBSET S : s # {} =>
             c[s] = Cpu[CHOOSE x \in s : TRUE] + c[s \ {CHOOSE x \in s : TRUE}]
    BY <1>5 DEF usedRecursion
  <2>2. f = [s \in SUBSET S |-> f[s]]
    OBVIOUS
  <2> HIDE DEF f
  <2>3. ASSUME NEW s \in SUBSET S, s # {}, c[s \ {anyOf[s]}] = f[s \ {anyOf[s]}]
        PROVE  c[s] = f[s]
    <3>1. c[s] = Cpu[anyOf[s]] + c[s \ {anyOf[s]}]
      BY <1>2, <2>1, <2>3
    <3>2. f[s] = Cpu[anyOf[s]] + f[s \ {anyOf[s]}]
      BY <1>2, <2>3
    <3> QED BY <2>3, <3>1, <3>2
  <2> QED BY <1>3, <2>1, <2>2, <2>3 DEF Follows
<1>7. c = f
  <2>1. IsFiniteSet(S) /\ Picks(anyOf, S)
    BY RunsPicked
  <2> HIDE DEF f
  <2> QED BY <1>6, <2>1, FoldUnique
<1>8. Used(S) = c[S]
  BY UsedUnfolds DEF c
<1> QED BY <1>1, <1>7, <1>8

\* Taking any run out of a set takes its cpu out of the sum, not only the run
\* that the recursion happens to choose.
LEMMA UsedWithout ==
  ASSUME NEW s \in SUBSET Runs, NEW x \in s
  PROVE  Used(s) = Cpu[x] + Used(s \ {x})
<1>1. PICK F : sums(F)
  BY SumsExist
<1> DEFINE bad == {t \in SUBSET Runs : \E y \in t : F[t] # Cpu[y] + F[t \ {y}]}
<1>2. bad = {}
  <2> SUFFICES ASSUME bad # {} PROVE FALSE
    OBVIOUS
  <2>1. bad \in SUBSET (SUBSET Runs) /\ IsFiniteSet(Runs)
    BY CapacityAssumption
  <2>2. PICK t \in bad : \A u \in bad : u \subseteq t => u = t
    <3> HIDE DEF bad
    <3> QED BY <2>1, LeastSubset
  <2>3. PICK y \in t : F[t] # Cpu[y] + F[t \ {y}]
    OBVIOUS
  <2> DEFINE z == anyOf[t]
  <2>4. t \in SUBSET Runs /\ z \in t /\ F[t] = Cpu[z] + F[t \ {z}]
    BY <1>1, <2>3, RunsPicked DEF sums
  <2> HIDE DEF z
  <2>5. y # z
    BY <2>3, <2>4
  <2>6. t \ {y} \notin bad /\ t \ {z} \notin bad
    <3> HIDE DEF bad
    <3> QED BY <2>2, <2>3, <2>4
  <2>7. F[t \ {z}] = Cpu[y] + F[(t \ {z}) \ {y}]
    BY <2>3, <2>4, <2>5, <2>6
  <2>8. F[t \ {y}] = Cpu[z] + F[(t \ {y}) \ {z}]
    BY <2>3, <2>4, <2>5, <2>6
  <2>9. (t \ {y}) \ {z} = (t \ {z}) \ {y} /\ (t \ {y}) \ {z} \in SUBSET Runs
    BY <2>4
  <2>10. Cpu[y] \in Nat /\ Cpu[z] \in Nat /\ F[(t \ {y}) \ {z}] \in Nat
    BY <1>1, <2>3, <2>4, <2>9, CapacityAssumption DEF sums
  <2>11. Cpu[z] + (Cpu[y] + F[(t \ {y}) \ {z}]) = Cpu[y] + (Cpu[z] + F[(t \ {y}) \ {z}])
    BY <2>10
  <2> HIDE DEF bad
  <2> QED BY <2>3, <2>4, <2>7, <2>8, <2>9, <2>11, Zenon
<1>3. F[s] = Cpu[x] + F[s \ {x}]
  BY <1>2
<1>4. Used(s) = F[s] /\ Used(s \ {x}) = F[s \ {x}]
  BY <1>1, UsedIsSum
<1> QED BY <1>3, <1>4

\* A sum is a natural number, and that of no run is zero.
LEMMA UsedNat ==
  /\ Used({}) = 0
  /\ \A s \in SUBSET Runs : Used(s) \in Nat
<1>1. PICK F : sums(F)
  BY SumsExist
<1>2. \A s \in SUBSET Runs : Used(s) = F[s]
  BY <1>1, UsedIsSum
<1> QED BY <1>1, <1>2 DEF sums

\* The sum of a larger set is not smaller.
LEMMA UsedGrows ==
  ASSUME NEW t \in SUBSET Runs, NEW s \in SUBSET t
  PROVE  Used(s) <= Used(t)
<1> DEFINE bad == {u \in SUBSET Runs : \E v \in SUBSET u : ~ (Used(v) <= Used(u))}
<1> SUFFICES ASSUME bad # {} PROVE FALSE
  OBVIOUS
<1>1. bad \in SUBSET (SUBSET Runs) /\ IsFiniteSet(Runs)
  BY CapacityAssumption
<1>2. PICK u \in bad : \A w \in bad : w \subseteq u => w = u
  <2> HIDE DEF bad
  <2> QED BY <1>1, LeastSubset
<1>3. PICK v \in SUBSET u : ~ (Used(v) <= Used(u))
  OBVIOUS
<1>4. u \in SUBSET Runs /\ v \in SUBSET Runs
  OBVIOUS
<1>5. Used(u) \in Nat /\ Used(v) \in Nat
  BY <1>4, UsedNat
<1>6. v # u
  BY <1>3, <1>5
<1>7. PICK x \in u : x \notin v
  BY <1>6
<1>8. u \ {x} \notin bad
  <2> HIDE DEF bad
  <2> QED BY <1>2, <1>7
<1>9. u \ {x} \in SUBSET Runs /\ v \in SUBSET (u \ {x})
  BY <1>4, <1>7
<1>10. Used(v) <= Used(u \ {x}) /\ Used(u \ {x}) \in Nat
  BY <1>8, <1>9, UsedNat
<1>11. Used(u) = Cpu[x] + Used(u \ {x}) /\ Cpu[x] \in Nat
  BY <1>4, <1>7, UsedWithout, CapacityAssumption
<1> HIDE DEF bad
<1> QED BY <1>3, <1>5, <1>10, <1>11

\* The sums of disjoint sets add up.
LEMMA UsedUnion ==
  ASSUME NEW s \in SUBSET Runs, NEW t \in SUBSET Runs, s \cap t = {}
  PROVE  Used(s \cup t) = Used(s) + Used(t)
<1> DEFINE bad == {u \in SUBSET t : Used(s \cup u) # Used(s) + Used(u)}
<1> SUFFICES ASSUME bad # {} PROVE FALSE
  OBVIOUS
<1>1. bad \in SUBSET (SUBSET t) /\ IsFiniteSet(t)
  BY RunsPicked
<1>2. PICK u \in bad : \A w \in bad : w \subseteq u => w = u
  <2> HIDE DEF bad
  <2> QED BY <1>1, LeastSubset
<1>3. u \in SUBSET t /\ u \in SUBSET Runs /\ Used(s \cup u) # Used(s) + Used(u)
  OBVIOUS
<1>4. u # {}
  <2>1. s \cup {} = s /\ Used(s) \in Nat /\ Used({}) = 0
    BY UsedNat
  <2> HIDE DEF bad
  <2> QED BY <1>3, <2>1
<1>5. PICK x : x \in u
  BY <1>4
<1>6. u \ {x} \notin bad /\ u \ {x} \in SUBSET t
  <2> HIDE DEF bad
  <2> QED BY <1>2, <1>3, <1>5
<1>7. Used(s \cup (u \ {x})) = Used(s) + Used(u \ {x})
  BY <1>6
<1> HIDE DEF bad
<1>8. x \notin s /\ s \cup u \in SUBSET Runs /\ (s \cup u) \ {x} = s \cup (u \ {x})
  BY <1>3, <1>5
<1>9. Used(s \cup u) = Cpu[x] + Used(s \cup (u \ {x}))
  BY <1>5, <1>8, UsedWithout
<1>10. Used(u) = Cpu[x] + Used(u \ {x})
  BY <1>3, <1>5, UsedWithout
<1>11. Used(s) \in Nat /\ Used(u \ {x}) \in Nat /\ Cpu[x] \in Nat
  BY <1>3, <1>5, UsedNat, CapacityAssumption
<1> QED BY <1>3, <1>7, <1>9, <1>10, <1>11

\* refresh_worker_capacity stays within the worker's total, and frees no less
\* when fewer runs are held.
LEMMA FreeBounds ==
  ASSUME NEW t \in SUBSET Runs
  PROVE  /\ Free(t) \in 0..Total
         /\ \A s \in SUBSET t : Free(t) <= Free(s)
         /\ Used(t) <= Total => Free(t) = Total - Used(t)
<1>1. Used(t) \in Nat /\ Total \in Nat
  BY UsedNat, CapacityAssumption
<1>2. ASSUME NEW s \in SUBSET t
      PROVE  Used(s) \in Nat /\ Used(s) <= Used(t)
  BY UsedNat, UsedGrows
<1> QED BY <1>1, <1>2 DEF Free

-----------------------------------------------------------------------------
(***************************************************************************)
(* The inductive invariant.  Types alone are not inductive: that a release *)
(* leaves the batch's own releases held needs that the two never work on   *)
(* the same allocation, and that nobody writes the column under an open    *)
(* batch needs that the row is locked exactly while one is open.           *)
(***************************************************************************)

\* The parts of the type invariant that most actions change.
copies == [phase : {"idle", "read", "summed"}, loaded : 0..Total, value : 0..Total]
batches(w, h) == [open : BOOLEAN, placed : SUBSET w, released : SUBSET h, avail : 0..Total]

\* The lock of the worker row is held by the open batch or by a registration.
LocksOK ==
  /\ batch.open <=> lock = "scheduler"
  /\ copy["register"].phase # "idle" <=> lock = "register"
  /\ ~ batch.open => batch = NoBatch

\* A worker's own release and the scheduler's never meet on one allocation.
ReleasesOK ==
  \A r \in Runs : copy[r].phase # "idle" => r \in held \ batch.released

\* The scheduler's own value of the column accounts for what it has placed:
\* out of the committed value while it has released nothing, and out of what
\* its last recomputation found otherwise.
AccountOK ==
  batch.open =>
    IF batch.released = {} THEN batch.avail + Used(batch.placed) = avail
    ELSE batch.avail + Used(batch.placed) <= Free(held \ batch.released)

CapacityIInv == CapacityTypeOK /\ LocksOK /\ ReleasesOK /\ AccountOK

\* The worker starts free, unlocked and without transactions.
LEMMA InitCapacity == Init => CapacityIInv
<1> SUFFICES ASSUME Init PROVE CapacityIInv
  OBVIOUS
<1> USE CapacityAssumption DEF Init, Idle, NoBatch
<1>1. CapacityTypeOK
  BY DEF CapacityTypeOK
<1>2. LocksOK
  BY DEF LocksOK, Refreshers
<1>3. ReleasesOK
  BY DEF ReleasesOK, Refreshers
<1>4. AccountOK
  BY DEF AccountOK
<1> QED BY <1>1, <1>2, <1>3, <1>4 DEF CapacityIInv

\* A recovery starts the batch's account afresh from what remains held.
LEMMA RecoverKeeps ==
  ASSUME CapacityIInv, NEW r \in Runs, Recover(r)
  PROVE  CapacityIInv'
<1> USE CapacityAssumption DEF Recover, CapacityIInv
<1> DEFINE left == held \ (batch.released \cup {r})
<1>1. Free(left) \in 0..Total
  BY FreeBounds DEF CapacityTypeOK
<1>2. batch' = [open |-> TRUE, placed |-> {}, released |-> batch.released \cup {r},
                avail |-> Free(left)]
  BY DEF CapacityTypeOK
<1> HIDE DEF left
<1>3. CapacityTypeOK'
  <2>1. batch.released \cup {r} \in SUBSET held
    BY DEF CapacityTypeOK
  <2>2. batch' \in batches(waiting, held)
    <3> HIDE DEF Recover
    <3> QED BY <1>1, <1>2, <2>1 DEF batches
  <2> QED BY <2>2 DEF CapacityTypeOK, batches
<1>4. LocksOK'
  BY <1>2 DEF LocksOK, CanLock
<1>5. ReleasesOK'
  BY <1>2 DEF ReleasesOK
<1>6. AccountOK'
  <2>1. Used({}) = 0
    BY UsedNat
  <2>2. (held \ batch.released)' = left
    BY <1>2 DEF left
  <2>3. /\ (batch.avail)' = Free(left) /\ (batch.placed)' = {} /\ (batch.released)' # {}
        /\ Free(held \ batch.released)' = Free(left)
    BY <1>2, <2>2 DEF Free
  <2>4. Used(batch.placed)' = 0
    BY <2>1, <2>3
  <2> QED BY <1>1, <2>3, <2>4 DEF AccountOK
<1> QED BY <1>3, <1>4, <1>5, <1>6

\* A placement moves its cpu from the batch's value to what it has placed.
LEMMA PlaceKeeps ==
  ASSUME CapacityIInv, NEW r \in Runs, Place(r)
  PROVE  CapacityIInv'
<1> USE CapacityAssumption DEF CapacityIInv
<1> DEFINE free == IF batch.open THEN batch.avail ELSE avail
<1>0. /\ CanLock("scheduler") /\ r \in waiting \ batch.placed /\ free >= Cpu[r]
      /\ lock' = "scheduler" /\ UNCHANGED <<waiting, held, avail, copy>>
      /\ batch' = [batch EXCEPT !.open = TRUE, !.placed = @ \cup {r}, !.avail = free - Cpu[r]]
  BY DEF Place, Fits
<1>1. free \in 0..Total /\ Cpu[r] \in Nat \ {0} /\ free - Cpu[r] \in 0..Total
  BY <1>0 DEF CapacityTypeOK
<1> HIDE DEF free
<1>2. batch' = [open |-> TRUE, placed |-> batch.placed \cup {r}, released |-> batch.released,
                avail |-> free - Cpu[r]]
  BY <1>0 DEF CapacityTypeOK
<1>3. CapacityTypeOK'
  <2>1. batch.placed \cup {r} \in SUBSET waiting /\ batch.released \in SUBSET held
    BY <1>0 DEF CapacityTypeOK
  <2>2. batch' \in batches(waiting, held)
    BY <1>1, <1>2, <2>1 DEF batches
  <2> QED BY <1>0, <2>2 DEF CapacityTypeOK, batches
<1>4. LocksOK'
  BY <1>0, <1>2 DEF LocksOK, CanLock
<1>5. ReleasesOK'
  BY <1>0, <1>2 DEF ReleasesOK
<1>6. AccountOK'
  <2>1. batch.placed \cup {r} \in SUBSET Runs /\ (batch.placed \cup {r}) \ {r} = batch.placed
    BY <1>0 DEF CapacityTypeOK
  <2>2. Used(batch.placed \cup {r}) = Cpu[r] + Used(batch.placed) /\ Used(batch.placed) \in Nat
    BY <2>1, UsedWithout, UsedNat
  <2>3. /\ (batch.avail)' = free - Cpu[r] /\ (batch.placed)' = batch.placed \cup {r}
        /\ (batch.released)' = batch.released /\ held' = held /\ avail' = avail
    BY <1>0, <1>2
  <2>4. /\ Used(batch.placed)' = Cpu[r] + Used(batch.placed)
        /\ Free(held \ batch.released)' = Free(held \ batch.released)
    BY <2>2, <2>3 DEF Free
  <2>5. IF batch.released = {} THEN free + Used(batch.placed) = avail
        ELSE free + Used(batch.placed) <= Free(held \ batch.released)
    <3>1. CASE batch.open
      BY <3>1 DEF AccountOK, free
    <3>2. CASE ~ batch.open
      <4>1. batch.released = {} /\ batch.placed = {} /\ free = avail
        BY <3>2 DEF LocksOK, NoBatch, free
      <4>2. Used(batch.placed) = 0
        BY <4>1, UsedNat
      <4> QED BY <1>1, <4>1, <4>2
    <3> QED BY <3>1, <3>2
  <2>6. Free(held \ batch.released) \in 0..Total /\ avail \in 0..Total
    BY FreeBounds DEF CapacityTypeOK
  <2> QED BY <1>1, <2>2, <2>3, <2>4, <2>5, <2>6 DEF AccountOK
<1> QED BY <1>3, <1>4, <1>5, <1>6

\* The commit ends the batch.
LEMMA CommitKeeps ==
  ASSUME CapacityIInv, CommitBatch
  PROVE  CapacityIInv'
<1> USE CapacityAssumption DEF CapacityIInv, CommitBatch, NoBatch
<1>1. CapacityTypeOK'
  BY DEF CapacityTypeOK
<1>2. LocksOK'
  BY DEF LocksOK, CapacityTypeOK
<1>3. ReleasesOK'
  BY DEF ReleasesOK, CapacityTypeOK
<1>4. AccountOK'
  BY DEF AccountOK
<1> QED BY <1>1, <1>2, <1>3, <1>4

\* Reading the row begins a recomputation, of an allocation still held.
LEMMA ReadKeeps ==
  ASSUME CapacityIInv, NEW p \in Refreshers, ReadWorker(p)
  PROVE  CapacityIInv'
<1> USE CapacityAssumption DEF CapacityIInv, ReadWorker
<1>1. copy \in [Refreshers -> copies] /\ avail \in 0..Total
  BY DEF CapacityTypeOK, copies
<1>2. copy' \in [Refreshers -> copies]
  BY <1>1 DEF copies
<1>3. \A q \in Refreshers : copy'[q].phase = IF q = p THEN "read" ELSE copy[q].phase
  BY <1>1 DEF copies
<1>4. CapacityTypeOK'
  BY <1>2 DEF CapacityTypeOK, copies
<1>5. LocksOK'
  BY <1>3 DEF LocksOK, Refreshers, CapacityTypeOK
<1>6. ReleasesOK'
  BY <1>3 DEF ReleasesOK, Refreshers
<1>7. AccountOK'
  BY DEF AccountOK
<1> QED BY <1>4, <1>5, <1>6, <1>7

\* The sum is within the capacity of the worker.
LEMMA SumKeeps ==
  ASSUME CapacityIInv, NEW p \in Refreshers, SumAllocations(p)
  PROVE  CapacityIInv'
<1> USE CapacityAssumption DEF CapacityIInv, SumAllocations
<1>0. Recomputed(p) \in 0..Total
  BY FreeBounds DEF Recomputed, CapacityTypeOK
<1>1. copy \in [Refreshers -> copies]
  BY DEF CapacityTypeOK, copies
<1>2. copy' \in [Refreshers -> copies]
  BY <1>0, <1>1 DEF copies
<1>3. \A q \in Refreshers : copy'[q].phase # "idle" <=> copy[q].phase # "idle"
  BY <1>1 DEF copies
<1>4. CapacityTypeOK'
  BY <1>2 DEF CapacityTypeOK, copies
<1>5. LocksOK'
  BY <1>3 DEF LocksOK, Refreshers
<1>6. ReleasesOK'
  BY <1>3 DEF ReleasesOK, Refreshers
<1>7. AccountOK'
  BY DEF AccountOK
<1> QED BY <1>4, <1>5, <1>6, <1>7

\* The commit of a recomputation cannot write under an open batch, and what
\* it releases only adds to what the batch found free.
LEMMA RefreshKeeps ==
  ASSUME CapacityIInv, NEW p \in Refreshers, CommitRefresh(p)
  PROVE  CapacityIInv'
<1> USE CapacityAssumption DEF CapacityIInv
<1> DEFINE writes == copy[p].value # copy[p].loaded
<1>0. /\ copy[p].phase = "summed" /\ (writes => CanLock(p))
      /\ avail' = IF writes THEN copy[p].value ELSE avail
      /\ lock' = IF lock = p THEN "none" ELSE lock
      /\ held' = held \ {p} /\ copy' = [copy EXCEPT ![p] = Idle]
      /\ waiting' = waiting /\ batch' = batch
  BY DEF CommitRefresh
<1>1. copy \in [Refreshers -> copies] /\ Idle \in copies
  BY DEF CapacityTypeOK, copies, Idle
<1>2. copy' \in [Refreshers -> copies] /\ avail' \in 0..Total
  BY <1>0, <1>1 DEF copies, CapacityTypeOK
<1>3. \A q \in Refreshers : copy'[q].phase = IF q = p THEN "idle" ELSE copy[q].phase
  BY <1>0, <1>1 DEF Idle
<1>4. batch.released \in SUBSET (held \ {p}) /\ p # "scheduler"
  <2>1. p # "scheduler" /\ (p \notin Runs => p \notin batch.released)
    BY DEF CapacityTypeOK, Refreshers
  <2>2. p \in Runs => p \notin batch.released
    BY <1>0 DEF ReleasesOK
  <2> QED BY <2>1, <2>2 DEF CapacityTypeOK
<1> HIDE DEF writes
<1>5. CapacityTypeOK'
  <2>1. batch' \in batches(waiting', held')
    BY <1>0, <1>4 DEF CapacityTypeOK, batches
  <2> QED BY <1>0, <1>2, <2>1 DEF CapacityTypeOK, batches, copies
<1>6. LocksOK'
  BY <1>0, <1>3, <1>4 DEF LocksOK, Refreshers, CapacityTypeOK
<1>7. ReleasesOK'
  BY <1>0, <1>3 DEF ReleasesOK, Refreshers
<1>8. AccountOK'
  <2> SUFFICES ASSUME batch.open PROVE AccountOK'
    BY <1>0 DEF AccountOK
  <2>1. lock = "scheduler" /\ avail' = avail
    <3>1. lock = "scheduler"
      BY Zenon DEF LocksOK
    <3>2. ~ CanLock(p)
      BY <1>4, <3>1 DEF CanLock
    <3> QED BY <1>0, <3>1, <3>2
  <2>2. /\ held \ batch.released \in SUBSET Runs
        /\ held' \ batch.released \in SUBSET (held \ batch.released)
        /\ batch.placed \in SUBSET Runs
    BY <1>0 DEF CapacityTypeOK
  <2>3. /\ Free(held \ batch.released) <= Free(held' \ batch.released)
        /\ Free(held \ batch.released) \in Int /\ Free(held' \ batch.released) \in Int
    BY <2>2, FreeBounds
  <2>4. batch.avail \in Int /\ Used(batch.placed) \in Int
    BY <2>2, UsedNat DEF CapacityTypeOK
  <2> QED BY <1>0, <2>1, <2>3, <2>4 DEF AccountOK
<1> QED BY <1>5, <1>6, <1>7, <1>8

\* Every step keeps the invariant.
LEMMA StepCapacity == CapacityIInv /\ [Next]_vars => CapacityIInv'
<1> SUFFICES ASSUME CapacityIInv, [Next]_vars PROVE CapacityIInv'
  OBVIOUS
<1>1. ASSUME NEW r \in Runs, Recover(r) PROVE CapacityIInv'
  BY <1>1, RecoverKeeps
<1>2. ASSUME NEW r \in Runs, Place(r) PROVE CapacityIInv'
  BY <1>2, PlaceKeeps
<1>3. CASE CommitBatch
  BY <1>3, CommitKeeps
<1>4. ASSUME NEW p \in Refreshers, Refresh(p) PROVE CapacityIInv'
  BY <1>4, ReadKeeps, SumKeeps, RefreshKeeps DEF Refresh
<1>5. CASE UNCHANGED vars
  BY <1>5 DEF vars, CapacityIInv, CapacityTypeOK, LocksOK, ReleasesOK, AccountOK
<1> QED BY <1>1, <1>2, <1>3, <1>4, <1>5 DEF Next

\* The inductive invariant holds in every reachable state.
THEOREM CapacityInvariant == Spec => []CapacityIInv
BY InitCapacity, StepCapacity, PTL DEF Spec

\* available_cpu never leaves 0..total_cpu, in the row or in any transaction,
\* and a batch places queued runs and releases held ones only.
THEOREM CapacityTypes == Spec => []CapacityTypeOK
<1>1. CapacityIInv => CapacityTypeOK
  BY DEF CapacityIInv
<1> QED BY <1>1, CapacityInvariant, PTL

-----------------------------------------------------------------------------
\* A batch keeps the account: with a recovery in it because the recomputation
\* replaced the value, without one because it started from the committed value.
LEMMA BatchAccounts ==
  ASSUME CapacityIInv, Accounted, CommitBatch
  PROVE  Accounted'
<1> USE CapacityAssumption
<1> DEFINE kept == held \ batch.released
<1>1. /\ held' = kept \cup batch.placed /\ avail' = batch.avail /\ batch.open
  BY DEF CommitBatch
<1>2. /\ held \in SUBSET Runs /\ kept \in SUBSET held /\ kept \in SUBSET Runs
      /\ batch.placed \in SUBSET Runs /\ kept \cap batch.placed = {}
      /\ batch.avail \in Nat /\ avail \in Nat /\ Total \in Nat
  BY DEF CapacityIInv, CapacityTypeOK
<1>3. batch.released = {} => kept = held
  OBVIOUS
<1> HIDE DEF kept
<1>4. Used(held') = Used(kept) + Used(batch.placed)
  BY <1>1, <1>2, UsedUnion
<1>5. Used(kept) \in Nat /\ Used(batch.placed) \in Nat /\ Used(kept) <= Used(held) /\ Used(held) \in Nat
  BY <1>2, UsedNat, UsedGrows
<1>6. Used(kept) <= Total /\ Used(held) <= Total
  BY <1>2, <1>5 DEF Accounted
<1>7. Free(kept) = Total - Used(kept) /\ Free(held) = Total - Used(held)
  BY <1>2, <1>6, FreeBounds
<1>8. batch.avail + Used(batch.placed) <= Total - Used(kept)
  <2>1. CASE batch.released = {}
    BY <1>1, <1>2, <1>3, <1>5, <1>7, <2>1 DEF CapacityIInv, AccountOK, Accounted
  <2>2. CASE batch.released # {}
    BY <1>1, <1>7, <2>2 DEF CapacityIInv, AccountOK, kept
  <2> QED BY <2>1, <2>2
<1>9. Used(held') <= Total /\ batch.avail <= Total - Used(held')
  BY <1>2, <1>4, <1>5, <1>8
<1>10. Free(held') = Total - Used(held')
  <2>1. held' \in SUBSET Runs
    BY <1>1, <1>2
  <2> QED BY <1>9, <2>1, FreeBounds
<1> QED BY <1>1, <1>9, <1>10 DEF Accounted

\* So does a recomputation whose value is still true, or is not written.
LEMMA RefreshAccounts ==
  ASSUME CapacityIInv, Accounted, NEW p \in Refreshers, CommitRefresh(p), ~ StaleWrite(p)
  PROVE  Accounted'
<1> USE CapacityAssumption
<1>1. /\ held' = held \ {p}
      /\ avail' = IF copy[p].value # copy[p].loaded THEN copy[p].value ELSE avail
  BY DEF CommitRefresh
<1>2. /\ held \in SUBSET Runs /\ held' \in SUBSET held /\ held' \in SUBSET Runs
      /\ avail \in Int /\ copy[p].value \in Int /\ Total \in Nat
  BY <1>1 DEF CapacityIInv, CapacityTypeOK
<1>3. /\ Used(held) \in Nat /\ Used(held') \in Nat /\ Used(held') <= Used(held)
      /\ Free(held) \in Int /\ Free(held') \in Int /\ Free(held) <= Free(held')
  BY <1>2, UsedNat, UsedGrows, FreeBounds
<1>4. Used(held') <= Total
  BY <1>2, <1>3 DEF Accounted
<1>5. avail' <= Free(held')
  <2>1. CASE copy[p].value # copy[p].loaded
    BY <1>1, <1>2, <1>3, <2>1 DEF StaleWrite
  <2>2. CASE copy[p].value = copy[p].loaded
    BY <1>1, <1>2, <1>3, <2>2 DEF Accounted
  <2> QED BY <2>1, <2>2
<1> QED BY <1>4, <1>5 DEF Accounted

\* Only a recomputation overtaken by a batch, refresh_worker_capacity without
\* the row lock, can make the column promise more than the worker has.
THEOREM Overstatement == Spec => OnlyStaleWritesOverstate
<1>1. ASSUME CapacityIInv, [Next]_vars
      PROVE  [Accounted => Accounted' \/ \E p \in Refreshers : StaleWrite(p)]_vars
  <2> SUFFICES ASSUME Next, Accounted, \A p \in Refreshers : ~ StaleWrite(p)
               PROVE  Accounted'
    BY <1>1, Zenon
  <2>1. ASSUME UNCHANGED <<held, avail>> PROVE Accounted'
    BY <2>1 DEF Accounted
  <2>2. CASE CommitBatch
    BY <1>1, <2>2, BatchAccounts
  <2>3. ASSUME NEW p \in Refreshers, CommitRefresh(p) PROVE Accounted'
    BY <1>1, <2>3, RefreshAccounts
  <2> QED BY <2>1, <2>2, <2>3 DEF Next, Recover, Place, Refresh, ReadWorker, SumAllocations
<1> QED BY <1>1, CapacityInvariant, PTL DEF Spec, OnlyStaleWritesOverstate
=============================================================================
