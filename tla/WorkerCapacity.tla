--------------------------- MODULE WorkerCapacity ---------------------------
(***************************************************************************)
(* The free-capacity column of one worker row, statement by statement.     *)
(*                                                                         *)
(* workers.available_cpu caches total_cpu minus the cpu of the worker's    *)
(* unreleased allocations.  The scheduler changes it under the row lock of *)
(* SELECT ... FOR UPDATE.  release_allocation and heartbeat_worker read    *)
(* the row and sum the allocations without a lock, and write the result at *)
(* commit; register_worker takes the lock first.  Under READ COMMITTED a   *)
(* statement sees what is committed when it runs.  The ORM leaves a column *)
(* out of its UPDATE if the new value equals the one it loaded.  Memory    *)
(* and the run count are kept in the same way.                             *)
(*                                                                         *)
(* The statuses of the runs and the choice among several workers are the   *)
(* business of RunControl: here a run is placed at most once, then it is   *)
(* released by the worker's outcome commit or by the scheduler's recovery. *)
(***************************************************************************)
EXTENDS Integers, FiniteSetsExt

CONSTANTS
  Runs,    \* runs that may be placed on the worker
  Cpu,     \* requested_cpu of each
  Total    \* total_cpu of the worker

ASSUME CapacityAssumption ==
  /\ IsFiniteSet(Runs) /\ Runs \cap {"none", "scheduler", "heartbeat", "register"} = {}
  /\ Cpu \in [Runs -> Nat \ {0}]
  /\ Total \in Nat

VARIABLES
  waiting,   \* queued runs
  held,      \* runs with an unreleased allocation, as committed
  avail,     \* workers.available_cpu, as committed
  lock,      \* which transaction holds the lock of the worker row
  batch,     \* the scheduler transaction: what it has placed, released and set
  copy       \* the transactions that recompute: the row they read, their sum

vars == <<waiting, held, avail, lock, batch, copy>>

\* A release of a run's allocation by its worker, the heartbeat loop, and a
\* registration of the worker's name.
Refreshers == Runs \cup {"heartbeat", "register"}

Idle == [phase |-> "idle", loaded |-> 0, value |-> 0]
NoBatch == [open |-> FALSE, placed |-> {}, released |-> {}, avail |-> 0]

Used(rs) == MapThenSumSet(LAMBDA r : Cpu[r], rs)

\* refresh_worker_capacity: max(0, total - sum).
Free(rs) == IF Used(rs) > Total THEN 0 ELSE Total - Used(rs)

CapacityTypeOK ==
  /\ waiting \subseteq Runs
  /\ held \subseteq Runs \ waiting
  /\ avail \in 0..Total
  /\ lock \in {"none", "scheduler", "register"}
  /\ batch \in [open : BOOLEAN, placed : SUBSET waiting, released : SUBSET held,
                avail : 0..Total]
  /\ copy \in [Refreshers -> [phase : {"idle", "read", "summed"},
                              loaded : 0..Total, value : 0..Total]]

Init ==
  /\ waiting = Runs
  /\ held = {}
  /\ avail = Total
  /\ lock = "none"
  /\ batch = NoBatch
  /\ copy = [p \in Refreshers |-> Idle]

-----------------------------------------------------------------------------
(***************************************************************************)
(* The scheduler's transaction.  Once it has written or locked the row it  *)
(* works on its own value until the commit.                                *)
(***************************************************************************)

\* Mutant: the rows are selected without FOR UPDATE.
CanLockAnyway(who) == TRUE

CanLock(who) == lock \in {"none", who}

\* Recovery: its release recomputes from what the session sees, and the next
\* query flushes the row.  An allocation locked by its worker's own release
\* is skipped.
Recover(r) ==
  /\ CanLock("scheduler")
  /\ batch.placed = {}
  /\ r \in held \ batch.released
  /\ copy[r].phase = "idle"
  /\ lock' = "scheduler"
  /\ batch' = [batch EXCEPT !.open = TRUE, !.released = @ \cup {r},
                            !.avail = Free(held \ (batch.released \cup {r}))]
  /\ UNCHANGED <<waiting, held, avail, copy>>

\* Mutant: the size of the run is not compared with the free capacity.
FitsAnyway(r, free) == free > 0

\* The WHERE clause on the worker row.
Fits(r, free) == free >= Cpu[r]

Place(r) ==
  LET free == IF batch.open THEN batch.avail ELSE avail IN
  /\ CanLock("scheduler")
  /\ r \in waiting \ batch.placed
  /\ Fits(r, free)
  /\ lock' = "scheduler"
  /\ batch' = [batch EXCEPT !.open = TRUE, !.placed = @ \cup {r},
                            !.avail = free - Cpu[r]]
  /\ UNCHANGED <<waiting, held, avail, copy>>

CommitBatch ==
  /\ batch.open
  /\ held' = (held \ batch.released) \cup batch.placed
  /\ waiting' = waiting \ batch.placed
  /\ avail' = batch.avail
  /\ lock' = "none"
  /\ batch' = NoBatch
  /\ UNCHANGED copy

-----------------------------------------------------------------------------
(***************************************************************************)
(* The transactions that recompute the column.                             *)
(***************************************************************************)

\* session.get(Worker, ...), or the locking SELECT of register_worker.  A
\* release is of an active allocation that the scheduler has not locked.
ReadWorker(p) ==
  /\ copy[p].phase = "idle"
  /\ p \in Runs => p \in held \ batch.released
  /\ IF p = "register" THEN lock = "none" /\ lock' = p ELSE UNCHANGED lock
  /\ copy' = [copy EXCEPT ![p].phase = "read", ![p].loaded = avail]
  /\ UNCHANGED <<waiting, held, avail, batch>>

\* Mutant: the new value is derived from the value read, not from the sum.
RecomputedFromRow(p) == copy[p].loaded

\* The sum over the unreleased allocations; a release has flushed its own.
Recomputed(p) == Free(held \ {p})

SumAllocations(p) ==
  /\ copy[p].phase = "read"
  /\ copy' = [copy EXCEPT ![p].phase = "summed", ![p].value = Recomputed(p)]
  /\ UNCHANGED <<waiting, held, avail, lock, batch>>

\* The UPDATE waits for the row lock; without a net change there is none.
CommitRefresh(p) ==
  LET writes == copy[p].value # copy[p].loaded IN
  /\ copy[p].phase = "summed"
  /\ writes => CanLock(p)
  /\ avail' = IF writes THEN copy[p].value ELSE avail
  /\ lock' = IF lock = p THEN "none" ELSE lock
  /\ held' = held \ {p}
  /\ copy' = [copy EXCEPT ![p] = Idle]
  /\ UNCHANGED <<waiting, batch>>

Refresh(p) == ReadWorker(p) \/ SumAllocations(p) \/ CommitRefresh(p)

Next ==
  \/ \E r \in Runs : Recover(r) \/ Place(r)
  \/ CommitBatch
  \/ \E p \in Refreshers : Refresh(p)

Spec == Init /\ [][Next]_vars

\* The scheduler finishes its transactions, and the heartbeat loop goes on.
FairSpec ==
  /\ Spec
  /\ WF_vars(CommitBatch)
  /\ \A p \in Refreshers : WF_vars(SumAllocations(p)) /\ WF_vars(CommitRefresh(p))
  /\ WF_vars(Refresh("heartbeat"))

-----------------------------------------------------------------------------
\* Whatever the recomputations overwrite, the column ends up right: once
\* runs stop being placed and released, the heartbeats make it the free
\* capacity of the worker.
CapacityConverges == <>[](avail = Free(held))

\* The committed column promises no more than there is.
Accounted == avail <= Free(held) /\ Used(held) <= Total

\* The UPDATE of a recomputation that was overtaken: the sum was taken before
\* a batch committed, and promises more than is free by now.
StaleWrite(p) ==
  /\ CommitRefresh(p)
  /\ copy[p].value # copy[p].loaded
  /\ copy[p].value > Free(held')

\* Only an overtaken recomputation breaks the account.  The scheduler's
\* batches keep it, however they mix placements with recoveries and whatever
\* is released meanwhile, because they work under the row lock; so does every
\* recomputation that is still true when it is written.
OnlyStaleWritesOverstate ==
  [][Accounted => Accounted' \/ \E p \in Refreshers : StaleWrite(p)]_vars

\* test_scheduler.py: a run stays queued when capacity is insufficient.  The
\* runs placed on a worker never ask for more than it has.
NeverOversubscribed == Used(held) <= Total
=============================================================================
