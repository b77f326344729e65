-------------------------- MODULE RunControlProofs --------------------------
(***************************************************************************)
(* Machine-checked proofs about RunControl, for every set of runs and      *)
(* workers and every value of the bounds.                                  *)
(***************************************************************************)
EXTENDS RunControl, TLAPS

\* The leases that a pass grants are well formed, and the pass keeps types.
LEMMA PassType ==
  ASSUME TypeOK,
         NEW stale \in SUBSET StaleWorkers, NEW lost \in SUBSET Recoverable(stale),
         NEW granted \in SUBSET Runs, NEW place \in [granted -> Healthy(stale)],
         SchedulePass(stale, lost, place)
  PROVE  TypeOK'
<1> DEFINE kept == Unreleased({a.run : a \in lost})
           new == {[run |-> r, seq |-> leaseNo[r] + 1, worker |-> place[r]] : r \in granted}
           recovered == [r \in Runs |-> IF r \in {a.run : a \in lost}
                                          THEN Recovered(status[r]) ELSE status[r]]
<1>3. granted = DOMAIN place /\ \A r \in granted : place[r] \in Workers
  BY DEF Healthy
<1>4. \A r \in granted : r \in Runs /\ leaseNo[r] + 1 \in 1..MaxLeases
  <2>1. \A r \in granted : leaseNo[r] < MaxLeases
    BY <1>3 DEF SchedulePass
  <2>2. \A r \in granted : r \in Runs /\ leaseNo[r] \in 0..MaxLeases
    BY DEF TypeOK
  <2> QED BY <2>1, <2>2, ConstantsAssumption
<1>5. new \subseteq Lease
  BY <1>3, <1>4 DEF Lease
<1>6. kept \subseteq allocs
  BY DEF Unreleased
<1>7. recovered \in [Runs -> RowStatus]
  BY DEF Recovered, TypeOK, RowStatus, RunStatus
<1>8. /\ allocs' = kept \cup new /\ lapsed' = lapsed \cap kept /\ outbox' = outbox \cup new
      /\ status' = [r \in Runs |-> IF r \in granted THEN "SCHEDULING" ELSE recovered[r]]
      /\ version' = [r \in Runs |->
                       version[r] + (IF recovered[r] # status[r] THEN 1 ELSE 0)
                                  + (IF r \in granted THEN 1 ELSE 0)]
      /\ assigned' = [r \in Runs |-> Assignee(r, place, recovered[r])]
      /\ leaseNo' = [r \in Runs |-> IF r \in granted THEN leaseNo[r] + 1 ELSE leaseNo[r]]
      /\ wstatus' = [w \in Workers |-> IF w \in stale THEN "STALE" ELSE wstatus[w]]
      /\ UNCHANGED <<parent, attempt, fresh, tries, inbox, processed, store, procVars>>
  BY <1>3 DEF SchedulePass
<1>9. /\ status' \in [Runs -> RowStatus]
      /\ version' \in [Runs -> Nat]
      /\ assigned' \in [Runs -> Workers \cup {NoWorker}]
      /\ leaseNo' \in [Runs -> 0..MaxLeases]
      /\ wstatus' \in [Workers -> {"UNREGISTERED", "ONLINE", "STALE"}]
  <2> HIDE DEF recovered, kept, new
  <2>1. status' \in [Runs -> RowStatus]
    BY <1>7, <1>8 DEF RowStatus, RunStatus
  <2>2. version' \in [Runs -> Nat]
    BY <1>8 DEF TypeOK
  <2>3. assigned' \in [Runs -> Workers \cup {NoWorker}]
    BY <1>3, <1>8 DEF TypeOK, Assignee
  <2>4. leaseNo' \in [Runs -> 0..MaxLeases]
    BY <1>4, <1>8 DEF TypeOK
  <2>5. wstatus' \in [Workers -> {"UNREGISTERED", "ONLINE", "STALE"}]
    BY <1>8 DEF TypeOK
  <2> QED BY <2>1, <2>2, <2>3, <2>4, <2>5
<1> HIDE DEF recovered, kept, new
<1> QED BY <1>5, <1>6, <1>8, <1>9 DEF TypeOK, procVars

\* The initial state is well typed.
LEMMA InitType == Init => TypeOK
BY ConstantsAssumption, NoJobAssumption DEF Init, TypeOK, Resting, RowStatus, PC, Lease

\* One step per group of actions; the groups leave most variables alone.
LEMMA NextType == TypeOK /\ [Next]_vars => TypeOK'
<1> SUFFICES ASSUME TypeOK, [Next]_vars PROVE TypeOK'
  OBVIOUS
<1> USE ConstantsAssumption, NoJobAssumption
<1>1. ASSUME NEW r \in Runs, NEW p \in Runs \cup {NoRun}, NEW n \in Nat, InsertRun(r, p, n)
      PROVE  TypeOK'
  BY <1>1 DEF InsertRun, TypeOK, leaseVars, workerRows, mailVars, procVars,
              RowStatus, RunStatus
<1>2. ASSUME NEW r \in Runs, CancelRun(r) \/ UpdateRunMetadata(r) PROVE TypeOK'
  <2>1. CASE CancelRun(r)
    BY <2>1 DEF Touched, CancelRun, TypeOK, leaseVars, workerRows, mailVars, procVars,
                RowStatus, RunStatus
  <2>2. CASE UpdateRunMetadata(r)
    BY <2>2 DEF Touched, UpdateRunMetadata, TypeOK, leaseVars, workerRows, mailVars, procVars
  <2> QED BY <1>2, <2>1, <2>2
<1>3. ASSUME NEW w \in Workers, StartWorker(w) \/ RegisterByAdmin(w) PROVE TypeOK'
  <2>1. CASE StartWorker(w)
    BY <2>1 DEF StartWorker, RegisterWorker, TypeOK, Resting, rowVars, leaseVars, mailVars, PC
  <2>2. CASE RegisterByAdmin(w)
    BY <2>2 DEF RegisterByAdmin, RegisterWorker, TypeOK, rowVars, leaseVars, mailVars,
                procVars
  <2> QED BY <1>3, <2>1, <2>2
<1>4. ASSUME NEW w \in Workers,
             HeartbeatLoop(w) \/ HeartbeatByAdmin(w) \/ HeartbeatLapses(w)
      PROVE  TypeOK'
  <2>1. CASE HeartbeatWorker(w)
    <3>1. wstatus' \in [Workers -> {"UNREGISTERED", "ONLINE", "STALE"}]
      BY <2>1 DEF HeartbeatWorker, TypeOK
    <3>2. fresh' \in [Workers -> BOOLEAN] /\ lapsed' \subseteq allocs'
      BY <2>1 DEF HeartbeatWorker, StillLapsed, TypeOK
    <3>3. UNCHANGED <<rowVars, allocs, mailVars, processed, store, procVars>>
      BY <2>1 DEF HeartbeatWorker
    <3> QED BY <3>1, <3>2, <3>3 DEF TypeOK, rowVars, mailVars, procVars
  <2>2. CASE HeartbeatLapses(w)
    BY <2>2 DEF HeartbeatLapses, TypeOK, rowVars, leaseVars, mailVars, procVars
  <2> QED BY <1>4, <2>1, <2>2 DEF HeartbeatLoop, HeartbeatByAdmin
<1>5. ASSUME NEW a \in allocs, LeaseLapses(a) PROVE TypeOK'
  BY <1>5 DEF LeaseLapses, TypeOK, rowVars, workerRows, mailVars, procVars
<1>6. ASSUME NEW e \in outbox, Publish(e) \/ PublishUnmarked(e) \/ PublishFails(e)
      PROVE  TypeOK'
  <2>1. e \in Lease /\ e.worker \in Workers
    BY DEF TypeOK, Lease
  <2>2. /\ Delivered(e) \in [Workers -> SUBSET Lease]
        /\ \A w \in Workers : \A x \in Delivered(e)[w] : x.worker = w
    BY <2>1 DEF Delivered, TypeOK
  <2>3. inbox' \in {inbox, Delivered(e)} /\ tries' \in [Lease -> 0..MaxAttempts]
    BY <1>6, <2>1 DEF Publish, PublishUnmarked, PublishFails, Dispatchable, TypeOK
  <2>4. outbox' \subseteq outbox
    BY <1>6 DEF Publish, PublishUnmarked, PublishFails
  <2>5. UNCHANGED <<rowVars, leaseVars, workerRows, processed, store, procVars>>
    BY <1>6 DEF Publish, PublishUnmarked, PublishFails
  <2> QED BY <2>2, <2>3, <2>4, <2>5 DEF TypeOK, rowVars, leaseVars, workerRows, procVars
<1>7. ASSUME NEW w \in Workers, NEW e \in inbox[w], ReceiveEvent(w, e) PROVE TypeOK'
  <2>1. e \in Lease /\ e.worker = w /\ e.run \in Runs
    BY DEF TypeOK, Lease
  <2>2. Reception(e) \in {"acking", "marking", "starting"}
    BY DEF Reception
  <2> QED BY <1>7, <2>1, <2>2 DEF ReceiveEvent, ReadRow, Elsewhere, TypeOK, Resting, leaseVars,
                                  workerRows, PC
<1>8. ASSUME NEW w \in Workers, pc[w] \notin Resting, Raise(w), store' \subseteq Runs
      PROVE  TypeOK'
  <2>1. AfterException(w) \in {"failing", "acking"}
    BY DEF AfterException
  <2> QED BY <1>8, <2>1 DEF Raise, Elsewhere, TypeOK, Resting, leaseVars, workerRows, PC
<1>9. ASSUME NEW w \in Workers, pc[w] \notin Resting PROVE job[w].run \in Runs
  BY <1>9 DEF TypeOK, Lease
<1>10. ASSUME NEW w \in Workers, StartRun(w) PROVE TypeOK'
  <2>1. CASE ~RowUnchanged(w)
    BY <1>8, <1>10, <2>1 DEF StartRun, TypeOK, Resting
  <2>2. CASE RowUnchanged(w)
    <3>1. job[w].run \in Runs /\ pc[w] = "starting"
      BY <1>9, <1>10 DEF StartRun, Resting
    <3>2. /\ status' \in [Runs -> RowStatus] /\ seen' \in [Workers -> RowStatus]
          /\ version' \in [Runs -> Nat] /\ ver' \in [Workers -> Nat]
      <4>1. /\ status' = [status EXCEPT ![job[w].run] = "RUNNING"]
            /\ version' = [version EXCEPT ![job[w].run] = version[job[w].run] + 1]
            /\ seen' = [seen EXCEPT ![w] = "RUNNING"]
            /\ ver' = [ver EXCEPT ![w] = ver[w] + 1]
        BY <1>10, <2>2 DEF Touched, StartRun
      <4> QED BY <3>1, <4>1 DEF TypeOK, RowStatus, RunStatus
    <3>3. /\ step' = [step EXCEPT ![w] = 0]
          /\ pc' = [pc EXCEPT ![w] = "executing"]
          /\ UNCHANGED <<Elsewhere, leaseVars, inbox, processed, store, job, target>>
      BY <1>10, <2>2 DEF StartRun
    <3> QED BY <3>1, <3>2, <3>3 DEF Elsewhere, TypeOK, Resting, leaseVars, workerRows, PC
  <2> QED BY <2>1, <2>2
<1>11. ASSUME NEW w \in Workers, Checkpoint(w) PROVE TypeOK'
  <2>1. job[w].run \in Runs /\ pc[w] = "executing"
    BY <1>9, <1>11 DEF Checkpoint, Resting
  <2>2. seen' \in [Workers -> RowStatus] /\ ver' \in [Workers -> Nat]
    BY <1>11, <2>1 DEF Checkpoint, ReadRow, TypeOK
  <2>3. UNCHANGED <<Elsewhere, status, version, leaseVars, inbox, processed, store, job>>
    BY <1>11 DEF Checkpoint
  <2>4. CASE status[job[w].run] = "CANCELLING"
    <3>1. /\ target' = [target EXCEPT ![w] = "CANCELLED"]
          /\ pc' = [pc EXCEPT ![w] = "committing"] /\ UNCHANGED step
      BY <1>11, <2>4 DEF CancelRequested, Checkpoint
    <3> QED BY <2>1, <2>2, <2>3, <3>1 DEF Elsewhere, TypeOK, Resting, leaseVars, workerRows, PC,
                                          RowStatus, RunStatus, Outcomes
  <2>5. CASE status[job[w].run] # "CANCELLING"
    <3>1. /\ step' = [step EXCEPT ![w] = step[w] + 1]
          /\ pc' = [pc EXCEPT ![w] = IF step[w] + 1 = Steps THEN "finishing" ELSE pc[w]]
          /\ UNCHANGED target
      BY <1>11, <2>5 DEF CancelRequested, LastCheckpoint, Checkpoint
    <3>2. step[w] + 1 \in 0..Steps /\ (step[w] + 1 # Steps => step[w] + 1 < Steps)
      BY <2>1 DEF TypeOK
    <3>3. step' \in [Workers -> 0..Steps] /\ pc' \in [Workers -> PC]
      BY <3>1, <3>2 DEF TypeOK, PC
    <3> QED BY <2>1, <2>2, <2>3, <3>1, <3>2, <3>3
            DEF Elsewhere, TypeOK, Resting, leaseVars, workerRows
  <2> QED BY <2>4, <2>5
<1>12. ASSUME NEW w \in Workers, pc[w] \notin Resting,
              NEW outcome \in {"FAILED", "SUCCEEDED"}, Resolve(w, outcome),
              store' \subseteq Runs,
              seen' \in [Workers -> RowStatus], ver' \in [Workers -> Nat]
       PROVE  TypeOK'
  BY <1>12 DEF Resolve, Elsewhere, TypeOK, Resting, leaseVars, workerRows, PC, RowStatus, RunStatus,
               Outcomes
<1>13. ASSUME NEW w \in Workers, FinishSlow(w) PROVE TypeOK'
  <2>1. pc[w] \notin Resting /\ UNCHANGED <<seen, ver>>
    BY <1>13 DEF FinishSlow, Resting
  <2>2. store' \subseteq Runs
    BY <1>9, <1>13, <2>1 DEF FinishSlow, Upload, UploadFails, TypeOK
  <2>3. \E outcome \in {"FAILED", "SUCCEEDED"} : Resolve(w, outcome)
    BY <1>13 DEF FinishSlow
  <2>4. seen' \in [Workers -> RowStatus] /\ ver' \in [Workers -> Nat]
    BY <2>1 DEF TypeOK
  <2> QED BY <1>12, <2>1, <2>2, <2>3, <2>4
<1>14. ASSUME NEW w \in Workers, ExecuteTemplate(w) PROVE TypeOK'
  <2>1. pc[w] \notin Resting
    BY <1>14 DEF ExecuteTemplate, Resting
  <2>2. store' \subseteq Runs
    BY <1>9, <1>14, <2>1 DEF ExecuteTemplate, Upload, UploadFails, TypeOK
  <2>3. Raise(w) \/ (Resolve(w, "SUCCEEDED") /\ UNCHANGED <<seen, ver>>)
    BY <1>14 DEF ExecuteTemplate
  <2>4. UNCHANGED <<seen, ver>> => seen' \in [Workers -> RowStatus] /\ ver' \in [Workers -> Nat]
    BY DEF TypeOK
  <2> QED BY <1>8, <1>12, <2>1, <2>2, <2>3, <2>4
<1>15. ASSUME NEW w \in Workers, HandleFailure(w) PROVE TypeOK'
  <2>1. pc[w] \notin Resting /\ store' \subseteq Runs
    BY <1>15 DEF HandleFailure, TypeOK, Resting
  <2>2. Raise(w) \/ (Resolve(w, "FAILED") /\ ReadRow(w, job[w].run))
    BY <1>15 DEF HandleFailure
  <2>3. ReadRow(w, job[w].run) => seen' \in [Workers -> RowStatus] /\ ver' \in [Workers -> Nat]
    BY <1>9, <2>1 DEF ReadRow, TypeOK
  <2> QED BY <1>8, <1>12, <2>1, <2>2, <2>3
<1>16. ASSUME NEW w \in Workers, CommitOutcome(w) PROVE TypeOK'
  <2>1. CASE ~OutcomeAdmitted(w)
    BY <1>8, <1>16, <2>1 DEF CommitOutcome, TypeOK, Resting
  <2>2. CASE OutcomeAdmitted(w)
    <3>1. /\ pc[w] = "committing"
          /\ status' = [status EXCEPT ![job[w].run] = target[w]]
          /\ version' = [version EXCEPT ![job[w].run] = version[job[w].run] + 1]
          /\ allocs' \subseteq allocs /\ lapsed' \subseteq allocs'
          /\ pc' = [pc EXCEPT ![w] = "marking"]
      BY <1>16, <2>2 DEF Touched, CommitOutcome, Unreleased
    <3>2. UNCHANGED <<Elsewhere, inbox, processed, job, seen, ver, step, target, store>>
      BY <1>16, <2>2 DEF CommitOutcome
    <3>3. status' \in [Runs -> RowStatus] /\ version' \in [Runs -> Nat]
      BY <1>9, <3>1 DEF TypeOK, Resting
    <3> QED BY <3>1, <3>2, <3>3 DEF Elsewhere, TypeOK, Resting, workerRows, PC
  <2> QED BY <2>1, <2>2
<1>17. ASSUME NEW w \in Workers, MarkProcessed(w) PROVE TypeOK'
  BY <1>17 DEF MarkProcessed, Elsewhere, TypeOK, Resting, leaseVars, workerRows, PC
<1>18. ASSUME NEW w \in Workers, NEW p \in Resting, Settle(w, p),
              inbox' \in [Workers -> SUBSET Lease],
              \A v \in Workers : inbox'[v] \subseteq inbox[v]
       PROVE  TypeOK'
  BY <1>18 DEF Settle, Elsewhere, TypeOK, Resting, leaseVars, workerRows, PC, RowStatus
<1>19. ASSUME NEW w \in Workers, CommitOffset(w) \/ OffsetCommitFails(w) \/ Crash(w)
       PROVE  TypeOK'
  <2>1. /\ inbox' \in [Workers -> SUBSET Lease]
        /\ \A v \in Workers : inbox'[v] \subseteq inbox[v]
    BY <1>19 DEF CommitOffset, OffsetCommitFails, Crash, TypeOK
  <2>2. \E p \in Resting : Settle(w, p)
    BY <1>19 DEF CommitOffset, Resting, OffsetCommitFails, Crash
  <2> QED BY <1>18, <2>1, <2>2
<1>20. ASSUME NEW w \in Workers, ProcessingFails(w) PROVE TypeOK'
  BY <1>8, <1>20 DEF ProcessingFails, TypeOK, Resting
<1>21. CASE ScheduleOnce
  BY <1>21, PassType DEF ScheduleOnce
<1>22. CASE ApiNext
  <2>1. ASSUME NEW r \in Runs, CreateRun(r) PROVE TypeOK'
    BY <1>1, <2>1 DEF CreateRun
  <2>2. ASSUME NEW p \in Runs, NEW c \in Runs, RetryRun(p, c) PROVE TypeOK'
    <3>1. attempt[p] + 1 \in Nat
      BY DEF TypeOK
    <3> QED BY <1>1, <2>2, <3>1 DEF RetryRun
  <2> QED BY <1>2, <1>22, <2>1, <2>2 DEF ApiNext
<1>23. CASE RegistryNext
  BY <1>3, <1>4, <1>5, <1>23 DEF RegistryNext
<1>24. CASE MailNext
  BY <1>6, <1>24 DEF MailNext
<1>25. ASSUME NEW w \in Workers, WorkerStep(w) \/ WorkerFault(w) PROVE TypeOK'
  BY <1>7, <1>10, <1>11, <1>13, <1>14, <1>15, <1>16, <1>17, <1>19, <1>20, <1>25
     DEF WorkerStep, WorkerFault
<1>26. CASE UNCHANGED vars
  BY <1>26 DEF vars, rowVars, leaseVars, workerRows, mailVars, procVars, TypeOK
<1> QED BY <1>21, <1>22, <1>23, <1>24, <1>25, <1>26 DEF Next

\* Types are kept by every operation of the API, the scheduler, the
\* dispatcher and the workers; in particular a worker is never left with a
\* half-handled event when it waits.
THEOREM TypeCorrect == Spec => []TypeOK
BY InitType, NextType, PTL DEF Spec

-----------------------------------------------------------------------------
(***************************************************************************)
(* The inductive invariant.  LeaseIffActive and NoDoubleExecution are not  *)
(* inductive by themselves: that a worker's commit releases the right      *)
(* allocation, and that only one worker can pass the start, rests on what  *)
(* the version check tells about the copies that the workers hold.         *)
(***************************************************************************)
Coherent ==
  /\ LeaseIffActive
  /\ OneLeaseAsAssigned
  /\ CopyIsHistory
  /\ ExecutorHoldsLease
  /\ NoDoubleExecution
  /\ SucceededHasArtifact
  /\ RetryOfFailed

\* Initially no run has a lease or an executor.
LEMMA InitCoherent == Init => Coherent
BY DEF Init, Coherent, LeaseIffActive, OneLeaseAsAssigned, CopyIsHistory,
       ExecutorHoldsLease, NoDoubleExecution, SucceededHasArtifact, RetryOfFailed,
       LeasedStatuses, Executing

\* A worker with an event in hand has a run in hand.
LEMMA JobRun ==
  ASSUME TypeOK, NEW w \in Workers, pc[w] \notin Resting
  PROVE  job[w] \in Lease /\ job[w].run \in Runs
BY DEF TypeOK, Lease

\* Registry and mail steps change nothing that the invariant speaks of.
LEMMA InertStep ==
  ASSUME TypeOK, Coherent,
         UNCHANGED <<status, version, parent, attempt, assigned, allocs, store, procVars>>
  PROVE  Coherent'
BY DEF Coherent, LeaseIffActive, OneLeaseAsAssigned, CopyIsHistory, RowUnchanged,
       ExecutorHoldsLease, NoDoubleExecution, SucceededHasArtifact, RetryOfFailed, procVars

\* A step of one worker that leaves the rows and allocations alone: it is
\* out of the run, or goes on with the same run, with the copy it had or a
\* new one, claiming success only for what is stored.
LEMMA PrivateStep ==
  ASSUME TypeOK, Coherent, NEW w \in Workers,
         UNCHANGED <<status, version, parent, attempt, assigned, allocs>>,
         store \subseteq store',
         \A v \in Workers \ {w} : /\ pc'[v] = pc[v] /\ job'[v] = job[v] /\ seen'[v] = seen[v]
                                  /\ ver'[v] = ver[v] /\ target'[v] = target[v],
         \/ pc'[w] \notin Executing \cup {"starting"}
         \/ /\ pc[w] \in Executing /\ pc'[w] \in Executing /\ job'[w] = job[w]
            /\ \/ seen'[w] = seen[w] /\ ver'[w] = ver[w]
               \/ seen'[w] = status[job[w].run] /\ ver'[w] = version[job[w].run]
            /\ pc'[w] = "committing" /\ target'[w] = "SUCCEEDED" => job[w].run \in store'
  PROVE  Coherent'
<1>1. LeaseIffActive' /\ OneLeaseAsAssigned' /\ RetryOfFailed'
  BY DEF Coherent, LeaseIffActive, OneLeaseAsAssigned, RetryOfFailed
<1>2. pc[w] \in Executing => job[w].run \in Runs /\ version[job[w].run] \in Nat
  BY JobRun DEF TypeOK, Resting, Executing
<1>3. CopyIsHistory'
  BY <1>2 DEF Coherent, CopyIsHistory, RowUnchanged
<1>4. ExecutorHoldsLease'
  BY DEF Coherent, ExecutorHoldsLease, RowUnchanged, Executing
<1>5. NoDoubleExecution'
  BY DEF Coherent, NoDoubleExecution
<1>6. SucceededHasArtifact'
  BY DEF Coherent, SucceededHasArtifact, Executing
<1> QED BY <1>1, <1>3, <1>4, <1>5, <1>6 DEF Coherent

\* A new row: no worker and no allocation knows the run yet.
LEMMA InsertCoherent ==
  ASSUME TypeOK, Coherent, NEW r \in Runs, NEW p \in Runs \cup {NoRun}, NEW n \in Nat,
         InsertRun(r, p, n), p # NoRun => status[p] = "FAILED" /\ n = attempt[p] + 1
  PROVE  Coherent'
<1>1. /\ status[r] = "NONE"
      /\ status' = [status EXCEPT ![r] = "QUEUED"] /\ version' = [version EXCEPT ![r] = 2]
      /\ parent' = [parent EXCEPT ![r] = p] /\ attempt' = [attempt EXCEPT ![r] = n]
      /\ UNCHANGED <<assigned, allocs, store, pc, job, seen, ver, target>>
  BY DEF InsertRun, leaseVars, procVars
<1>2. ASSUME NEW w \in Workers, pc[w] \in Executing \cup {"starting"}
      PROVE  /\ job[w].run \in Runs /\ job[w].run # r
             /\ status'[job[w].run] = status[job[w].run]
             /\ version'[job[w].run] = version[job[w].run]
  <2>1. job[w].run \in Runs /\ job[w].run # r
    BY <1>1, <1>2, JobRun DEF Coherent, Resting, CopyIsHistory, Executing
  <2> QED BY <1>1, <2>1 DEF TypeOK
<1>3. LeaseIffActive' /\ OneLeaseAsAssigned'
  BY <1>1 DEF Coherent, LeaseIffActive, OneLeaseAsAssigned, LeasedStatuses, TypeOK
<1>4. SucceededHasArtifact'
  BY <1>1 DEF Coherent, SucceededHasArtifact, TypeOK
<1>5. RetryOfFailed'
  BY <1>1, ConstantsAssumption DEF Coherent, RetryOfFailed, TypeOK
<1>6. NoDoubleExecution'
  BY <1>1 DEF Coherent, NoDoubleExecution
<1>7. CopyIsHistory' /\ ExecutorHoldsLease'
  BY <1>1, <1>2 DEF Coherent, CopyIsHistory, ExecutorHoldsLease, RowUnchanged
<1> QED BY <1>3, <1>4, <1>5, <1>6, <1>7 DEF Coherent

\* A row changes its version, and its status within the leased or within the
\* finished statuses it was in: cancellation requests and metadata edits.
LEMMA RowCoherent ==
  ASSUME TypeOK, Coherent, NEW r \in Runs, status[r] # "NONE",
         \/ UNCHANGED status
         \/ status[r] = "RUNNING" /\ status' = [status EXCEPT ![r] = "CANCELLING"],
         version' = [version EXCEPT ![r] = version[r] + 1],
         UNCHANGED <<parent, attempt, assigned, allocs, store, procVars>>
  PROVE  Coherent'
<1>1. /\ \A q \in Runs : /\ status'[q] \in LeasedStatuses <=> status[q] \in LeasedStatuses
                         /\ status'[q] \in StartedStatuses <=> status[q] \in StartedStatuses
                         /\ q # r => status'[q] = status[q] /\ version'[q] = version[q]
                         /\ status'[q] = "SUCCEEDED" => status[q] = "SUCCEEDED"
                         /\ status[q] = "FAILED" => status'[q] = "FAILED"
                         /\ status[q] # "NONE" => status'[q] # "NONE"
      /\ version'[r] = version[r] + 1
      /\ UNCHANGED <<pc, job, seen, ver, target>>
  BY DEF TypeOK, LeasedStatuses, StartedStatuses, procVars
<1>2. LeaseIffActive' /\ OneLeaseAsAssigned' /\ NoDoubleExecution' /\ SucceededHasArtifact'
  BY <1>1 DEF Coherent, LeaseIffActive, OneLeaseAsAssigned, NoDoubleExecution,
              SucceededHasArtifact
<1>3. RetryOfFailed'
  BY <1>1 DEF Coherent, RetryOfFailed, TypeOK
<1>4. ASSUME NEW w \in Workers, pc[w] \in Executing \cup {"starting"}
      PROVE  /\ job[w].run \in Runs /\ ver[w] \in Nat /\ version[job[w].run] \in Nat
             /\ ver[w] <= version'[job[w].run]
             /\ ver[w] = version'[job[w].run] => job[w].run # r /\ ver[w] = version[job[w].run]
  <2>1. job[w].run \in Runs /\ ver[w] \in Nat /\ version[job[w].run] \in Nat
    BY <1>4, JobRun DEF TypeOK, Resting, Executing
  <2>2. ver[w] <= version[job[w].run]
    BY <1>4 DEF Coherent, CopyIsHistory
  <2> QED BY <1>1, <2>1, <2>2
<1>5. CopyIsHistory'
  BY <1>1, <1>4 DEF Coherent, CopyIsHistory, RowUnchanged
<1>6. ExecutorHoldsLease'
  BY <1>1, <1>4 DEF Coherent, ExecutorHoldsLease, RowUnchanged
<1> QED BY <1>2, <1>3, <1>5, <1>6 DEF Coherent

\* A worker takes up an event: its copy is the row itself.
LEMMA ReceiveCoherent ==
  ASSUME TypeOK, Coherent, NEW w \in Workers, NEW e \in inbox[w], ReceiveEvent(w, e)
  PROVE  Coherent'
<1>1. /\ pc[w] = "idle" /\ job' = [job EXCEPT ![w] = e] /\ pc' = [pc EXCEPT ![w] = Reception(e)]
      /\ seen' = [seen EXCEPT ![w] = status[e.run]] /\ ver' = [ver EXCEPT ![w] = version[e.run]]
      /\ UNCHANGED <<status, version, parent, attempt, assigned, allocs, store, target>>
  BY DEF ReceiveEvent, ReadRow, Elsewhere, leaseVars
<1>2. e.run \in Runs
  BY DEF TypeOK, Lease
<1>3. Reception(e) \notin Executing /\ (Reception(e) = "starting" => Accepts(e))
  BY DEF Reception, Executing
<1>4. LeaseIffActive' /\ OneLeaseAsAssigned' /\ RetryOfFailed'
  BY <1>1 DEF Coherent, LeaseIffActive, OneLeaseAsAssigned, RetryOfFailed
<1>5. \A v \in Workers \ {w} : pc'[v] = pc[v] /\ job'[v] = job[v] /\ seen'[v] = seen[v]
                               /\ ver'[v] = ver[v]
  BY <1>1 DEF TypeOK
<1>6. /\ pc'[w] = Reception(e) /\ job'[w] = e /\ seen'[w] = status[e.run]
      /\ ver'[w] = version[e.run] /\ version[e.run] \in Nat
  BY <1>1, <1>2 DEF TypeOK
<1>7. NoDoubleExecution' /\ SucceededHasArtifact'
  BY <1>1, <1>3, <1>5, <1>6 DEF Coherent, NoDoubleExecution, SucceededHasArtifact, Executing
<1>8. CopyIsHistory'
  BY <1>1, <1>3, <1>5, <1>6 DEF Coherent, CopyIsHistory, RowUnchanged, Accepts
<1>9. ExecutorHoldsLease'
  BY <1>1, <1>3, <1>5, <1>6 DEF Coherent, ExecutorHoldsLease, RowUnchanged, Accepts
<1> QED BY <1>4, <1>7, <1>8, <1>9 DEF Coherent

\* The start: only a worker whose copy is current passes, so its allocation
\* is active and nobody else executes the run.
LEMMA StartCoherent ==
  ASSUME TypeOK, Coherent, NEW w \in Workers, StartRun(w), RowUnchanged(w)
  PROVE  Coherent'
<1> DEFINE r == job[w].run
<1>1. /\ pc[w] = "starting"
      /\ status' = [status EXCEPT ![r] = "RUNNING"]
      /\ version' = [version EXCEPT ![r] = version[r] + 1]
      /\ seen' = [seen EXCEPT ![w] = "RUNNING"]
      /\ ver' = [ver EXCEPT ![w] = ver[w] + 1]
      /\ pc' = [pc EXCEPT ![w] = "executing"]
      /\ UNCHANGED <<parent, attempt, assigned, allocs, store, job, target>>
  BY DEF Touched, StartRun, Elsewhere, leaseVars
<1>2. r \in Runs /\ ver[w] = version[r] /\ version[r] \in Nat
  BY <1>1, JobRun DEF RowUnchanged, TypeOK, Resting
<1>3. status[r] = "SCHEDULING" /\ job[w] \in allocs
  BY <1>1 DEF Coherent, ExecutorHoldsLease
<1>4. /\ \A q \in Runs \ {r} : status'[q] = status[q] /\ version'[q] = version[q]
      /\ status'[r] = "RUNNING" /\ version'[r] = version[r] + 1
      /\ \A v \in Workers \ {w} : pc'[v] = pc[v] /\ seen'[v] = seen[v] /\ ver'[v] = ver[v]
      /\ pc'[w] = "executing" /\ seen'[w] = "RUNNING" /\ ver'[w] = version[r] + 1
  BY <1>1, <1>2 DEF TypeOK
<1>5. ASSUME NEW v \in Workers \ {w}, pc[v] \in Executing \cup {"starting"}
      PROVE  /\ job[v].run \in Runs /\ ver[v] \in Nat /\ version[job[v].run] \in Nat
             /\ ver[v] <= version'[job[v].run]
             /\ ver[v] = version'[job[v].run] => job[v].run # r
             /\ pc[v] \in Executing => job[v].run # r
  <2>1. job[v].run \in Runs /\ ver[v] \in Nat /\ version[job[v].run] \in Nat
    BY <1>5, JobRun DEF TypeOK, Resting, Executing
  <2>2. ver[v] <= version[job[v].run]
    BY <1>5 DEF Coherent, CopyIsHistory
  <2>3. pc[v] \in Executing => status[job[v].run] # "SCHEDULING"
    BY DEF Coherent, ExecutorHoldsLease, StartedStatuses
  <2> QED BY <1>2, <1>3, <1>4, <2>1, <2>2, <2>3
<1> HIDE DEF r
<1>6. LeaseIffActive' /\ OneLeaseAsAssigned'
  BY <1>1, <1>2, <1>3, <1>4 DEF Coherent, LeaseIffActive, OneLeaseAsAssigned, LeasedStatuses
<1>7. NoDoubleExecution'
  BY <1>1, <1>4, <1>5 DEF Coherent, NoDoubleExecution, r
<1>8. SucceededHasArtifact'
  BY <1>1, <1>2, <1>4 DEF Coherent, SucceededHasArtifact
<1>9. RetryOfFailed'
  BY <1>1, <1>2, <1>3, <1>4 DEF Coherent, RetryOfFailed, TypeOK
<1>10. CopyIsHistory'
  BY <1>1, <1>2, <1>4, <1>5 DEF Coherent, CopyIsHistory, RowUnchanged, r
<1>11. ExecutorHoldsLease'
  BY <1>1, <1>2, <1>3, <1>4, <1>5
     DEF Coherent, ExecutorHoldsLease, RowUnchanged, StartedStatuses, Executing, r
<1> QED BY <1>6, <1>7, <1>8, <1>9, <1>10, <1>11 DEF Coherent

\* A worker whose outcome is admitted executes a run that is not finished,
\* under its own allocation.
LEMMA AdmittedUnderLease ==
  ASSUME TypeOK, Coherent, NEW w \in Workers, pc[w] = "committing", OutcomeAdmitted(w)
  PROVE  /\ job[w].run \in Runs /\ job[w] \in allocs /\ target[w] \in Outcomes
         /\ status[job[w].run] \in {"RUNNING", "CANCELLING"}
<1>1. job[w].run \in Runs /\ target[w] \in Outcomes
  BY JobRun DEF TypeOK, Resting
<1>2. /\ seen[w] = status[job[w].run]
      /\ status[job[w].run] \in StartedStatuses
      /\ status[job[w].run] \in LeasedStatuses => job[w] \in allocs
  BY DEF OutcomeAdmitted, Coherent, CopyIsHistory, ExecutorHoldsLease, Executing
<1>3. <<status[job[w].run], target[w]>> \in VALID_TRANSITIONS
  BY <1>2 DEF OutcomeAdmitted, CanTransition
<1>4. status[job[w].run] \in {"RUNNING", "CANCELLING"}
  BY <1>1, <1>2, <1>3 DEF VALID_TRANSITIONS, Outcomes, StartedStatuses
<1> QED BY <1>1, <1>2, <1>4 DEF LeasedStatuses

\* The outcome is committed together with the release of the allocation.
LEMMA CommitCoherent ==
  ASSUME TypeOK, Coherent, NEW w \in Workers, CommitOutcome(w), OutcomeAdmitted(w)
  PROVE  Coherent'
<1> DEFINE r == job[w].run
<1>1. /\ pc[w] = "committing"
      /\ status' = [status EXCEPT ![r] = target[w]]
      /\ version' = [version EXCEPT ![r] = version[r] + 1]
      /\ allocs' = {a \in allocs : a.run # r}
      /\ pc' = [pc EXCEPT ![w] = "marking"]
      /\ UNCHANGED <<parent, attempt, assigned, store, job, seen, ver, target>>
  BY DEF Touched, CommitOutcome, Unreleased, Elsewhere
<1>2. /\ r \in Runs /\ version[r] \in Nat /\ target[w] \in Outcomes
      /\ status[r] \in {"RUNNING", "CANCELLING"}
  BY <1>1, AdmittedUnderLease DEF TypeOK
<1>3. /\ \A q \in Runs \ {r} : status'[q] = status[q] /\ version'[q] = version[q]
      /\ status'[r] = target[w] /\ version'[r] = version[r] + 1
      /\ \A v \in Workers \ {w} : pc'[v] = pc[v]
      /\ pc'[w] = "marking"
  BY <1>1, <1>2 DEF TypeOK
<1>4. ASSUME NEW v \in Workers \ {w}, pc[v] \in Executing \cup {"starting"}
      PROVE  /\ job[v].run \in Runs /\ ver[v] \in Nat /\ version[job[v].run] \in Nat
             /\ ver[v] <= version'[job[v].run]
             /\ ver[v] = version'[job[v].run] => job[v].run # r
             /\ pc[v] \in Executing => job[v].run # r
  <2>1. job[v].run \in Runs /\ ver[v] \in Nat /\ version[job[v].run] \in Nat
    BY <1>4, JobRun DEF TypeOK, Resting, Executing
  <2>2. ver[v] <= version[job[v].run]
    BY <1>4 DEF Coherent, CopyIsHistory
  <2>3. pc[v] \in Executing => job[v].run # r
    BY <1>1 DEF Coherent, NoDoubleExecution, Executing
  <2> QED BY <1>2, <1>3, <2>1, <2>2, <2>3
<1> HIDE DEF r
<1>5. LeaseIffActive' /\ OneLeaseAsAssigned'
  BY <1>1, <1>2, <1>3 DEF Coherent, LeaseIffActive, OneLeaseAsAssigned, LeasedStatuses, Outcomes
<1>6. NoDoubleExecution'
  BY <1>1, <1>3 DEF Coherent, NoDoubleExecution, Executing
<1>7. SucceededHasArtifact'
  BY <1>1, <1>2, <1>3 DEF Coherent, SucceededHasArtifact, r
<1>8. RetryOfFailed'
  BY <1>1, <1>2, <1>3 DEF Coherent, RetryOfFailed, TypeOK
<1>9. CopyIsHistory'
  BY <1>1, <1>2, <1>3, <1>4 DEF Coherent, CopyIsHistory, RowUnchanged, Outcomes, Executing
<1>10. ExecutorHoldsLease'
  <2>1. ASSUME NEW v \in Workers, pc'[v] \in Executing \cup {"starting"}
        PROVE  /\ v # w /\ pc'[v] = pc[v] /\ job'[v] = job[v]
               /\ job[v].run # r => /\ job[v] \in allocs' <=> job[v] \in allocs
                                    /\ status'[job[v].run] = status[job[v].run]
                                    /\ version'[job[v].run] = version[job[v].run]
               /\ RowUnchanged(v)' => job[v].run # r
               /\ pc[v] \in Executing => job[v].run # r
    BY <1>1, <1>3, <1>4, <2>1 DEF Executing, RowUnchanged
  <2>2. \A v \in Workers : pc'[v] \in Executing \cup {"starting"} /\ job[v].run # r =>
          (RowUnchanged(v)' <=> RowUnchanged(v))
    BY <1>1, <2>1 DEF RowUnchanged
  <2> QED BY <2>1, <2>2 DEF Coherent, ExecutorHoldsLease
<1> QED BY <1>5, <1>6, <1>7, <1>8, <1>9, <1>10 DEF Coherent

\* What a scheduler pass does to each run: it is placed, only recovered, or
\* untouched; a touched row has a new version.
LEMMA PassEffect ==
  ASSUME TypeOK, Coherent,
         NEW stale \in SUBSET StaleWorkers, NEW lost \in SUBSET Recoverable(stale),
         NEW granted \in SUBSET Runs, NEW place \in [granted -> Healthy(stale)],
         SchedulePass(stale, lost, place),
         NEW lostRuns, lostRuns = {a.run : a \in lost}
  PROVE  /\ \A r \in lostRuns : r \in Runs /\ status[r] \in LeasedStatuses
         /\ \A r \in granted : /\ status[r] \in {"QUEUED", "SCHEDULING"}
                               /\ status'[r] = "SCHEDULING"
                               /\ assigned'[r] = place[r] /\ place[r] \in Workers
                               /\ \A a \in allocs : a.run = r => r \in lostRuns
         /\ \A r \in lostRuns \ granted : status'[r] = Recovered(status[r])
         /\ \A r \in Runs \ (lostRuns \cup granted) :
              status'[r] = status[r] /\ version'[r] = version[r] /\ assigned'[r] = assigned[r]
         /\ \A r \in lostRuns \cup granted : version'[r] > version[r]
         /\ allocs' = {a \in allocs : a.run \notin lostRuns} \cup
                      {[run |-> r, seq |-> leaseNo[r] + 1, worker |-> place[r]] : r \in granted}
         /\ UNCHANGED <<parent, attempt, store, pc, job, seen, ver, target>>
<1> DEFINE recovered == [r \in Runs |-> IF r \in lostRuns THEN Recovered(status[r])
                                                          ELSE status[r]]
<1>1. granted = DOMAIN place /\ \A r \in granted : r \in Runs /\ place[r] \in Workers
  BY DEF Healthy
<1>2. \A r \in lostRuns : r \in Runs /\ status[r] \in LeasedStatuses
  <2>1. \A a \in lost : a \in allocs /\ a.run \in Runs
    BY DEF Recoverable, TypeOK, Lease
  <2> QED BY <2>1 DEF Coherent, LeaseIffActive
<1>3. /\ \A r \in granted : recovered[r] = "QUEUED" /\ IndexAdmits(r, Unreleased(lostRuns))
      /\ status' = [r \in Runs |-> IF r \in granted THEN "SCHEDULING" ELSE recovered[r]]
      /\ version' = [r \in Runs |->
                       version[r] + (IF recovered[r] # status[r] THEN 1 ELSE 0)
                                  + (IF r \in granted THEN 1 ELSE 0)]
      /\ assigned' = [r \in Runs |-> Assignee(r, place, recovered[r])]
      /\ allocs' = Unreleased(lostRuns) \cup
                   {[run |-> r, seq |-> leaseNo[r] + 1, worker |-> place[r]] : r \in granted}
      /\ UNCHANGED <<parent, attempt, store, pc, job, seen, ver, target>>
  BY <1>1 DEF SchedulePass, procVars
<1>4. /\ \A r \in lostRuns : recovered[r] = Recovered(status[r]) /\ recovered[r] # status[r]
      /\ \A r \in Runs \ lostRuns : recovered[r] = status[r]
  BY <1>2 DEF Recovered, LeasedStatuses
<1>5. \A r \in granted : \A a \in allocs : a.run = r => r \in lostRuns
  BY <1>3 DEF IndexAdmits, Unreleased
<1>6. \A r \in granted : status[r] \in {"QUEUED", "SCHEDULING"}
  BY <1>1, <1>2, <1>3, <1>4 DEF Recovered, LeasedStatuses
<1> HIDE DEF recovered
<1>7. \A r \in lostRuns \cup granted : version'[r] > version[r]
  BY <1>1, <1>2, <1>3, <1>4 DEF TypeOK
<1>8. \A r \in Runs \ (lostRuns \cup granted) :
        status'[r] = status[r] /\ version'[r] = version[r] /\ assigned'[r] = assigned[r]
  BY <1>1, <1>3, <1>4 DEF TypeOK, Assignee
<1>9. /\ \A r \in granted : status'[r] = "SCHEDULING" /\ assigned'[r] = place[r]
      /\ \A r \in lostRuns \ granted : status'[r] = Recovered(status[r])
  BY <1>1, <1>2, <1>3, <1>4 DEF Assignee
<1> QED BY <1>1, <1>2, <1>3, <1>5, <1>6, <1>7, <1>8, <1>9 DEF Unreleased

\* A pass takes allocations away only together with the status, and gives
\* them only to runs that have none.
LEMMA PassCoherent ==
  ASSUME TypeOK, Coherent,
         NEW stale \in SUBSET StaleWorkers, NEW lost \in SUBSET Recoverable(stale),
         NEW granted \in SUBSET Runs, NEW place \in [granted -> Healthy(stale)],
         SchedulePass(stale, lost, place)
  PROVE  Coherent'
<1> DEFINE lostRuns == {a.run : a \in lost}
           grant(r) == [run |-> r, seq |-> leaseNo[r] + 1, worker |-> place[r]]
           touched == lostRuns \cup granted
<1>1. /\ \A r \in lostRuns : r \in Runs /\ status[r] \in LeasedStatuses
      /\ \A r \in granted : /\ status[r] \in {"QUEUED", "SCHEDULING"}
                            /\ status'[r] = "SCHEDULING"
                            /\ assigned'[r] = place[r] /\ place[r] \in Workers
                            /\ \A a \in allocs : a.run = r => r \in lostRuns
      /\ \A r \in lostRuns \ granted : status'[r] = Recovered(status[r])
      /\ \A r \in Runs \ touched :
           status'[r] = status[r] /\ version'[r] = version[r] /\ assigned'[r] = assigned[r]
      /\ \A r \in touched : version'[r] > version[r]
      /\ allocs' = {a \in allocs : a.run \notin lostRuns} \cup {grant(r) : r \in granted}
      /\ UNCHANGED <<parent, attempt, store, pc, job, seen, ver, target>>
  BY PassEffect
<1>2. \A r \in granted : grant(r).run = r /\ grant(r).worker = place[r]
  OBVIOUS
<1>3. \A a \in allocs : a.run \in Runs /\ status[a.run] \in LeasedStatuses
  BY DEF Coherent, LeaseIffActive, TypeOK, Lease
<1> HIDE DEF lostRuns, grant
<1>4. LeaseIffActive'
  <2> SUFFICES ASSUME NEW r \in Runs
               PROVE  status'[r] \in LeasedStatuses <=> \E a \in allocs' : a.run = r
    BY DEF LeaseIffActive
  <2>1. CASE r \in granted
    BY <1>1, <1>2, <2>1 DEF LeasedStatuses
  <2>2. CASE r \in lostRuns \ granted
    <3>1. status'[r] \notin LeasedStatuses
      BY <1>1, <2>2 DEF Recovered, LeasedStatuses
    <3>2. \A a \in allocs' : a.run # r
      BY <1>1, <1>2, <2>2
    <3> QED BY <3>1, <3>2
  <2>3. CASE r \notin touched
    <3>1. \A a : a.run = r => (a \in allocs' <=> a \in allocs)
      BY <1>1, <1>2, <2>3
    <3> QED BY <1>1, <2>3, <3>1 DEF Coherent, LeaseIffActive
  <2> QED BY <2>1, <2>2, <2>3
<1>5. OneLeaseAsAssigned'
  <2>1. ASSUME NEW a \in allocs', NEW b \in allocs', a.run = b.run PROVE a = b
    BY <1>1, <1>2, <1>3, <2>1 DEF Coherent, OneLeaseAsAssigned
  <2>2. ASSUME NEW a \in allocs' PROVE assigned'[a.run] = a.worker
    BY <1>1, <1>2, <1>3, <2>2 DEF Coherent, OneLeaseAsAssigned
  <2> QED BY <2>1, <2>2 DEF OneLeaseAsAssigned
<1>6. NoDoubleExecution'
  BY <1>1 DEF Coherent, NoDoubleExecution
<1>7. SucceededHasArtifact'
  <2>1. \A r \in Runs : status'[r] = "SUCCEEDED" => status[r] = "SUCCEEDED"
    BY <1>1 DEF Recovered
  <2> QED BY <1>1, <2>1 DEF Coherent, SucceededHasArtifact
<1>8. RetryOfFailed'
  <2>1. \A r \in Runs : status[r] = "FAILED" => status'[r] = "FAILED"
    BY <1>1 DEF LeasedStatuses
  <2> QED BY <1>1, <2>1 DEF Coherent, RetryOfFailed, TypeOK
<1>9. ASSUME NEW w \in Workers, pc[w] \in Executing \cup {"starting"}
      PROVE  /\ job[w].run \in Runs /\ status'[job[w].run] # "NONE"
             /\ ver[w] <= version'[job[w].run]
             /\ ver[w] = version'[job[w].run] =>
                  job[w].run \notin touched /\ ver[w] = version[job[w].run]
  <2>1. job[w].run \in Runs /\ ver[w] \in Nat /\ version[job[w].run] \in Nat
    BY <1>9, JobRun DEF TypeOK, Resting, Executing
  <2>2. ver[w] <= version[job[w].run] /\ status[job[w].run] # "NONE"
    BY <1>9 DEF Coherent, CopyIsHistory
  <2>3. version'[job[w].run] \in Nat
    BY <2>1, PassType DEF TypeOK
  <2>4. status'[job[w].run] # "NONE"
    BY <1>1, <2>1, <2>2 DEF Recovered
  <2> QED BY <1>1, <2>1, <2>2, <2>3, <2>4
<1>10. CopyIsHistory'
  BY <1>1, <1>9 DEF Coherent, CopyIsHistory, RowUnchanged
<1>11. ExecutorHoldsLease'
  <2>1. \A w \in Workers : job[w] \in allocs /\ job[w].run \notin touched => job[w] \in allocs'
    BY <1>1
  <2>2. ASSUME NEW w \in Workers, pc[w] \in Executing
        PROVE  /\ status'[job[w].run] \in StartedStatuses
               /\ status'[job[w].run] \in LeasedStatuses => job[w].run \notin touched
    <3>1. job[w].run \in Runs /\ status[job[w].run] \in StartedStatuses
      BY <1>9, <2>2 DEF Coherent, ExecutorHoldsLease
    <3>2. job[w].run \notin granted
      BY <1>1, <3>1 DEF StartedStatuses
    <3> QED BY <1>1, <3>1, <3>2 DEF Recovered, StartedStatuses, LeasedStatuses
  <2> QED BY <1>1, <1>9, <2>1, <2>2 DEF Coherent, ExecutorHoldsLease, RowUnchanged
<1> QED BY <1>4, <1>5, <1>6, <1>7, <1>8, <1>10, <1>11 DEF Coherent

\* So does every step and every fault of a worker.
LEMMA WorkerCoherent ==
  ASSUME TypeOK, Coherent, NEW w \in Workers, WorkerStep(w) \/ WorkerFault(w)
  PROVE  Coherent'
<1>1. ASSUME Raise(w), store \subseteq store' PROVE Coherent'
  <2>1. /\ AfterException(w) = "acking" \/ (pc[w] \in Executing /\ AfterException(w) = "failing")
        /\ pc'[w] = AfterException(w)
    BY <1>1 DEF AfterException, InsideTry, Executing, Raise, TypeOK
  <2>2. /\ UNCHANGED <<status, version, parent, attempt, assigned, allocs, job, seen, ver, target>>
        /\ \A v \in Workers \ {w} : pc'[v] = pc[v]
    BY <1>1 DEF Raise, Elsewhere, leaseVars, TypeOK
  <2> QED BY <1>1, <2>1, <2>2, PrivateStep DEF Executing
<1>2. ASSUME NEW outcome \in {"FAILED", "SUCCEEDED"}, Resolve(w, outcome), pc[w] \in Executing,
             store \subseteq store', outcome = "SUCCEEDED" => job[w].run \in store',
             UNCHANGED <<seen, ver>> \/ ReadRow(w, job[w].run)
      PROVE  Coherent'
  <2>1. /\ UNCHANGED <<status, version, parent, attempt, assigned, allocs, job>>
        /\ pc'[w] = "committing" /\ target'[w] = outcome
        /\ \A v \in Workers \ {w} : pc'[v] = pc[v] /\ target'[v] = target[v]
    BY <1>2 DEF Resolve, Elsewhere, leaseVars, TypeOK
  <2>2. /\ \/ seen'[w] = seen[w] /\ ver'[w] = ver[w]
           \/ seen'[w] = status[job[w].run] /\ ver'[w] = version[job[w].run]
        /\ \A v \in Workers \ {w} : seen'[v] = seen[v] /\ ver'[v] = ver[v]
    BY <1>2 DEF ReadRow, TypeOK
  <2> QED BY <1>2, <2>1, <2>2, PrivateStep DEF Executing
<1>3. ASSUME NEW e \in inbox[w], ReceiveEvent(w, e) PROVE Coherent'
  BY <1>3, ReceiveCoherent
<1>4. CASE StartRun(w)
  <2>1. CASE RowUnchanged(w)
    BY <1>4, <2>1, StartCoherent
  <2>2. CASE ~RowUnchanged(w)
    BY <1>1, <1>4, <2>2 DEF StartRun
  <2> QED BY <2>1, <2>2
<1>5. CASE Checkpoint(w)
  <2>1. /\ pc[w] = "executing" /\ pc'[w] \in Executing
        /\ pc'[w] = "committing" => target'[w] = "CANCELLED"
        /\ seen'[w] = status[job[w].run] /\ ver'[w] = version[job[w].run]
        /\ \A v \in Workers \ {w} : /\ pc'[v] = pc[v] /\ seen'[v] = seen[v]
                                    /\ ver'[v] = ver[v] /\ target'[v] = target[v]
    BY <1>5 DEF Checkpoint, ReadRow, Executing, TypeOK
  <2>2. UNCHANGED <<status, version, parent, attempt, assigned, allocs, store, job>>
    BY <1>5 DEF Checkpoint, Elsewhere, leaseVars
  <2> QED BY <2>1, <2>2, PrivateStep DEF Executing
<1>6. CASE FinishSlow(w)
  <2>1. pc[w] \in Executing /\ UNCHANGED <<seen, ver>>
    BY <1>6 DEF FinishSlow, Executing
  <2>2. /\ store \subseteq store'
        /\ \/ Resolve(w, "FAILED")
           \/ Resolve(w, "SUCCEEDED") /\ job[w].run \in store'
    BY <1>6 DEF FinishSlow, Upload, UploadFails
  <2> QED BY <1>2, <2>1, <2>2
<1>7. CASE ExecuteTemplate(w)
  <2>1. pc[w] \in Executing /\ pc[w] # "failing"
    BY <1>7 DEF ExecuteTemplate, Executing
  <2>2. /\ store \subseteq store'
        /\ \/ Raise(w)
           \/ Resolve(w, "SUCCEEDED") /\ job[w].run \in store' /\ UNCHANGED <<seen, ver>>
    BY <1>7 DEF ExecuteTemplate, Upload, UploadFails
  <2> QED BY <1>1, <1>2, <2>1, <2>2
<1>8. CASE HandleFailure(w)
  <2>1. /\ pc[w] \in Executing /\ UNCHANGED store
        /\ \/ Raise(w)
           \/ Resolve(w, "FAILED") /\ ReadRow(w, job[w].run)
    BY <1>8 DEF HandleFailure, Executing
  <2> QED BY <1>1, <1>2, <2>1
<1>9. CASE CommitOutcome(w)
  <2>1. CASE OutcomeAdmitted(w)
    BY <1>9, <2>1, CommitCoherent
  <2>2. CASE ~OutcomeAdmitted(w)
    BY <1>1, <1>9, <2>2 DEF CommitOutcome
  <2> QED BY <2>1, <2>2
<1>10. CASE MarkProcessed(w)
  <2>1. /\ pc'[w] = "acking" /\ \A v \in Workers \ {w} : pc'[v] = pc[v]
        /\ UNCHANGED <<status, version, parent, attempt, assigned, allocs, store, job, seen,
                       ver, target>>
    BY <1>10 DEF MarkProcessed, Elsewhere, leaseVars, TypeOK
  <2> QED BY <2>1, PrivateStep DEF Executing
<1>11. CASE CommitOffset(w) \/ OffsetCommitFails(w) \/ Crash(w)
  <2>1. \E p \in Resting : Settle(w, p)
    BY <1>11 DEF CommitOffset, Resting, OffsetCommitFails, Crash
  <2>2. /\ pc'[w] \in Resting
        /\ \A v \in Workers \ {w} : /\ pc'[v] = pc[v] /\ job'[v] = job[v] /\ seen'[v] = seen[v]
                                    /\ ver'[v] = ver[v] /\ target'[v] = target[v]
        /\ UNCHANGED <<status, version, parent, attempt, assigned, allocs, store>>
    BY <2>1 DEF Settle, Elsewhere, leaseVars, TypeOK
  <2> QED BY <2>2, PrivateStep DEF Executing, Resting
<1>12. CASE ProcessingFails(w)
  BY <1>1, <1>12 DEF ProcessingFails
<1> QED BY <1>3, <1>4, <1>5, <1>6, <1>7, <1>8, <1>9, <1>10, <1>11, <1>12
        DEF WorkerStep, WorkerFault

\* Every step keeps the invariant.
LEMMA NextCoherent == TypeOK /\ Coherent /\ [Next]_vars => Coherent'
<1> SUFFICES ASSUME TypeOK, Coherent, [Next]_vars PROVE Coherent'
  OBVIOUS
<1>1. CASE ApiNext
  <2>1. ASSUME NEW r \in Runs, CreateRun(r) PROVE Coherent'
    BY <2>1, InsertCoherent DEF CreateRun
  <2>2. ASSUME NEW p \in Runs, NEW c \in Runs, RetryRun(p, c) PROVE Coherent'
    <3>1. attempt[p] + 1 \in Nat
      BY DEF TypeOK
    <3> QED BY <2>2, <3>1, InsertCoherent DEF RetryRun, Retryable
  <2>3. ASSUME NEW r \in Runs, CancelRun(r) \/ UpdateRunMetadata(r) PROVE Coherent'
    <3>1. /\ status[r] # "NONE"
          /\ \/ UNCHANGED status
             \/ status[r] = "RUNNING" /\ status' = [status EXCEPT ![r] = "CANCELLING"]
          /\ version' = [version EXCEPT ![r] = version[r] + 1]
          /\ UNCHANGED <<parent, attempt, assigned, allocs, store, procVars>>
      BY <2>3 DEF Touched, CancelRun, UpdateRunMetadata, Cancellable, leaseVars
    <3> QED BY <3>1, RowCoherent
  <2> QED BY <1>1, <2>1, <2>2, <2>3 DEF ApiNext
<1>2. CASE ScheduleOnce
  BY <1>2, PassCoherent DEF ScheduleOnce
<1>3. CASE RegistryNext
  <2>1. ASSUME NEW w \in Workers, StartWorker(w) PROVE Coherent'
    <3>1. /\ pc'[w] = "idle" /\ \A v \in Workers \ {w} : pc'[v] = pc[v]
          /\ UNCHANGED <<status, version, parent, attempt, assigned, allocs, store, job, seen,
                         ver, target>>
      BY <2>1 DEF StartWorker, RegisterWorker, rowVars, leaseVars, TypeOK
    <3> QED BY <3>1, PrivateStep DEF Executing
  <2>2. ASSUME NEW w \in Workers,
               RegisterByAdmin(w) \/ HeartbeatLoop(w) \/ HeartbeatByAdmin(w) \/ HeartbeatLapses(w)
        PROVE  Coherent'
    BY <2>2, InertStep DEF RegisterByAdmin, RegisterWorker, HeartbeatLoop, HeartbeatByAdmin,
                           HeartbeatWorker, HeartbeatLapses, rowVars, leaseVars
  <2>3. ASSUME NEW a \in allocs, LeaseLapses(a) PROVE Coherent'
    BY <2>3, InertStep DEF LeaseLapses, rowVars
  <2> QED BY <1>3, <2>1, <2>2, <2>3 DEF RegistryNext
<1>4. CASE MailNext
  BY <1>4, InertStep DEF MailNext, Publish, PublishUnmarked, PublishFails, rowVars, leaseVars
<1>5. CASE UNCHANGED vars
  BY <1>5, InertStep DEF vars, rowVars, leaseVars
<1> QED BY <1>1, <1>2, <1>3, <1>4, <1>5, WorkerCoherent DEF Next

\* Every run's allocation, status and executor agree, in every reachable
\* state of every configuration.
THEOREM Coherence == Spec => []Coherent
<1>1. Init => TypeOK /\ Coherent
  BY InitType, InitCoherent
<1>2. TypeOK /\ Coherent /\ [Next]_vars => TypeOK' /\ Coherent'
  BY NextType, NextCoherent
<1> QED BY <1>1, <1>2, PTL DEF Spec

\* No allocation leaks and no active run is without one, whatever
\* transactions, crashes and redeliveries interleave.
THEOREM LeaseSafety == Spec => []LeaseIffActive
<1>1. Coherent => LeaseIffActive
  BY DEF Coherent
<1> QED BY <1>1, Coherence, PTL

\* Two workers never execute the same run.
THEOREM ExecutionExclusion == Spec => []NoDoubleExecution
<1>1. Coherent => NoDoubleExecution
  BY DEF Coherent
<1> QED BY <1>1, Coherence, PTL

\* A SUCCEEDED run has its artifact.
THEOREM NoFalseSuccess == Spec => []SucceededHasArtifact
<1>1. Coherent => SucceededHasArtifact
  BY DEF Coherent
<1> QED BY <1>1, Coherence, PTL

\* A run never has two unreleased allocations, and is assigned to the worker
\* that holds the one it has.
THEOREM SingleLease == Spec => []OneLeaseAsAssigned
<1>1. Coherent => OneLeaseAsAssigned
  BY DEF Coherent
<1> QED BY <1>1, Coherence, PTL

\* An executor of an unfinished run holds the allocation its event names.
THEOREM ExecutorsLease == Spec => []ExecutorHoldsLease
<1>1. Coherent => ExecutorHoldsLease
  BY DEF Coherent
<1> QED BY <1>1, Coherence, PTL

\* A worker's copy of the row is an earlier row, or the row.
THEOREM CopiesAreHistory == Spec => []CopyIsHistory
<1>1. Coherent => CopyIsHistory
  BY DEF Coherent
<1> QED BY <1>1, Coherence, PTL

\* Retries have a failed parent, one attempt earlier.
THEOREM RetriesOfFailed == Spec => []RetryOfFailed
<1>1. Coherent => RetryOfFailed
  BY DEF Coherent
<1> QED BY <1>1, Coherence, PTL

-----------------------------------------------------------------------------
(***************************************************************************)
(* The control plane implements the ledger, and the action properties that *)
(* follow from the inductive invariant.                                    *)
(***************************************************************************)

\* Holders depend only on the run's own allocations.
LEMMA HolderKept ==
  ASSUME NEW r \in Runs, \A a \in allocs \cup allocs' : a.run = r => (a \in allocs <=> a \in allocs')
  PROVE  Holder(r)' = Holder(r)
BY DEF Holder

\* What one step does to the status and the holder of a run, in the words of
\* the ledger.
MovesRun(r) ==
  \/ status[r] = "NONE" /\ status'[r] = "QUEUED" /\ Holder(r)' = Holder(r)
  \/ /\ status[r] = "QUEUED" /\ status'[r] = "SCHEDULING" /\ Holder(r) = {}
     /\ \E w \in Workers : Holder(r)' = {w}
  \/ status[r] = "SCHEDULING" /\ status'[r] = "QUEUED" /\ Holder(r)' = {}
  \/ /\ status[r] = "SCHEDULING" /\ status'[r] = "SCHEDULING"
     /\ \E w \in Workers : Holder(r)' = {w}
  \/ /\ status[r] = "SCHEDULING" /\ status'[r] = "RUNNING"
     /\ Holder(r) # {} /\ Holder(r)' = Holder(r)
  \/ status[r] = "RUNNING" /\ status'[r] = "CANCELLING" /\ Holder(r)' = Holder(r)
  \/ status[r] = "RUNNING" /\ status'[r] \in {"SUCCEEDED", "FAILED"} /\ Holder(r)' = {}
  \/ status[r] = "CANCELLING" /\ status'[r] = "CANCELLED" /\ Holder(r)' = {}

KeepsRun(r) == status'[r] = status[r] /\ Holder(r)' = Holder(r)

\* A scheduler pass moves each run as the ledger allows.
LEMMA PassMoves ==
  ASSUME TypeOK, Coherent,
         NEW stale \in SUBSET StaleWorkers, NEW lost \in SUBSET Recoverable(stale),
         NEW granted \in SUBSET Runs, NEW place \in [granted -> Healthy(stale)],
         SchedulePass(stale, lost, place), NEW r \in Runs
  PROVE  MovesRun(r) \/ KeepsRun(r)
<1> DEFINE lostRuns == {a.run : a \in lost}
           grant(q) == [run |-> q, seq |-> leaseNo[q] + 1, worker |-> place[q]]
<1>1. /\ \A q \in lostRuns : q \in Runs /\ status[q] \in LeasedStatuses
      /\ \A q \in granted : /\ status[q] \in {"QUEUED", "SCHEDULING"}
                            /\ status'[q] = "SCHEDULING"
                            /\ assigned'[q] = place[q] /\ place[q] \in Workers
                            /\ \A a \in allocs : a.run = q => q \in lostRuns
      /\ \A q \in lostRuns \ granted : status'[q] = Recovered(status[q])
      /\ \A q \in Runs \ (lostRuns \cup granted) :
           status'[q] = status[q] /\ version'[q] = version[q] /\ assigned'[q] = assigned[q]
      /\ \A q \in lostRuns \cup granted : version'[q] > version[q]
      /\ allocs' = {a \in allocs : a.run \notin lostRuns} \cup {grant(q) : q \in granted}
      /\ UNCHANGED <<parent, attempt, store, pc, job, seen, ver, target>>
  BY PassEffect
<1>2. \A q \in granted : grant(q).run = q /\ grant(q).worker = place[q]
  OBVIOUS
<1> HIDE DEF lostRuns, grant
<1>3. CASE r \in granted
  <2>1. \A a \in allocs' : a.run = r => a.worker = place[r]
    BY <1>1, <1>2, <1>3
  <2>2. grant(r) \in allocs' /\ grant(r).run = r /\ grant(r).worker = place[r]
    BY <1>1, <1>2, <1>3
  <2>3. Holder(r)' = {place[r]}
    BY <1>1, <1>3, <2>1, <2>2 DEF Holder
  <2>4. status[r] = "QUEUED" => Holder(r) = {}
    BY DEF Coherent, LeaseIffActive, LeasedStatuses, Holder
  <2> QED BY <1>1, <1>3, <2>3, <2>4 DEF MovesRun
<1>4. CASE r \in lostRuns \ granted
  <2>1. \A a \in allocs' : a.run # r
    BY <1>1, <1>2, <1>4
  <2>2. Holder(r)' = {}
    BY <2>1 DEF Holder
  <2> QED BY <1>1, <1>4, <2>2 DEF MovesRun, Recovered, LeasedStatuses
<1>5. CASE r \notin lostRuns \cup granted
  <2>1. \A a \in allocs \cup allocs' : a.run = r => (a \in allocs <=> a \in allocs')
    BY <1>1, <1>2, <1>5
  <2> QED BY <1>1, <1>5, <2>1, HolderKept DEF KeepsRun
<1> QED BY <1>3, <1>4, <1>5

\* Every step moves a run as the ledger allows, or leaves it alone.
LEMMA StepMoves ==
  ASSUME TypeOK, Coherent, [Next]_vars, NEW r \in Runs
  PROVE  MovesRun(r) \/ KeepsRun(r)
<1>1. ASSUME UNCHANGED <<status, allocs>> PROVE KeepsRun(r)
  BY <1>1 DEF KeepsRun, Holder
<1>2. CASE ApiNext
  <2>1. UNCHANGED allocs
    BY <1>2 DEF ApiNext, CreateRun, RetryRun, InsertRun, CancelRun, UpdateRunMetadata, leaseVars
  <2>2. \/ UNCHANGED status
        \/ \E q \in Runs : status[q] = "NONE" /\ status' = [status EXCEPT ![q] = "QUEUED"]
        \/ \E q \in Runs : status[q] = "RUNNING" /\ status' = [status EXCEPT ![q] = "CANCELLING"]
    BY <1>2 DEF ApiNext, CreateRun, RetryRun, InsertRun, CancelRun, Cancellable, UpdateRunMetadata
  <2>3. Holder(r)' = Holder(r)
    BY <2>1 DEF Holder
  <2> QED BY <2>2, <2>3 DEF MovesRun, KeepsRun, TypeOK
<1>3. CASE ScheduleOnce
  BY <1>3, PassMoves DEF ScheduleOnce
<1>4. CASE RegistryNext
  BY <1>1, <1>4 DEF RegistryNext, StartWorker, RegisterByAdmin, RegisterWorker, HeartbeatLoop,
                    HeartbeatByAdmin, HeartbeatWorker, HeartbeatLapses, LeaseLapses, rowVars,
                    leaseVars
<1>5. CASE MailNext
  BY <1>1, <1>5 DEF MailNext, Publish, PublishUnmarked, PublishFails, rowVars, leaseVars
<1>6. ASSUME NEW w \in Workers, StartRun(w), RowUnchanged(w) PROVE MovesRun(r) \/ KeepsRun(r)
  <2>1. /\ pc[w] = "starting" /\ status' = [status EXCEPT ![job[w].run] = "RUNNING"]
        /\ UNCHANGED allocs
    BY <1>6 DEF StartRun, leaseVars
  <2>2. status[job[w].run] = "SCHEDULING" /\ job[w] \in allocs /\ job[w].worker = w
    BY <1>6, <2>1 DEF Coherent, ExecutorHoldsLease, TypeOK, Resting
  <2>3. Holder(r)' = Holder(r) /\ (r = job[w].run => Holder(r) # {})
    BY <2>1, <2>2 DEF Holder
  <2> QED BY <2>1, <2>2, <2>3 DEF MovesRun, KeepsRun, TypeOK
<1>7. ASSUME NEW w \in Workers, CommitOutcome(w), OutcomeAdmitted(w)
      PROVE  MovesRun(r) \/ KeepsRun(r)
  <2>1. /\ pc[w] = "committing" /\ status' = [status EXCEPT ![job[w].run] = target[w]]
        /\ allocs' = {a \in allocs : a.run # job[w].run}
    BY <1>7 DEF CommitOutcome, Unreleased
  <2>2. CASE r # job[w].run
    <3>1. \A a \in allocs \cup allocs' : a.run = r => (a \in allocs <=> a \in allocs')
      BY <2>1, <2>2
    <3> QED BY <2>1, <2>2, <3>1, HolderKept DEF KeepsRun, TypeOK
  <2>3. CASE r = job[w].run
    <3>1. Holder(r)' = {}
      BY <2>1, <2>3 DEF Holder
    <3>2. status[r] \in {"RUNNING", "CANCELLING"} /\ target[w] \in Outcomes
      BY <1>7, <2>1, <2>3, AdmittedUnderLease
    <3>3. <<status[r], target[w]>> \in VALID_TRANSITIONS
      BY <1>7, <2>1, <2>3 DEF OutcomeAdmitted, CanTransition, Coherent, CopyIsHistory, Executing
    <3>4. status'[r] = target[w]
      BY <2>1, <2>3 DEF TypeOK
    <3> QED BY <3>1, <3>2, <3>3, <3>4 DEF MovesRun, VALID_TRANSITIONS, Outcomes
  <2> QED BY <2>2, <2>3
<1>8. ASSUME NEW w \in Workers, WorkerStep(w) \/ WorkerFault(w) PROVE MovesRun(r) \/ KeepsRun(r)
  <2>1. \/ UNCHANGED <<status, allocs>>
        \/ StartRun(w) /\ RowUnchanged(w)
        \/ CommitOutcome(w) /\ OutcomeAdmitted(w)
    BY <1>8 DEF WorkerStep, WorkerFault, ReceiveEvent, StartRun, Checkpoint, FinishSlow,
                ExecuteTemplate, HandleFailure, CommitOutcome, MarkProcessed, CommitOffset,
                OffsetCommitFails, ProcessingFails, Crash, Raise, Resolve, Settle, leaseVars
  <2> QED BY <1>1, <1>6, <1>7, <2>1
<1>9. CASE UNCHANGED vars
  BY <1>1, <1>9 DEF vars, rowVars, leaseVars
<1> QED BY <1>2, <1>3, <1>4, <1>5, <1>8, <1>9 DEF Next

\* The control plane implements the ledger: a run is placed before it is
\* started, started once and under a lease, and gives its lease up exactly
\* with its outcome.
THEOREM Refinement == Spec => ImplementsLedger
<1>1. Init => Ledger!LedgerInit
  BY DEF Init, Ledger!LedgerInit, Holder
<1>2. TypeOK /\ Coherent /\ [Next]_vars => [Ledger!LedgerNext]_(Ledger!lvars)
  <2> SUFFICES ASSUME TypeOK, Coherent, [Next]_vars PROVE Ledger!LedgerNext
    OBVIOUS
  <2> SUFFICES ASSUME NEW r \in Runs PROVE Ledger!RunStep(r) \/ Ledger!Keeps(r)
    BY DEF Ledger!LedgerNext
  <2>1. MovesRun(r) \/ KeepsRun(r)
    BY StepMoves
  <2>2. KeepsRun(r) => Ledger!Keeps(r)
    BY DEF KeepsRun, Ledger!Keeps
  <2>3. MovesRun(r) => Ledger!RunStep(r)
    BY DEF MovesRun, Ledger!RunStep, Ledger!Submit, Ledger!Place, Ledger!TakeBack,
           Ledger!MoveTo, Ledger!Start, Ledger!RequestCancel, Ledger!Finish, Ledger!Moves
  <2> QED BY <2>1, <2>2, <2>3
<1> QED BY <1>1, <1>2, TypeCorrect, Coherence, PTL DEF Spec, ImplementsLedger, Ledger!LedgerSpec

\* SUCCEEDED, FAILED and CANCELLED are final.
THEOREM FinalOutcomes == Spec => OutcomeIsFinal
<1>1. TypeOK /\ Coherent /\ [Next]_vars =>
        [\A r \in Runs : status[r] \in Outcomes => status'[r] = status[r]]_vars
  <2> SUFFICES ASSUME TypeOK, Coherent, [Next]_vars, NEW r \in Runs, status[r] \in Outcomes
               PROVE  status'[r] = status[r]
    OBVIOUS
  <2>1. MovesRun(r) \/ KeepsRun(r)
    BY StepMoves
  <2> QED BY <2>1 DEF MovesRun, KeepsRun, Outcomes
<1> QED BY <1>1, TypeCorrect, Coherence, PTL DEF Spec, OutcomeIsFinal

\* A worker's step changes only its own place.
LEMMA OtherWorkers ==
  ASSUME TypeOK, [Next]_vars, NEW w \in Workers, pc[w] # pc'[w], pc[w] = "committing"
  PROVE  WorkerStep(w) \/ WorkerFault(w)
<1>1. ASSUME NEW v \in Workers, v # w, WorkerStep(v) \/ WorkerFault(v) PROVE pc'[w] = pc[w]
  BY <1>1 DEF WorkerStep, WorkerFault, ReceiveEvent, StartRun, Checkpoint, FinishSlow,
              ExecuteTemplate, HandleFailure, CommitOutcome, MarkProcessed, CommitOffset,
              OffsetCommitFails, ProcessingFails, Crash, Raise, Resolve, Settle, TypeOK
<1>2. ~ApiNext
  BY DEF ApiNext, CreateRun, RetryRun, InsertRun, CancelRun, UpdateRunMetadata, procVars
<1>3. ~ScheduleOnce
  BY DEF ScheduleOnce, SchedulePass, procVars
<1>4. ~RegistryNext
  BY DEF RegistryNext, StartWorker, RegisterByAdmin, RegisterWorker, HeartbeatLoop,
         HeartbeatByAdmin, HeartbeatWorker, HeartbeatLapses, LeaseLapses, procVars, TypeOK
<1>5. ~MailNext
  BY DEF MailNext, Publish, PublishUnmarked, PublishFails, procVars
<1>6. ~UNCHANGED vars
  BY DEF vars, procVars
<1> QED BY <1>1, <1>2, <1>3, <1>4, <1>5, <1>6 DEF Next

\* An executor whose lease was reclaimed cannot overwrite what recovery
\* decided.
THEOREM Fencing == Spec => OutcomeUnderLease
<1>1. TypeOK /\ Coherent /\ [Next]_vars =>
        [\A w \in Workers : pc[w] = "committing" /\ pc'[w] = "marking" => job[w] \in allocs]_vars
  <2> SUFFICES ASSUME TypeOK, Coherent, [Next]_vars, NEW w \in Workers,
                      pc[w] = "committing", pc'[w] = "marking"
               PROVE  job[w] \in allocs
    OBVIOUS
  <2>1. WorkerStep(w) \/ WorkerFault(w)
    BY OtherWorkers
  <2>2. AfterException(w) # "marking"
    BY DEF AfterException
  <2>3. CommitOutcome(w) /\ OutcomeAdmitted(w)
    BY <2>1, <2>2 DEF WorkerStep, WorkerFault, ReceiveEvent, StartRun, Checkpoint, FinishSlow,
              ExecuteTemplate, HandleFailure, CommitOutcome, MarkProcessed, CommitOffset,
              OffsetCommitFails, ProcessingFails, Crash, Raise, Settle, TypeOK
  <2> QED BY <2>3, AdmittedUnderLease
<1> QED BY <1>1, TypeCorrect, Coherence, PTL DEF Spec, OutcomeUnderLease

\* A run is started only by a worker whose event names the allocation that is
\* active at that moment.
THEOREM StartsUnderLease == Spec => StartedUnderLease
<1>1. TypeOK /\ Coherent /\ [Next]_vars =>
        [\A r \in Runs : status[r] = "SCHEDULING" /\ status'[r] = "RUNNING" =>
           \E w \in Workers : pc[w] = "starting" /\ job[w].run = r /\ job[w] \in allocs]_vars
  <2> SUFFICES ASSUME TypeOK, Coherent, [Next]_vars, NEW r \in Runs,
                      status[r] = "SCHEDULING", status'[r] = "RUNNING"
               PROVE  \E w \in Workers : pc[w] = "starting" /\ job[w].run = r /\ job[w] \in allocs
    OBVIOUS
  <2>1. ~ApiNext
    BY DEF ApiNext, CreateRun, RetryRun, InsertRun, CancelRun, UpdateRunMetadata, TypeOK
  <2>2. ~ScheduleOnce
    <3> SUFFICES ASSUME NEW stale \in SUBSET StaleWorkers, NEW lost \in SUBSET Recoverable(stale),
                        NEW granted \in SUBSET Runs, NEW place \in [granted -> Healthy(stale)],
                        SchedulePass(stale, lost, place)
                 PROVE  FALSE
      BY DEF ScheduleOnce
    <3> DEFINE lostRuns == {a.run : a \in lost}
    <3> DEFINE grant(q) == [run |-> q, seq |-> leaseNo[q] + 1, worker |-> place[q]]
    <3>1. /\ \A q \in lostRuns : q \in Runs /\ status[q] \in LeasedStatuses
          /\ \A q \in granted : /\ status[q] \in {"QUEUED", "SCHEDULING"}
                                /\ status'[q] = "SCHEDULING"
                                /\ assigned'[q] = place[q] /\ place[q] \in Workers
                                /\ \A a \in allocs : a.run = q => q \in lostRuns
          /\ \A q \in lostRuns \ granted : status'[q] = Recovered(status[q])
          /\ \A q \in Runs \ (lostRuns \cup granted) :
               status'[q] = status[q] /\ version'[q] = version[q] /\ assigned'[q] = assigned[q]
          /\ \A q \in lostRuns \cup granted : version'[q] > version[q]
          /\ allocs' = {a \in allocs : a.run \notin lostRuns} \cup {grant(q) : q \in granted}
          /\ UNCHANGED <<parent, attempt, store, pc, job, seen, ver, target>>
      BY PassEffect
    <3> HIDE DEF lostRuns, grant
    <3> QED BY <3>1 DEF Recovered
  <2>3. ~RegistryNext /\ ~MailNext /\ ~UNCHANGED vars
    BY DEF RegistryNext, StartWorker, RegisterByAdmin, RegisterWorker, HeartbeatLoop,
           HeartbeatByAdmin, HeartbeatWorker, HeartbeatLapses, LeaseLapses,
           MailNext, Publish, PublishUnmarked, PublishFails, rowVars, vars
  <2>4. PICK w \in Workers : WorkerStep(w) \/ WorkerFault(w)
    BY <2>1, <2>2, <2>3 DEF Next
  <2>5. \/ UNCHANGED status
        \/ StartRun(w) /\ RowUnchanged(w)
        \/ CommitOutcome(w) /\ OutcomeAdmitted(w)
    BY <2>4 DEF WorkerStep, WorkerFault, ReceiveEvent, StartRun, Checkpoint, FinishSlow,
                ExecuteTemplate, HandleFailure, CommitOutcome, MarkProcessed, CommitOffset,
                OffsetCommitFails, ProcessingFails, Crash, Raise, Resolve, Settle
  <2>6. ~(CommitOutcome(w) /\ OutcomeAdmitted(w))
    <3> SUFFICES ASSUME CommitOutcome(w), OutcomeAdmitted(w) PROVE FALSE
      OBVIOUS
    <3>1. pc[w] = "committing" /\ status' = [status EXCEPT ![job[w].run] = target[w]]
      BY DEF CommitOutcome
    <3>2. job[w].run \in Runs /\ target[w] \in Outcomes
      BY <3>1, AdmittedUnderLease
    <3> QED BY <3>1, <3>2 DEF TypeOK, Outcomes
  <2>7. StartRun(w) /\ RowUnchanged(w)
    BY <2>5, <2>6
  <2>8. pc[w] = "starting" /\ status' = [status EXCEPT ![job[w].run] = "RUNNING"]
    BY <2>7 DEF StartRun
  <2>9. job[w].run = r
    BY <2>8 DEF TypeOK
  <2> QED BY <2>7, <2>8, <2>9 DEF Coherent, ExecutorHoldsLease
<1> QED BY <1>1, TypeCorrect, Coherence, PTL DEF Spec, StartedUnderLease
=============================================================================
