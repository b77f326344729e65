----------------------------- MODULE RunControl -----------------------------
(***************************************************************************)
(* The control plane of RunScope: the API's run operations, the scheduler, *)
(* the transactional outbox, the broker and the template workers, around   *)
(* the shared PostgreSQL tables runs, resource_allocations, workers,       *)
(* outbox_messages and processed_messages.                                 *)
(*                                                                         *)
(* One action is one database transaction, taken at its commit, or one     *)
(* step of a worker between two transactions.  A worker works on a copy of *)
(* the run row it read earlier (seen, ver); the row carries a version      *)
(* counter (Run.__mapper_args__), and a commit that finds another version  *)
(* raises StaleDataError and changes nothing.  A transaction that loses    *)
(* such a race or a deadlock has no effect and is not an action.           *)
(*                                                                         *)
(* Which queued run is placed on which worker depends on priorities and    *)
(* free capacity; here any choice among the healthy workers is possible.   *)
(***************************************************************************)
EXTENDS RunStates, Integers

CONSTANTS
  Runs,         \* the run rows that may be created
  Workers,      \* the worker names, stable over restarts
  NoRun,        \* no parent run
  NoWorker,     \* runs.assigned_worker_id is NULL
  NoJob,        \* a worker that handles no event
  Kind,         \* the template of each run: "slow" or "classification"
  Steps,        \* checkpoints of the slow template (total_steps)
  MaxLeases,    \* bound: allocations made for one run
  MaxVersion,   \* bound: metadata edits stop at this row version
  MaxAttempts,  \* outbox_max_attempts
  Env           \* the disturbances that may happen, a subset of Disturbances

\* edit: metadata PATCHes; admin: the worker API is called by hand; delay: a
\* live worker's heartbeats come late; crash: worker processes die; db: a
\* statement or a commit of a worker fails; broker: publishing or an offset
\* commit fails; dispatcher: the dispatcher dies between publish and commit;
\* storage, template: the artifact store or the template code fails.
Disturbances == {"edit", "admin", "delay", "crash", "db", "broker",
                 "dispatcher", "storage", "template"}

ASSUME ConstantsAssumption ==
  /\ NoRun \notin Runs
  /\ NoWorker \notin Workers
  /\ Kind \in [Runs -> {"slow", "classification"}]
  /\ Steps \in Nat \ {0}
  /\ MaxLeases \in Nat
  /\ MaxVersion \in Nat
  /\ MaxAttempts \in Nat
  /\ Env \subseteq Disturbances

\* A resource allocation, named by the lease token that the scheduler also
\* writes into the run.assigned event: the seq-th allocation of the run.  The
\* event of an allocation is therefore the same record.
Lease == [run : Runs, seq : 1..MaxLeases, worker : Workers]

ASSUME NoJobAssumption == NoJob \notin Lease

VARIABLES
  status,     \* runs.status
  version,    \* runs.version, the optimistic lock
  parent,     \* runs.parent_run_id
  attempt,    \* runs.attempt_number
  assigned,   \* runs.assigned_worker_id
  leaseNo,    \* number of allocations made for the run so far
  allocs,     \* resource_allocations with released_at IS NULL
  lapsed,     \* those of them with lease_expires_at in the past
  wstatus,    \* workers.status
  fresh,      \* workers.last_heartbeat_at is recent (worker_stale_seconds)
  outbox,     \* run.assigned rows of outbox_messages with published_at NULL
  tries,      \* outbox_messages.publish_attempts
  inbox,      \* events in the topic beyond the worker's committed offset
  processed,  \* processed_messages
  store,      \* runs whose artifact content is in the artifact store
  pc,         \* where each worker process is
  job,        \* the event it handles
  seen,       \* run.status in its session
  ver,        \* run.version in its session
  step,       \* checkpoints passed by the slow template
  target      \* the status it is about to commit

rowVars    == <<status, version, parent, attempt, assigned, leaseNo>>
leaseVars  == <<allocs, lapsed>>
workerRows == <<wstatus, fresh>>
mailVars   == <<outbox, tries, inbox>>
procVars   == <<pc, job, seen, ver, step, target>>

vars == <<rowVars, leaseVars, workerRows, mailVars, processed, store, procVars>>

\* executing: inside the template; finishing: after the last checkpoint;
\* failing: in the exception handler; committing: about to commit the
\* outcome; marking: about to insert the processed_messages row; acking:
\* about to commit the offset; deaf: the process lives, and its heartbeats
\* go on, but its consumer is closed.
PC == {"down", "idle", "deaf", "starting", "executing", "finishing", "failing",
       "committing", "marking", "acking"}

\* The places without an event in hand.
Resting == {"down", "idle", "deaf"}

Executing == {"executing", "finishing", "failing", "committing"}

TypeOK ==
  /\ status \in [Runs -> RowStatus]
  /\ version \in [Runs -> Nat]
  /\ parent \in [Runs -> Runs \cup {NoRun}]
  /\ attempt \in [Runs -> Nat]
  /\ assigned \in [Runs -> Workers \cup {NoWorker}]
  /\ leaseNo \in [Runs -> 0..MaxLeases]
  /\ allocs \subseteq Lease
  /\ lapsed \subseteq allocs
  /\ wstatus \in [Workers -> {"UNREGISTERED", "ONLINE", "STALE"}]
  /\ fresh \in [Workers -> BOOLEAN]
  /\ outbox \subseteq Lease
  /\ tries \in [Lease -> 0..MaxAttempts]
  /\ inbox \in [Workers -> SUBSET Lease]
  /\ processed \subseteq Lease
  /\ store \subseteq Runs
  /\ pc \in [Workers -> PC]
  /\ job \in [Workers -> Lease \cup {NoJob}]
  /\ seen \in [Workers -> RowStatus]
  /\ ver \in [Workers -> Nat]
  /\ step \in [Workers -> 0..Steps]
  /\ target \in [Workers -> RowStatus]
  \* A worker has an event in hand exactly while it handles one, and it is
  \* one addressed to it (process_event skips the others); the slow
  \* template's loop is left at its last checkpoint.
  /\ \A w \in Workers :
       /\ \A e \in inbox[w] : e.worker = w
       /\ IF pc[w] \in Resting THEN job[w] = NoJob
                                        ELSE job[w] \in Lease /\ job[w].worker = w
       /\ pc[w] = "executing" => step[w] < Steps
       /\ pc[w] = "committing" => target[w] \in Outcomes

Init ==
  /\ status = [r \in Runs |-> "NONE"]
  /\ version = [r \in Runs |-> 0]
  /\ parent = [r \in Runs |-> NoRun]
  /\ attempt = [r \in Runs |-> 0]
  /\ assigned = [r \in Runs |-> NoWorker]
  /\ leaseNo = [r \in Runs |-> 0]
  /\ allocs = {}
  /\ lapsed = {}
  /\ wstatus = [w \in Workers |-> "UNREGISTERED"]
  /\ fresh = [w \in Workers |-> FALSE]
  /\ outbox = {}
  /\ tries = [e \in Lease |-> 0]
  /\ inbox = [w \in Workers |-> {}]
  /\ processed = {}
  /\ store = {}
  /\ pc = [w \in Workers |-> "down"]
  /\ job = [w \in Workers |-> NoJob]
  /\ seen = [w \in Workers |-> "NONE"]
  /\ ver = [w \in Workers |-> 0]
  /\ step = [w \in Workers |-> 0]
  /\ target = [w \in Workers |-> "NONE"]

-----------------------------------------------------------------------------
(***************************************************************************)
(* API operations on runs.                                                 *)
(***************************************************************************)

\* Both ways to create a run commit it as QUEUED: the INSERT sets version 1,
\* the UPDATE to QUEUED sets version 2.
InsertRun(r, p, n) ==
  /\ status[r] = "NONE"
  /\ status' = [status EXCEPT ![r] = "QUEUED"]
  /\ version' = [version EXCEPT ![r] = 2]
  /\ parent' = [parent EXCEPT ![r] = p]
  /\ attempt' = [attempt EXCEPT ![r] = n]
  /\ UNCHANGED <<assigned, leaseNo, leaseVars, workerRows, mailVars, processed,
                 store, procVars>>

CreateRun(r) == InsertRun(r, NoRun, 1)

\* Mutant: anything but a success may be retried.
RetryableUnlessSucceeded(p) == status[p] \notin {"NONE", "SUCCEEDED"}

Retryable(p) == status[p] = "FAILED"

\* A retry is a new run of the same template; the failed parent stays as it is.
RetryRun(p, c) ==
  /\ Retryable(p)
  /\ Kind[c] = Kind[p]
  /\ InsertRun(c, p, attempt[p] + 1)

\* Every UPDATE of a run row moves its version on (version_id_col).
\* Mutant: an UPDATE that bypasses the version column.
TouchUnversioned(r) == version

Touched(r) == [version EXCEPT ![r] = @ + 1]

\* Mutant: cancelling is refused in the terminal statuses only.
CancellableUnlessTerminal(r) == status[r] \notin {"NONE", "SUCCEEDED", "CANCELLED"}

Cancellable(r) == status[r] = "RUNNING"

CancelRun(r) ==
  /\ Cancellable(r)
  /\ status' = [status EXCEPT ![r] = "CANCELLING"]
  /\ version' = Touched(r)
  /\ UNCHANGED <<parent, attempt, assigned, leaseNo, leaseVars, workerRows,
                 mailVars, processed, store, procVars>>

\* Notes and tags are edited in any status; the edit bumps the row version.
UpdateRunMetadata(r) ==
  /\ "edit" \in Env
  /\ status[r] # "NONE"
  /\ version[r] < MaxVersion
  /\ version' = Touched(r)
  /\ UNCHANGED <<status, parent, attempt, assigned, leaseNo, leaseVars,
                 workerRows, mailVars, processed, store, procVars>>

-----------------------------------------------------------------------------
(***************************************************************************)
(* The scheduler: schedule_once, one transaction.                          *)
(***************************************************************************)

StaleWorkers == {w \in Workers : wstatus[w] = "ONLINE" /\ ~fresh[w]}

\* Mutant: expired leases of workers that are not newly stale are overlooked.
RecoverableOfStale(stale) == {a \in allocs : a.worker \in stale}

\* Unreleased allocations that have expired or whose worker went stale in
\* this very pass.
Recoverable(stale) == {a \in allocs : a \in lapsed \/ a.worker \in stale}

Healthy(stale) ==
  {w \in Workers : wstatus[w] = "ONLINE" /\ w \notin stale /\ fresh[w]}

\* Mutant: started work is requeued like work that was never started.
RecoveredByRequeue(s) == IF s \in {"SCHEDULING", "RUNNING"} THEN "QUEUED"
                         ELSE IF s = "CANCELLING" THEN "CANCELLED"
                         ELSE s

\* Mutant: a run that is being cancelled is released and left as it is.
RecoveredUnlessCancelling(s) == IF s = "SCHEDULING" THEN "QUEUED"
                                ELSE IF s = "RUNNING" THEN "FAILED"
                                ELSE s

\* What recovery does to the status of a run that lost its allocation.
Recovered(s) == IF s = "SCHEDULING" THEN "QUEUED"
                ELSE IF s = "RUNNING" THEN "FAILED"
                ELSE IF s = "CANCELLING" THEN "CANCELLED"
                ELSE s

\* release_allocation for each of the runs rs.
Unreleased(rs) == {a \in allocs : a.run \notin rs}

\* The unique partial index on the active allocation of a run.
IndexAdmits(r, kept) == \A a \in kept : a.run # r

\* Mutant: the reset of a requeued run is written after the new assignment.
AssigneeResetLast(r, place, recovered) ==
  IF recovered # status[r] /\ recovered = "QUEUED" THEN NoWorker
  ELSE IF r \in DOMAIN place THEN place[r]
  ELSE assigned[r]

\* runs.assigned_worker_id after the pass, given the status after recovery.
Assignee(r, place, recovered) ==
  IF r \in DOMAIN place THEN place[r]
  ELSE IF recovered # status[r] /\ recovered = "QUEUED" THEN NoWorker
  ELSE assigned[r]

\* A pass that marks the workers stale, recovers the allocations lost and
\* places the runs in the domain of place.  Runs that it has just requeued
\* may be placed again in the same transaction.
SchedulePass(stale, lost, place) ==
  LET lostRuns  == {a.run : a \in lost}
      granted   == DOMAIN place
      kept      == Unreleased(lostRuns)
      recovered == [r \in Runs |-> IF r \in lostRuns THEN Recovered(status[r])
                                                     ELSE status[r]]
      new       == {[run |-> r, seq |-> leaseNo[r] + 1, worker |-> place[r]] :
                      r \in granted}
  IN /\ \A r \in granted : /\ recovered[r] = "QUEUED"
                           /\ leaseNo[r] < MaxLeases
                           /\ IndexAdmits(r, kept)
     /\ status' = [r \in Runs |-> IF r \in granted THEN "SCHEDULING"
                                                   ELSE recovered[r]]
     /\ version' = [r \in Runs |->
                      version[r] + (IF recovered[r] # status[r] THEN 1 ELSE 0)
                                 + (IF r \in granted THEN 1 ELSE 0)]
     /\ assigned' = [r \in Runs |-> Assignee(r, place, recovered[r])]
     /\ leaseNo' = [r \in Runs |-> IF r \in granted THEN leaseNo[r] + 1
                                                    ELSE leaseNo[r]]
     /\ allocs' = kept \cup new
     /\ lapsed' = lapsed \cap kept
     /\ outbox' = outbox \cup new
     /\ wstatus' = [w \in Workers |-> IF w \in stale THEN "STALE" ELSE wstatus[w]]
     /\ UNCHANGED <<parent, attempt, fresh, tries, inbox, processed, store,
                    procVars>>

\* SKIP LOCKED lets a pass miss any rows that other transactions hold.
ScheduleOnce ==
  \E stale \in SUBSET StaleWorkers :
    \E lost \in SUBSET Recoverable(stale), granted \in SUBSET Runs :
      \E place \in [granted -> Healthy(stale)] : SchedulePass(stale, lost, place)

-----------------------------------------------------------------------------
(***************************************************************************)
(* The worker registry, and time.                                          *)
(***************************************************************************)

RegisterWorker(w) ==
  /\ wstatus' = [wstatus EXCEPT ![w] = "ONLINE"]
  /\ fresh' = [fresh EXCEPT ![w] = TRUE]
  /\ UNCHANGED <<rowVars, leaseVars, mailVars, processed, store>>

\* run_worker registers its name, then starts to consume.
StartWorker(w) ==
  /\ pc[w] = "down"
  /\ RegisterWorker(w)
  /\ pc' = [pc EXCEPT ![w] = "idle"]
  /\ UNCHANGED <<job, seen, ver, step, target>>

RegisterByAdmin(w) == "admin" \in Env /\ RegisterWorker(w) /\ UNCHANGED procVars

\* Renewed: the leases that a heartbeat of w leaves expired.
StillLapsed(w) == {a \in lapsed : a.worker # w}

\* A heartbeat renews every unreleased allocation of the worker.  Its UPDATE
\* writes the status column only if it read something other than ONLINE, so
\* a pass that marked the worker STALE in between is not undone.
HeartbeatWorker(w) ==
  /\ wstatus[w] # "UNREGISTERED"
  /\ wstatus' \in {wstatus, [wstatus EXCEPT ![w] = "ONLINE"]}
  /\ fresh' = [fresh EXCEPT ![w] = TRUE]
  /\ lapsed' = StillLapsed(w)
  /\ UNCHANGED <<rowVars, allocs, mailVars, processed, store, procVars>>

HeartbeatLoop(w) == pc[w] # "down" /\ HeartbeatWorker(w)

HeartbeatByAdmin(w) == "admin" \in Env /\ HeartbeatWorker(w)

\* worker_stale_seconds pass without a heartbeat.
HeartbeatLapses(w) ==
  /\ fresh[w]
  /\ pc[w] = "down" \/ "delay" \in Env
  /\ fresh' = [fresh EXCEPT ![w] = FALSE]
  /\ UNCHANGED <<rowVars, leaseVars, wstatus, mailVars, processed, store, procVars>>

\* allocation_lease_seconds pass without a renewal.
LeaseLapses(a) ==
  /\ a \in allocs \ lapsed
  /\ pc[a.worker] = "down" \/ "delay" \in Env
  /\ lapsed' = lapsed \cup {a}
  /\ UNCHANGED <<rowVars, allocs, workerRows, mailVars, processed, store, procVars>>

-----------------------------------------------------------------------------
(***************************************************************************)
(* The outbox dispatcher and the broker.  dispatch_batch marks what it     *)
(* published when the batch commits; nobody but the dispatcher reads the   *)
(* marks, so each message is taken on its own.                             *)
(***************************************************************************)

Dispatchable(e) == e \in outbox /\ tries[e] < MaxAttempts

Delivered(e) == [inbox EXCEPT ![e.worker] = @ \cup {e}]

Publish(e) ==
  /\ Dispatchable(e)
  /\ inbox' = Delivered(e)
  /\ outbox' = outbox \ {e}
  /\ UNCHANGED <<rowVars, leaseVars, workerRows, tries, processed, store, procVars>>

\* The dispatcher dies after the broker took the message and before the
\* commit: the message will be published again.
PublishUnmarked(e) ==
  /\ "dispatcher" \in Env
  /\ Dispatchable(e)
  /\ inbox' = Delivered(e)
  /\ UNCHANGED <<rowVars, leaseVars, workerRows, outbox, tries, processed, store,
                 procVars>>

\* send_and_wait raises; the broker may have taken the message nevertheless.
PublishFails(e) ==
  /\ "broker" \in Env
  /\ Dispatchable(e)
  /\ tries' = [tries EXCEPT ![e] = @ + 1]
  /\ inbox' \in {inbox, Delivered(e)}
  /\ UNCHANGED <<rowVars, leaseVars, workerRows, outbox, processed, store, procVars>>

-----------------------------------------------------------------------------
(***************************************************************************)
(* A worker process: consume one event, execute, record, commit offset.    *)
(***************************************************************************)

\* What the worker's own steps never touch.
Elsewhere == <<parent, attempt, assigned, leaseNo, workerRows, outbox, tries>>

\* session.get and session.refresh: the session copies the row of run r.
ReadRow(w, r) ==
  /\ seen' = [seen EXCEPT ![w] = status[r]]
  /\ ver' = [ver EXCEPT ![w] = version[r]]

\* Mutant: an UPDATE without the version check.
RowUnchecked(w) == TRUE

\* The UPDATE ... WHERE version = ver of the session's copy hits the row.
RowUnchanged(w) == ver[w] = version[job[w].run]

\* Mutant: any active allocation of the run will do.
AcceptsAnyLease(e) == status[e.run] = "SCHEDULING" /\ \E a \in allocs : a.run = e.run

\* execute_existing_run: the run waits for an executor and its active
\* allocation is the one that the event names, by worker and lease token.
Accepts(e) == status[e.run] = "SCHEDULING" /\ e \in allocs

\* Where an event leads: dropped as a duplicate, recorded without effect, or on
\* to the transaction that starts the run.
Reception(e) == IF e \in processed THEN "acking"
                ELSE IF ~Accepts(e) THEN "marking"
                ELSE "starting"

ReceiveEvent(w, e) ==
  /\ pc[w] = "idle"
  /\ e \in inbox[w]
  /\ job' = [job EXCEPT ![w] = e]
  /\ pc' = [pc EXCEPT ![w] = Reception(e)]
  /\ ReadRow(w, e.run)
  /\ UNCHANGED <<Elsewhere, status, version, leaseVars, inbox, processed, store,
                 step, target>>

\* Mutant: the handler's own failures are handled by the handler.
InsideTryAndHandler(w) == Kind[job[w].run] = "classification" /\ pc[w] \in Executing

\* Only the classification template's own work and its SUCCEEDED commit run
\* inside a try block.
InsideTry(w) ==
  /\ Kind[job[w].run] = "classification"
  /\ pc[w] = "executing" \/ (pc[w] = "committing" /\ target[w] = "SUCCEEDED")

\* Where an exception goes: to the handler, or out of process_event.  Then
\* run_worker logs it and the consumer goes on to commit the offset.
AfterException(w) == IF InsideTry(w) THEN "failing" ELSE "acking"

Raise(w) ==
  /\ pc' = [pc EXCEPT ![w] = AfterException(w)]
  /\ UNCHANGED <<Elsewhere, status, version, leaseVars, inbox, processed, job,
                 seen, ver, step, target>>

StartRun(w) ==
  LET r == job[w].run IN
  /\ pc[w] = "starting"
  /\ \/ /\ RowUnchanged(w)
        /\ status' = [status EXCEPT ![r] = "RUNNING"]
        /\ version' = Touched(r)
        /\ seen' = [seen EXCEPT ![w] = "RUNNING"]
        /\ ver' = [ver EXCEPT ![w] = @ + 1]
        /\ step' = [step EXCEPT ![w] = 0]
        /\ pc' = [pc EXCEPT ![w] = "executing"]
        /\ UNCHANGED <<Elsewhere, leaseVars, inbox, processed, store, job, target>>
     \/ ~RowUnchanged(w) /\ Raise(w) /\ UNCHANGED store

\* Mutant: the loop looks at the copy it has instead of the refreshed one.
CancelRequestedInCopy(w) == seen[w] = "CANCELLING"

CancelRequested(w) == status[job[w].run] = "CANCELLING"

\* Mutant: one checkpoint too many.
PastLastCheckpoint(w) == step[w] = Steps

LastCheckpoint(w) == step[w] + 1 = Steps

\* One iteration of the slow template's loop: re-read the run, leave on a
\* cancellation, else write the progress rows and go on.
Checkpoint(w) ==
  LET r == job[w].run IN
  /\ pc[w] = "executing"
  /\ Kind[r] = "slow"
  /\ ReadRow(w, r)
  /\ IF CancelRequested(w)
       THEN /\ target' = [target EXCEPT ![w] = "CANCELLED"]
            /\ pc' = [pc EXCEPT ![w] = "committing"]
            /\ UNCHANGED step
       ELSE /\ step' = [step EXCEPT ![w] = @ + 1]
            /\ pc' = [pc EXCEPT ![w] = IF LastCheckpoint(w) THEN "finishing" ELSE @]
            /\ UNCHANGED target
  /\ UNCHANGED <<Elsewhere, status, version, leaseVars, inbox, processed, store, job>>

\* The outcome that the worker will try to commit.
Resolve(w, outcome) ==
  /\ target' = [target EXCEPT ![w] = outcome]
  /\ pc' = [pc EXCEPT ![w] = "committing"]
  /\ UNCHANGED <<Elsewhere, status, version, leaseVars, inbox, processed, job, step>>

\* Mutant: an upload that fails is taken for one that succeeded.
UploadMaybe(w) == store' \in {store, store \cup {job[w].run}}

\* artifact_store.put raises only after its last attempt, and may have
\* written the content all the same.
Upload(w) == store' = store \cup {job[w].run}
UploadFails(w) == "storage" \in Env /\ store' \in {store, store \cup {job[w].run}}

\* After the last checkpoint: fail_intentionally, or upload and report.
FinishSlow(w) ==
  /\ pc[w] = "finishing"
  /\ \/ Resolve(w, "FAILED") /\ UNCHANGED store
     \/ Resolve(w, "FAILED") /\ UploadFails(w)
     \/ Resolve(w, "SUCCEEDED") /\ Upload(w)
  /\ UNCHANGED <<seen, ver>>

\* The classification template trains in a thread, then uploads.
ExecuteTemplate(w) ==
  /\ pc[w] = "executing"
  /\ Kind[job[w].run] = "classification"
  /\ \/ Resolve(w, "SUCCEEDED") /\ Upload(w) /\ UNCHANGED <<seen, ver>>
     \/ "template" \in Env /\ Raise(w) /\ UNCHANGED store
     \/ Raise(w) /\ UploadFails(w)

\* The handler rolls back, which expires the session's rows, reads the run
\* again and fails it; or it raises itself, touching an expired row.
HandleFailure(w) ==
  /\ pc[w] = "failing"
  /\ \/ Resolve(w, "FAILED") /\ ReadRow(w, job[w].run)
     \/ Raise(w)
  /\ UNCHANGED store

\* Mutant: the commit goes through whatever happened to the row.
OutcomeUnversioned(w) == CanTransition(seen[w], target[w])

\* transition_run validates against the session's copy, release_allocation
\* releases, the commit checks the version.
OutcomeAdmitted(w) == CanTransition(seen[w], target[w]) /\ RowUnchanged(w)

CommitOutcome(w) ==
  LET r == job[w].run IN
  /\ pc[w] = "committing"
  /\ \/ /\ OutcomeAdmitted(w)
        /\ status' = [status EXCEPT ![r] = target[w]]
        /\ version' = Touched(r)
        /\ allocs' = Unreleased({r})
        /\ lapsed' = lapsed \cap Unreleased({r})
        /\ pc' = [pc EXCEPT ![w] = "marking"]
        /\ UNCHANGED <<Elsewhere, inbox, processed, job, seen, ver, step, target>>
     \/ ~OutcomeAdmitted(w) /\ Raise(w)
  /\ UNCHANGED store

MarkProcessed(w) ==
  /\ pc[w] = "marking"
  /\ processed' = processed \cup {job[w]}
  /\ pc' = [pc EXCEPT ![w] = "acking"]
  /\ UNCHANGED <<Elsewhere, status, version, leaseVars, inbox, store, job, seen,
                 ver, step, target>>

\* Back to waiting, or gone: the session and its copies are dropped.
Settle(w, place) ==
  /\ pc' = [pc EXCEPT ![w] = place]
  /\ job' = [job EXCEPT ![w] = NoJob]
  /\ seen' = [seen EXCEPT ![w] = "NONE"]
  /\ ver' = [ver EXCEPT ![w] = 0]
  /\ step' = [step EXCEPT ![w] = 0]
  /\ target' = [target EXCEPT ![w] = "NONE"]
  /\ UNCHANGED <<Elsewhere, status, version, leaseVars, processed, store>>

CommitOffset(w) ==
  /\ pc[w] = "acking"
  /\ inbox' = [inbox EXCEPT ![w] = @ \ {job[w]}]
  /\ Settle(w, "idle")

\* The commit raises, and the generator's finally stops the consumer.  The
\* broker loop calls events() again on the same AIOKafkaConsumer, which is not
\* usable after stop(): no event is read until the process is restarted.  The
\* event comes again then.
OffsetCommitFails(w) ==
  /\ "broker" \in Env
  /\ pc[w] = "acking"
  /\ Settle(w, "deaf")
  /\ UNCHANGED inbox

\* The database fails the worker in the middle of an event (a lost
\* connection, a deadlock victim).
ProcessingFails(w) ==
  /\ "db" \in Env
  /\ pc[w] \in {"starting", "executing", "finishing", "committing", "marking"}
  /\ Raise(w)
  /\ UNCHANGED store

\* The process dies.  The event in hand stays beyond the committed offset.
Crash(w) ==
  /\ "crash" \in Env
  /\ pc[w] # "down"
  /\ Settle(w, "down")
  /\ UNCHANGED inbox

-----------------------------------------------------------------------------
ApiNext ==
  \/ \E r \in Runs : CreateRun(r) \/ CancelRun(r) \/ UpdateRunMetadata(r)
  \/ \E p, c \in Runs : RetryRun(p, c)

RegistryNext ==
  \/ \E w \in Workers : \/ StartWorker(w) \/ RegisterByAdmin(w)
                        \/ HeartbeatLoop(w) \/ HeartbeatByAdmin(w)
                        \/ HeartbeatLapses(w)
  \/ \E a \in allocs : LeaseLapses(a)

MailNext == \E e \in outbox : Publish(e) \/ PublishUnmarked(e) \/ PublishFails(e)

\* The steps that a running worker process takes by itself.
WorkerStep(w) ==
  \/ \E e \in inbox[w] : ReceiveEvent(w, e)
  \/ StartRun(w) \/ Checkpoint(w) \/ FinishSlow(w) \/ ExecuteTemplate(w)
  \/ HandleFailure(w) \/ CommitOutcome(w) \/ MarkProcessed(w) \/ CommitOffset(w)

WorkerFault(w) == OffsetCommitFails(w) \/ ProcessingFails(w) \/ Crash(w)

Next ==
  \/ ApiNext
  \/ ScheduleOnce
  \/ RegistryNext
  \/ MailNext
  \/ \E w \in Workers : WorkerStep(w) \/ WorkerFault(w)

Spec == Init /\ [][Next]_vars

-----------------------------------------------------------------------------
(***************************************************************************)
(* Safety properties.                                                      *)
(***************************************************************************)

\* A run holds an unreleased allocation exactly while it is SCHEDULING,
\* RUNNING or CANCELLING: transitions and releases are spread over the
\* scheduler's recovery, the worker's five outcome commits and the API, and
\* no interleaving of them leaks capacity or leaves an active run without.
LeaseIffActive ==
  \A r \in Runs : status[r] \in LeasedStatuses <=> \E a \in allocs : a.run = r

\* A run never has two unreleased allocations, and runs.assigned_worker_id
\* names the worker that holds the one it has.
OneLeaseAsAssigned ==
  /\ \A a, b \in allocs : a.run = b.run => a = b
  /\ \A a \in allocs : assigned[a.run] = a.worker

\* The copy of the run row that a worker works on is never ahead of the row,
\* and is the row's present status if the versions agree: the version check
\* at commit is enough to detect every change made in between by the API,
\* the scheduler or another worker.
CopyIsHistory ==
  \A w \in Workers : pc[w] \in Executing \cup {"starting"} =>
    /\ status[job[w].run] # "NONE"
    /\ ver[w] <= version[job[w].run]
    /\ RowUnchanged(w) => seen[w] = status[job[w].run]

\* A worker about to start a run it sees unchanged still has the allocation
\* named by its event, and so has a worker executing a run that is not yet
\* finished: leases are only taken away together with the run's status.
ExecutorHoldsLease ==
  \A w \in Workers :
    /\ pc[w] = "starting" /\ RowUnchanged(w) =>
         status[job[w].run] = "SCHEDULING" /\ job[w] \in allocs
    /\ pc[w] \in Executing =>
         /\ status[job[w].run] \in StartedStatuses
         /\ status[job[w].run] \in LeasedStatuses => job[w] \in allocs

\* No two workers execute the same run at the same time, whatever is
\* redelivered, requeued or reassigned.
NoDoubleExecution ==
  \A v, w \in Workers :
    (pc[v] \in Executing /\ pc[w] \in Executing /\ job[v].run = job[w].run) => v = w

\* A run that reports SUCCEEDED, or is about to, has its artifact content in
\* the store: a failed upload never becomes a false success.
SucceededHasArtifact ==
  /\ \A r \in Runs : status[r] = "SUCCEEDED" => r \in store
  /\ \A w \in Workers : pc[w] = "committing" /\ target[w] = "SUCCEEDED" =>
       job[w].run \in store

\* A retry's parent is FAILED for good and is the preceding attempt.
RetryOfFailed ==
  \A c \in Runs : parent[c] # NoRun =>
    status[parent[c]] = "FAILED" /\ attempt[c] = attempt[parent[c]] + 1

\* A run leaves SCHEDULING for RUNNING only by a worker whose event names the
\* allocation that is active at that moment: a stale or duplicated
\* run.assigned event never starts a run.
StartedUnderLease ==
  [][\A r \in Runs : status[r] = "SCHEDULING" /\ status'[r] = "RUNNING" =>
       \E w \in Workers : pc[w] = "starting" /\ job[w].run = r /\ job[w] \in allocs]_vars

\* A worker commits an outcome only while the allocation it started under is
\* still unreleased: an executor whose lease was reclaimed cannot overwrite
\* what recovery decided.
OutcomeUnderLease ==
  [][\A w \in Workers : pc[w] = "committing" /\ pc'[w] = "marking" =>
       job[w] \in allocs]_vars

\* SUCCEEDED, FAILED and CANCELLED are final (a retry is another run), and a
\* finished run is never started again.
OutcomeIsFinal ==
  [][\A r \in Runs : status[r] \in Outcomes =>
       status'[r] = status[r]]_vars

-----------------------------------------------------------------------------
(***************************************************************************)
(* The control plane implements the ledger.                                *)
(***************************************************************************)

Holder(r) == {w \in Workers : \E a \in allocs : a.run = r /\ a.worker = w}

Ledger == INSTANCE RunLedger WITH holder <- [r \in Runs |-> Holder(r)]

\* Every step of the control plane is, for each run, a step of the ledger or
\* none: placed before started, started once and under a lease, the lease
\* given up exactly with the outcome.
ImplementsLedger == Ledger!LedgerSpec

-----------------------------------------------------------------------------
(***************************************************************************)
(* Fairness and liveness.                                                  *)
(***************************************************************************)

\* A scheduler pass that meets no locked row.  Locks are held for one short
\* transaction, so the polling loop of run_scheduler makes such passes.
FullPass ==
  \E granted \in SUBSET Runs :
    \E place \in [granted -> Healthy(StaleWorkers)] :
      SchedulePass(StaleWorkers, Recoverable(StaleWorkers), place)

\* The loops of the scheduler, the dispatcher and the worker processes keep
\* running, the container runtime restarts dead workers, clocks advance.
Fairness ==
  /\ WF_vars(FullPass)
  /\ \A e \in Lease : WF_vars(Publish(e))
  /\ \A w \in Workers : /\ WF_vars(WorkerStep(w))
                        /\ WF_vars(HeartbeatLoop(w))
                        /\ WF_vars(pc[w] = "down" /\ HeartbeatLapses(w))
  /\ \A a \in Lease : WF_vars(pc[a.worker] = "down" /\ LeaseLapses(a))

FairSpec == Spec /\ Fairness

RestartingSpec == FairSpec /\ \A w \in Workers : WF_vars(StartWorker(w))

\* A worker that is down for good eventually holds no allocation: every run
\* on it is requeued, failed or cancelled by the scheduler's recovery.
AbandonedLeasesReclaimed ==
  \A w \in Workers :
    <>[](pc[w] = "down") => <>[](\A a \in allocs : a.worker # w)

\* The cancel commit of the checkpoint was lost: the row has been edited since
\* the checkpoint read it (StaleDataError), or the database failed.  run_worker
\* swallows the exception, and the run stays CANCELLING.
CancelCommitLost(w) ==
  /\ pc[w] = "acking"
  /\ \/ target[w] = "CANCELLED" /\ ~RowUnchanged(w)
     \/ target[w] \in {"NONE", "CANCELLED"} /\ "db" \in Env

\* A cancellation requested while the slow template still has a checkpoint
\* before it ends in CANCELLED, by the executor or by recovery.  There are
\* three exceptions and no other: the executing process dies; the row is
\* edited between the checkpoint's read and its commit; a statement fails.
\* What becomes of the run then is UnattendedReconciled.
CancelHonouredAtCheckpoint ==
  \A r \in Runs, w \in Workers :
    (/\ status[r] = "CANCELLING"
     /\ Kind[r] = "slow"
     /\ pc[w] = "executing" /\ job[w].run = r)
      ~> (status[r] = "CANCELLED" \/ pc[w] = "down" \/ CancelCommitLost(w))

\* Whatever fails in handling an event (template, upload, statements, the
\* handler of failures itself), no worker is stuck in it: a process that stays
\* up comes back to wait, unless it has lost its consumer at the end.
WorkerComesBack == \A w \in Workers : []<>(pc[w] \in Resting)

-----------------------------------------------------------------------------
(***************************************************************************)
(* What the documents say and the code does not do.                        *)
(***************************************************************************)

\* A placed run for which nothing is under way: no process has it in hand and
\* no event about it is still to be published or delivered.
Unattended(r) ==
  /\ status[r] \in LeasedStatuses
  /\ \A e \in outbox : e.run = r => ~Dispatchable(e)
  /\ \A w \in Workers :
       /\ job[w] # NoJob => job[w].run # r
       /\ pc[w] # "deaf" => \A e \in inbox[w] : e.run # r

\* OPERATIONS.md: "Restarting a worker can leave a lease until expiry;
\* reconciliation requeues safe work"; DECISIONS.md, ADR-014: it "requeues
\* work that never started".  A run that nobody attends to does not stay so,
\* at least once the workers have been restarted and stay up.
UnattendedReconciled ==
  <>[](\A w \in Workers : pc[w] # "down") => \A r \in Runs : []<>~Unattended(r)
=============================================================================
