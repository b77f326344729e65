------------------------------- MODULE Outbox -------------------------------
(***************************************************************************)
(* The outbox and its dispatchers, batch by batch.                         *)
(*                                                                         *)
(* A dispatcher is a task of an API process; while a new version is rolled *)
(* out there are two.  One batch is one transaction: it selects and locks  *)
(* rows, publishes them one by one and commits the marks.  A message that  *)
(* the broker took is not taken back when the transaction is.              *)
(*                                                                         *)
(* RunControl abstracts from batches: there, a message is published, or    *)
(* fails, on its own.                                                      *)
(***************************************************************************)
EXTENDS Integers, FiniteSets

CONSTANTS
  Messages,     \* the outbox rows
  Created,      \* created_at: when the transaction began, not when it committed
  Poison,       \* messages that cannot be published: too large, invalid
  Dispatchers,
  Limit,        \* limit
  MaxAttempts,  \* outbox_max_attempts
  MaxAborts     \* bound: batches whose transaction is rolled back

ASSUME OutboxAssumption ==
  /\ IsFiniteSet(Messages)
  /\ Created \in [Messages -> Nat]
  /\ Poison \subseteq Messages
  /\ Limit \in Nat \ {0}
  /\ MaxAttempts \in Nat \ {0}
  /\ MaxAborts \in Nat

VARIABLES
  stored,     \* rows that are committed and not marked
  published,  \* rows with a published_at
  attempts,   \* publish_attempts
  sends,      \* how often the broker took each message
  batch,      \* each dispatcher's transaction
  broker,     \* up or down
  aborts      \* batches rolled back so far

vars == <<stored, published, attempts, sends, batch, broker, aborts>>

\* todo: rows still to be published.  done: rows to be marked as published.
\* failed: rows whose attempt is to be counted.  rest: rows not got to.
Transaction == [open : BOOLEAN, todo : SUBSET Messages, done : SUBSET Messages,
                failed : SUBSET Messages, rest : SUBSET Messages]
Closed == [open |-> FALSE, todo |-> {}, done |-> {}, failed |-> {}, rest |-> {}]

\* The rows a dispatcher has locked, until its transaction ends.
Locked(d) == batch[d].todo \cup batch[d].done \cup batch[d].failed \cup batch[d].rest

OutboxTypeOK ==
  /\ stored \subseteq Messages
  /\ published \subseteq Messages
  /\ stored \cap published = {}
  /\ attempts \in [Messages -> 0..MaxAttempts]
  /\ sends \in [Messages -> Nat]
  /\ batch \in [Dispatchers -> Transaction]
  /\ broker \in {"up", "down"}
  /\ aborts \in 0..MaxAborts

Init ==
  /\ stored = {} /\ published = {}
  /\ attempts = [m \in Messages |-> 0]
  /\ sends = [m \in Messages |-> 0]
  /\ batch = [d \in Dispatchers |-> Closed]
  /\ broker \in {"up", "down"}
  /\ aborts = 0

-----------------------------------------------------------------------------
\* The transaction of a service inserts the row.  Rows appear in the order of
\* the commits, whatever their created_at.
Insert(m) ==
  /\ m \notin stored \cup published
  /\ stored' = stored \cup {m}
  /\ UNCHANGED <<published, attempts, sends, batch, broker, aborts>>

\* Mutant: one attempt too many.
EligibleOnceMore(m) == m \in stored /\ attempts[m] <= MaxAttempts

\* published_at IS NULL AND publish_attempts < max_attempts.
Eligible(m) == m \in stored /\ attempts[m] < MaxAttempts

\* Mutant: rows are not locked.
FreeAlways(m) == TRUE

\* FOR UPDATE SKIP LOCKED.
Free(m) == \A d \in Dispatchers : m \notin Locked(d)

Selectable == {m \in Messages : Eligible(m) /\ Free(m)}

\* ORDER BY created_at LIMIT: rows with the same time in any order.
FirstOf(rows) ==
  {s \in SUBSET rows :
     /\ Cardinality(s) <= Limit
     /\ Cardinality(s) < Limit => s = rows
     /\ \A m \in s, n \in rows \ s : Created[m] <= Created[n]}

\* The SELECT of dispatch_batch.  An empty batch changes nothing.
Select(d) ==
  /\ ~batch[d].open
  /\ Selectable # {}
  /\ \E s \in FirstOf(Selectable) :
       batch' = [batch EXCEPT ![d] = [Closed EXCEPT !.open = TRUE, !.todo = s]]
  /\ UNCHANGED <<stored, published, attempts, sends, broker, aborts>>

\* The loop goes on, with the oldest row it has left.
Turn(d, m) ==
  /\ m \in batch[d].todo /\ \A n \in batch[d].todo : Created[m] <= Created[n]

\* Mutant: after a failure the loop goes on with the next row.
AfterFailureContinued(d, m) ==
  [batch[d] EXCEPT !.todo = @ \ {m}, !.failed = @ \cup {m}]

\* The row is to be counted, and the loop is left.
AfterFailure(d, m) ==
  [batch[d] EXCEPT !.todo = {}, !.failed = {m}, !.rest = batch[d].todo \ {m}]

\* broker.publish returns: the broker has the message.
PublishSucceeds(d, m) ==
  /\ Turn(d, m)
  /\ broker = "up" /\ m \notin Poison
  /\ sends' = [sends EXCEPT ![m] = @ + 1]
  /\ batch' = [batch EXCEPT ![d].todo = @ \ {m}, ![d].done = @ \cup {m}]
  /\ UNCHANGED <<stored, published, attempts, broker, aborts>>

\* broker.publish raises.  A broker that goes down may have taken the message.
PublishFails(d, m) ==
  /\ Turn(d, m)
  /\ broker = "down" \/ m \in Poison
  /\ \/ UNCHANGED sends
     \/ m \notin Poison /\ sends' = [sends EXCEPT ![m] = @ + 1]
  /\ batch' = [batch EXCEPT ![d] = AfterFailure(d, m)]
  /\ UNCHANGED <<stored, published, attempts, broker, aborts>>

Finished(d) == batch[d].open /\ batch[d].todo = {}

\* Mutant: a failed row is marked with the others.
MarkedAll(d) == batch[d].done \cup batch[d].failed

Marked(d) == batch[d].done

\* Mutant: the failure is not counted.
CountedNever(d) == attempts

\* publish_attempts as read under the lock, plus one.
Counted(d) ==
  [m \in Messages |-> IF m \in batch[d].failed THEN attempts[m] + 1 ELSE attempts[m]]

\* session.commit().
Commit(d) ==
  /\ Finished(d)
  /\ published' = published \cup Marked(d)
  /\ stored' = stored \ Marked(d)
  /\ attempts' = Counted(d)
  /\ batch' = [batch EXCEPT ![d] = Closed]
  /\ UNCHANGED <<sends, broker, aborts>>

\* The process is stopped, or a statement fails: the loop of
\* run_outbox_dispatcher, or the next process, begins again.
Abort(d) ==
  /\ batch[d].open
  /\ aborts < MaxAborts
  /\ aborts' = aborts + 1
  /\ batch' = [batch EXCEPT ![d] = Closed]
  /\ UNCHANGED <<stored, published, attempts, sends, broker>>

BrokerChanges ==
  /\ broker' \in {"up", "down"} \ {broker}
  /\ UNCHANGED <<stored, published, attempts, sends, batch, aborts>>

Send(d) == \E m \in Messages : PublishSucceeds(d, m) \/ PublishFails(d, m)

Next ==
  \/ \E m \in Messages : Insert(m)
  \/ \E d \in Dispatchers : Select(d) \/ Send(d) \/ Commit(d) \/ Abort(d)
  \/ BrokerChanges

Spec == Init /\ [][Next]_vars

\* Each dispatcher's loop runs for ever: every exception is caught and
\* followed by a sleep of at most 5 seconds.  Nothing is assumed of the broker.
FairSpec ==
  /\ Spec
  /\ \A d \in Dispatchers : WF_vars(Select(d)) /\ WF_vars(Send(d)) /\ WF_vars(Commit(d))

-----------------------------------------------------------------------------
\* A row with a published_at has reached the broker, although the mark is
\* committed later than the message is sent and together with other marks.
PublishedWasSent == \A m \in published : sends[m] > 0

\* A message is sent again only for a failed attempt of its own that was
\* counted, or for a batch that was rolled back; two dispatchers never send
\* one message beside each other.
DuplicatesExplained ==
  \A m \in Messages : sends[m] <= attempts[m] + aborts + 1

\* During an outage a batch costs one row one attempt, and it is a row older
\* than, or as old as, all others the batch leaves unpublished.
FailureCostsOneAttempt ==
  [][\A m \in Messages : attempts'[m] > attempts[m] =>
       /\ attempts'[m] = attempts[m] + 1
       /\ \E d \in Dispatchers :
            /\ m \in Locked(d)
            /\ \A n \in Locked(d) \ published' :
                 Created[m] <= Created[n] /\ (n # m => attempts'[n] = attempts[n])]_vars

\* No row waits for ever behind another one that cannot be published: every
\* row is published or has used up its own attempts.
MessagesSettle ==
  \A m \in Messages :
    m \in stored ~> (m \in published \/ attempts[m] = MaxAttempts)
=============================================================================
