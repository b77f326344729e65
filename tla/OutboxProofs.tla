---------------------------- MODULE OutboxProofs ----------------------------
(***************************************************************************)
(* Proofs about Outbox, for any numbers of messages and dispatchers, any   *)
(* batch limit and any number of attempts and rolled back batches.         *)
(***************************************************************************)
EXTENDS Outbox, TLAPS

\* The parts of a batch.  Only one row fails, the loop is left then, and the
\* rows not got to are no older.
BatchSound ==
  \A d \in Dispatchers :
    /\ ~batch[d].open => batch[d] = Closed
    /\ batch[d].todo \cap (batch[d].done \cup batch[d].failed \cup batch[d].rest) = {}
    /\ batch[d].done \cap batch[d].failed = {}
    /\ batch[d].todo # {} => batch[d].failed = {} /\ batch[d].rest = {}
    /\ \A m, n \in batch[d].failed : m = n
    /\ \A m \in batch[d].failed, n \in batch[d].rest : Created[m] <= Created[n]

\* Locked rows are unpublished, have an attempt left and belong to one batch.
LocksSound ==
  /\ \A d \in Dispatchers, m \in Messages :
       m \in Locked(d) => m \in stored /\ attempts[m] < MaxAttempts
  /\ \A d, e \in Dispatchers, m \in Messages : m \in Locked(d) /\ m \in Locked(e) => d = e

\* Rows to be marked, and marked rows, have been sent.
SentSound ==
  /\ \A d \in Dispatchers, m \in Messages : m \in batch[d].done => sends[m] > 0
  /\ PublishedWasSent

\* The sends that neither a counted attempt nor a rolled back batch explains.
Open(m) == m \in published \/ \E d \in Dispatchers : m \in batch[d].done \cup batch[d].failed

SendsExplained ==
  \A m \in Messages :
    /\ sends[m] <= attempts[m] + aborts + 1
    /\ ~Open(m) => sends[m] <= attempts[m] + aborts

OutboxInv == OutboxTypeOK /\ BatchSound /\ LocksSound /\ SentSound /\ SendsExplained

\* A closed batch holds nothing.
LEMMA ClosedFacts ==
  /\ Closed \in Transaction /\ ~Closed.open
  /\ Closed.todo = {} /\ Closed.done = {} /\ Closed.failed = {} /\ Closed.rest = {}
BY DEF Closed, Transaction

\* No row is locked, and nothing is pending.
LEMMA InitOutbox == Init => OutboxInv
<1> SUFFICES ASSUME Init PROVE OutboxInv
  OBVIOUS
<1> USE OutboxAssumption, ClosedFacts
<1>1. OutboxTypeOK BY DEF Init, OutboxTypeOK
<1>2. BatchSound BY DEF Init, BatchSound
<1>3. LocksSound BY DEF Init, LocksSound, Locked
<1>4. SentSound BY DEF Init, SentSound, PublishedWasSent
<1>5. SendsExplained BY DEF Init, SendsExplained
<1> QED BY <1>1, <1>2, <1>3, <1>4, <1>5 DEF OutboxInv

\* The rows a SELECT returns are free and have an attempt left.
LEMMA SelectKeeps ==
  ASSUME OutboxInv, NEW d \in Dispatchers, Select(d) PROVE OutboxInv'
<1> USE OutboxAssumption, ClosedFacts DEF OutboxInv
<1>1. PICK s \in FirstOf(Selectable) :
        batch' = [batch EXCEPT ![d] = [Closed EXCEPT !.open = TRUE, !.todo = s]]
  BY DEF Select
<1> DEFINE t == [Closed EXCEPT !.open = TRUE, !.todo = s]
<1>2. s \subseteq Selectable BY DEF FirstOf
<1>3. /\ t \in Transaction /\ t.open /\ t.todo = s
      /\ t.done = {} /\ t.failed = {} /\ t.rest = {}
  BY <1>2 DEF Selectable, Closed, Transaction
<1>4. UNCHANGED <<stored, published, attempts, sends, broker, aborts>> /\ ~batch[d].open
  BY DEF Select
<1>5. batch' = [batch EXCEPT ![d] = t] BY <1>1
<1> HIDE DEF t
<1>6. OutboxTypeOK' BY <1>3, <1>4, <1>5 DEF OutboxTypeOK
<1>7. \A e \in Dispatchers : batch'[e] = IF e = d THEN t ELSE batch[e]
  BY <1>5 DEF OutboxTypeOK
<1>8. BatchSound' BY <1>3, <1>7 DEF BatchSound
<1>9. LocksSound'
  BY <1>2, <1>3, <1>4, <1>7 DEF LocksSound, Locked, Selectable, Eligible, Free
<1>10. SentSound' BY <1>3, <1>4, <1>7 DEF SentSound, PublishedWasSent
<1>11. batch[d].done = {} /\ batch[d].failed = {}
  BY <1>4 DEF BatchSound
<1>12. \A m \in Messages : Open(m)' <=> Open(m)
  BY <1>3, <1>4, <1>7, <1>11 DEF Open
<1>13. SendsExplained' BY <1>4, <1>12 DEF SendsExplained
<1> QED BY <1>6, <1>8, <1>9, <1>10, <1>13

\* One row leaves todo, for done or, with the others, for failed and rest.
LEMMA SendKeeps ==
  ASSUME OutboxInv, NEW d \in Dispatchers, Send(d) PROVE OutboxInv'
<1> USE OutboxAssumption DEF OutboxInv
<1>1. PICK m \in Messages : PublishSucceeds(d, m) \/ PublishFails(d, m)
  BY DEF Send
<1> DEFINE b == batch[d]
<1>2. /\ m \in b.todo /\ \A n \in b.todo : Created[m] <= Created[n]
      /\ b \in Transaction
  BY <1>1 DEF PublishSucceeds, PublishFails, Turn, OutboxTypeOK
<1>3. /\ b.open /\ m \notin b.done \cup b.failed \cup b.rest
      /\ b.failed = {} /\ b.rest = {}
  BY <1>2, ClosedFacts DEF BatchSound
<1>4. UNCHANGED <<stored, published, attempts, broker, aborts>>
  BY <1>1 DEF PublishSucceeds, PublishFails
<1>5. /\ sends' = [sends EXCEPT ![m] = sends[m] + 1] \/ sends' = sends
      /\ PublishSucceeds(d, m) => sends' = [sends EXCEPT ![m] = sends[m] + 1]
  BY <1>1 DEF PublishSucceeds, PublishFails
<1>6. \E t \in Transaction :
        /\ batch' = [batch EXCEPT ![d] = t] /\ t.open
        /\ \/ /\ t.todo = b.todo \ {m} /\ t.done = b.done \cup {m} /\ t.failed = {} /\ t.rest = {}
              /\ PublishSucceeds(d, m)
           \/ /\ t.todo = {} /\ t.done = b.done /\ t.failed = {m} /\ t.rest = b.todo \ {m}
  <2>1. CASE PublishSucceeds(d, m)
    <3> DEFINE t == [b EXCEPT !.todo = b.todo \ {m}, !.done = b.done \cup {m}]
    <3>1. batch' = [batch EXCEPT ![d] = t]
      BY <2>1 DEF PublishSucceeds, OutboxTypeOK, Transaction
    <3>2. t \in Transaction /\ t.open /\ t.todo = b.todo \ {m} /\ t.done = b.done \cup {m}
          /\ t.failed = {} /\ t.rest = {}
      BY <1>2, <1>3 DEF Transaction
    <3> QED BY <2>1, <3>1, <3>2
  <2>2. CASE PublishFails(d, m)
    <3> DEFINE t == AfterFailure(d, m)
    <3>1. batch' = [batch EXCEPT ![d] = t]
      BY <2>2 DEF PublishFails
    <3>2. t \in Transaction /\ t.open /\ t.todo = {} /\ t.done = b.done
          /\ t.failed = {m} /\ t.rest = b.todo \ {m}
      BY <1>2, <1>3 DEF Transaction, AfterFailure
    <3> QED BY <3>1, <3>2
  <2> QED BY <1>1, <2>1, <2>2
<1>7. PICK t \in Transaction :
        /\ batch' = [batch EXCEPT ![d] = t] /\ t.open
        /\ \/ /\ t.todo = b.todo \ {m} /\ t.done = b.done \cup {m} /\ t.failed = {} /\ t.rest = {}
              /\ PublishSucceeds(d, m)
           \/ /\ t.todo = {} /\ t.done = b.done /\ t.failed = {m} /\ t.rest = b.todo \ {m}
  BY <1>6
<1>8. \A e \in Dispatchers : batch'[e] = IF e = d THEN t ELSE batch[e]
  BY <1>7 DEF OutboxTypeOK
<1>9. \A n \in Messages : /\ sends'[n] \in Nat /\ sends'[n] >= sends[n]
                          /\ n # m => sends'[n] = sends[n]
                          /\ sends'[n] <= sends[n] + 1
  BY <1>5 DEF OutboxTypeOK
<1>10. OutboxTypeOK'
  BY <1>4, <1>5, <1>7 DEF OutboxTypeOK
<1>11. BatchSound'
  <2> SUFFICES ASSUME NEW e \in Dispatchers
               PROVE  /\ ~batch'[e].open => batch'[e] = Closed
                      /\ batch'[e].todo \cap (batch'[e].done \cup batch'[e].failed \cup batch'[e].rest) = {}
                      /\ batch'[e].done \cap batch'[e].failed = {}
                      /\ batch'[e].todo # {} => batch'[e].failed = {} /\ batch'[e].rest = {}
                      /\ \A k, n \in batch'[e].failed : k = n
                      /\ \A k \in batch'[e].failed, n \in batch'[e].rest : Created[k] <= Created[n]
    BY DEF BatchSound
  <2>1. CASE e = d BY <1>2, <1>3, <1>7, <1>8, <2>1 DEF BatchSound
  <2>2. CASE e # d BY <1>8, <2>2 DEF BatchSound
  <2> QED BY <2>1, <2>2
<1>12. \A e \in Dispatchers : Locked(e)' = Locked(e)
  <2> SUFFICES ASSUME NEW e \in Dispatchers PROVE Locked(e)' = Locked(e)
    OBVIOUS
  <2>1. CASE e = d BY <1>2, <1>3, <1>7, <1>8, <2>1 DEF Locked
  <2>2. CASE e # d BY <1>8, <2>2 DEF Locked
  <2> QED BY <2>1, <2>2
<1>13. LocksSound' BY <1>4, <1>12 DEF LocksSound
<1>14. SentSound'
  <2>1. PublishedWasSent' BY <1>4, <1>9 DEF SentSound, PublishedWasSent, OutboxTypeOK
  <2>2. ASSUME NEW e \in Dispatchers, NEW n \in Messages, n \in batch'[e].done
        PROVE  sends'[n] > 0
    <3>1. CASE n \in batch[e].done BY <1>9, <3>1 DEF SentSound, OutboxTypeOK
    <3>2. CASE n \notin batch[e].done
      <4>1. n = m /\ PublishSucceeds(d, m) BY <1>7, <1>8, <2>2, <3>2
      <4> QED BY <1>5, <4>1 DEF OutboxTypeOK
    <3> QED BY <3>1, <3>2
  <2> QED BY <2>1, <2>2 DEF SentSound
<1>15. SendsExplained'
  <2>1. ~Open(m)
    <3>1. m \notin published
      BY <1>2 DEF LocksSound, Locked, OutboxTypeOK
    <3>2. ASSUME NEW e \in Dispatchers PROVE m \notin batch[e].done \cup batch[e].failed
      BY <1>2, <1>3 DEF LocksSound, Locked
    <3> QED BY <3>1, <3>2 DEF Open
  <2>2. Open(m)' BY <1>7, <1>8 DEF Open
  <2>3. ASSUME NEW n \in Messages, n # m PROVE Open(n)' <=> Open(n)
    BY <1>3, <1>4, <1>7, <1>8, <2>3 DEF Open
  <2>4. ASSUME NEW n \in Messages PROVE sends'[n] <= attempts[n] + aborts + 1
    BY <1>9, <2>1, <2>4 DEF SendsExplained, OutboxTypeOK
  <2>5. ASSUME NEW n \in Messages, ~Open(n)' PROVE sends'[n] <= attempts[n] + aborts
    BY <1>9, <2>2, <2>3, <2>5 DEF SendsExplained
  <2> QED BY <1>4, <2>4, <2>5 DEF SendsExplained
<1> QED BY <1>10, <1>11, <1>13, <1>14, <1>15

\* A batch ends: its rows are free, marked or with one attempt less.
LEMMA CommitKeeps ==
  ASSUME OutboxInv, NEW d \in Dispatchers, Commit(d) PROVE OutboxInv'
<1> USE OutboxAssumption, ClosedFacts DEF OutboxInv
<1> DEFINE b == batch[d]
<1>1. /\ b.todo = {} /\ batch' = [batch EXCEPT ![d] = Closed]
      /\ published' = published \cup b.done /\ stored' = stored \ b.done
      /\ UNCHANGED <<sends, broker, aborts>>
      /\ attempts' = [m \in Messages |-> IF m \in b.failed THEN attempts[m] + 1 ELSE attempts[m]]
  BY DEF Commit, Finished, Marked, Counted
<1>2. b \in Transaction /\ b.done \subseteq Messages /\ b.failed \subseteq Messages
  BY DEF OutboxTypeOK, Transaction
<1>3. \A e \in Dispatchers : batch'[e] = IF e = d THEN Closed ELSE batch[e]
  BY <1>1 DEF OutboxTypeOK
<1>4. \A m \in Messages : /\ attempts'[m] = IF m \in b.failed THEN attempts[m] + 1 ELSE attempts[m]
                          /\ m \in b.failed => attempts[m] < MaxAttempts
  BY <1>1 DEF LocksSound, Locked
<1>5. OutboxTypeOK'
  <2>1. attempts' \in [Messages -> 0..MaxAttempts]
    BY <1>1, <1>4 DEF OutboxTypeOK
  <2> QED BY <1>1, <1>2, <2>1 DEF OutboxTypeOK
<1>6. BatchSound' BY <1>3 DEF BatchSound
<1>7. LocksSound'
  <2>1. Locked(d)' = {} /\ \A e \in Dispatchers \ {d} : Locked(e)' = Locked(e)
    BY <1>3 DEF Locked
  <2>2. \A e \in Dispatchers \ {d} : Locked(e) \cap (b.done \cup b.failed) = {}
    BY <1>2 DEF LocksSound, Locked
  <2> QED BY <1>1, <1>4, <2>1, <2>2 DEF LocksSound
<1>8. SentSound'
  BY <1>1, <1>2, <1>3 DEF SentSound, PublishedWasSent
<1>9. SendsExplained'
  <2> SUFFICES ASSUME NEW m \in Messages
               PROVE  /\ sends[m] <= attempts'[m] + aborts + 1
                      /\ ~Open(m)' => sends[m] <= attempts'[m] + aborts
    BY <1>1 DEF SendsExplained
  <2>1. /\ sends[m] \in Nat /\ attempts[m] \in Nat /\ aborts \in Nat
        /\ sends[m] <= attempts[m] + aborts + 1
        /\ ~Open(m) => sends[m] <= attempts[m] + aborts
    BY DEF OutboxTypeOK, SendsExplained
  <2>2. CASE m \in b.failed
    BY <1>4, <2>1, <2>2
  <2>3. CASE m \notin b.failed
    <3>1. Open(m)' <=> Open(m)
      BY <1>1, <1>3, <2>3 DEF Open
    <3> QED BY <1>4, <2>1, <2>3, <3>1
  <2> QED BY <2>2, <2>3
<1> QED BY <1>5, <1>6, <1>7, <1>8, <1>9

\* A batch is rolled back: what it sent may be sent again.
LEMMA AbortKeeps ==
  ASSUME OutboxInv, NEW d \in Dispatchers, Abort(d) PROVE OutboxInv'
<1> USE OutboxAssumption, ClosedFacts DEF OutboxInv
<1>1. /\ batch' = [batch EXCEPT ![d] = Closed] /\ aborts' = aborts + 1
      /\ aborts < MaxAborts
      /\ UNCHANGED <<stored, published, attempts, sends, broker>>
  BY DEF Abort
<1>2. \A e \in Dispatchers : batch'[e] = IF e = d THEN Closed ELSE batch[e]
  BY <1>1 DEF OutboxTypeOK
<1>3. OutboxTypeOK' BY <1>1 DEF OutboxTypeOK
<1>4. BatchSound' BY <1>2 DEF BatchSound
<1>5. Locked(d)' = {} /\ \A e \in Dispatchers \ {d} : Locked(e)' = Locked(e)
  BY <1>2 DEF Locked
<1>6. LocksSound' BY <1>1, <1>5 DEF LocksSound
<1>7. SentSound' BY <1>1, <1>2 DEF SentSound, PublishedWasSent
<1>8. SendsExplained'
  <2> SUFFICES ASSUME NEW m \in Messages
               PROVE  sends[m] <= attempts[m] + aborts'
    BY <1>1, <1>3 DEF SendsExplained, OutboxTypeOK
  <2>1. sends[m] \in Nat /\ attempts[m] \in Nat /\ aborts \in Nat
    BY DEF OutboxTypeOK
  <2> QED BY <1>1, <2>1 DEF SendsExplained
<1> QED BY <1>3, <1>4, <1>6, <1>7, <1>8

\* Inserting a row, and the broker's changes, touch no batch.
LEMMA OtherKeeps ==
  ASSUME OutboxInv, UNCHANGED <<published, attempts, sends, batch, aborts>>,
         stored \subseteq stored', stored' \subseteq Messages, stored' \cap published = {},
         broker' \in {"up", "down"}
  PROVE  OutboxInv'
<1> USE DEF OutboxInv
<1>1. OutboxTypeOK' BY DEF OutboxTypeOK
<1>2. BatchSound' BY DEF BatchSound
<1>3. LocksSound' BY DEF LocksSound, Locked
<1>4. SentSound' BY DEF SentSound, PublishedWasSent
<1>5. SendsExplained' BY DEF SendsExplained, Open
<1> QED BY <1>1, <1>2, <1>3, <1>4, <1>5

\* Every step keeps the invariant.
LEMMA NextOutbox == OutboxInv /\ [Next]_vars => OutboxInv'
<1> SUFFICES ASSUME OutboxInv, [Next]_vars PROVE OutboxInv'
  OBVIOUS
<1>1. ASSUME NEW m \in Messages, Insert(m) PROVE OutboxInv'
  BY <1>1, OtherKeeps DEF Insert, OutboxInv, OutboxTypeOK
<1>2. CASE BrokerChanges
  BY <1>2, OtherKeeps DEF BrokerChanges, OutboxInv, OutboxTypeOK
<1>3. CASE UNCHANGED vars
  BY <1>3, OtherKeeps DEF vars, OutboxInv, OutboxTypeOK
<1> QED BY <1>1, <1>2, <1>3, SelectKeeps, SendKeeps, CommitKeeps, AbortKeeps DEF Next

\* The invariant holds in every behaviour.
THEOREM OutboxCoherence == Spec => []OutboxInv
BY InitOutbox, NextOutbox, PTL DEF Spec

\* Every row keeps its type: in particular no row is tried more than
\* MaxAttempts times, and no row is both waiting and published.
THEOREM OutboxTypeCorrect == Spec => []OutboxTypeOK
<1>1. OutboxInv => OutboxTypeOK BY DEF OutboxInv
<1> QED BY <1>1, OutboxCoherence, PTL

\* What is marked as published has reached the broker.
THEOREM OutboxSent == Spec => []PublishedWasSent
<1>1. OutboxInv => PublishedWasSent BY DEF OutboxInv, SentSound
<1> QED BY <1>1, OutboxCoherence, PTL

\* A message is sent again only after a counted failure or a rolled back
\* batch, however many dispatchers there are.
THEOREM OutboxDuplicates == Spec => []DuplicatesExplained
<1>1. OutboxInv => DuplicatesExplained
  BY DEF OutboxInv, SendsExplained, DuplicatesExplained
<1> QED BY <1>1, OutboxCoherence, PTL

\* A batch counts an attempt for one row at most, the oldest it leaves.
THEOREM OutboxOneAttempt == Spec => FailureCostsOneAttempt
<1> DEFINE Costs(m) ==
      /\ attempts'[m] = attempts[m] + 1
      /\ \E d \in Dispatchers :
           /\ m \in Locked(d)
           /\ \A n \in Locked(d) \ published' :
                Created[m] <= Created[n] /\ (n # m => attempts'[n] = attempts[n])
<1>1. OutboxInv /\ [Next]_vars =>
        [\A m \in Messages : attempts'[m] > attempts[m] => Costs(m)]_vars
  <2> SUFFICES ASSUME OutboxInv, [Next]_vars, NEW m \in Messages, attempts'[m] > attempts[m]
               PROVE  Costs(m)
    OBVIOUS
  <2> USE OutboxAssumption DEF OutboxInv
  <2>1. attempts' # attempts
    BY DEF OutboxTypeOK
  <2>2. PICK d \in Dispatchers : Commit(d)
    BY <2>1 DEF Next, vars, Insert, Select, Send, PublishSucceeds, PublishFails, Abort,
                BrokerChanges
  <2>3. /\ \A n \in Messages :
             attempts'[n] = IF n \in batch[d].failed THEN attempts[n] + 1 ELSE attempts[n]
        /\ batch[d].todo = {} /\ batch[d].done \subseteq published'
        /\ batch[d] \in Transaction
    BY <2>2 DEF Commit, Finished, Marked, Counted, OutboxTypeOK
  <2>4. m \in batch[d].failed /\ attempts'[m] = attempts[m] + 1
    BY <2>3 DEF OutboxTypeOK
  <2>5. \A n \in Locked(d) \ published' : n \in Messages /\ n \in batch[d].failed \cup batch[d].rest
    BY <2>3 DEF Locked, Transaction
  <2>6. ASSUME NEW n \in Locked(d) \ published'
        PROVE  Created[m] <= Created[n] /\ (n # m => attempts'[n] = attempts[n])
    BY <2>3, <2>4, <2>5, <2>6 DEF BatchSound
  <2>7. m \in Locked(d) BY <2>4 DEF Locked
  <2> QED BY <2>4, <2>6, <2>7
<1> QED BY <1>1, OutboxCoherence, PTL DEF Spec, FailureCostsOneAttempt
=============================================================================
