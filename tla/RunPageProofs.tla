--------------------------- MODULE RunPageProofs ---------------------------
(***************************************************************************)
(* Proofs about RunPage, for any number of checkpoints, metadata edits,    *)
(* streams and events on the wire.                                         *)
(***************************************************************************)
EXTENDS RunPage, TLAPS

\* The page's tables are total.
TablesOK ==
  /\ request = [q \in Requests |-> request[q]]
  /\ shown = [q \in Queries |-> shown[q]]

PageTypes == PageTypeOK /\ TablesOK

\* The types of what is derived from the row.
LEMMA RowFacts ==
  ASSUME PageTypes
  PROVE  /\ row \in Copy /\ row.status = db.status /\ row.version = db.version
         /\ NoCopy \in Copy /\ listsOf(db) \in Lists /\ NoLists \in Lists
         /\ \A k \in {"slow", "classification"} : Files(k) \subseteq AllFiles
BY DEF PageTypes, PageTypeOK, row, Copy, NoCopy, State, listsOf, Lists, NoLists, Files,
       AllFiles, RunStatus

\* The types hold when the run has just started.
LEMMA InitTypes == Init => PageTypes
<1> SUFFICES ASSUME Init PROVE PageTypes
  OBVIOUS
<1>1. db \in State
  BY DEF Init, State, RunStatus
<1>2. row \in Copy
  BY DEF Init, row, Copy, RunStatus
<1>3. listsOf(db) \in Lists /\ NoLists \in Lists
  BY <1>1 DEF listsOf, Lists, State, NoLists
<1>4. /\ request = [q \in Requests |-> request[q]]
      /\ \A q \in Requests : request[q] = [phase |-> "none", answer |-> Blank(q)]
  BY DEF Init, Request
<1>5. shown = [q \in Queries |-> shown[q]] /\ shown["run"] = "NONE" /\ shown["rows"] = NoLists
  BY DEF Init, Queries, Blank
<1>6. exec \in [kind : {"slow", "classification"}, at : {"step", "end", "gone"}, copy : Copy]
  BY <1>2 DEF Init
<1>7. \A q \in Requests : request[q] \in [phase : {"none", "sent", "answered"},
                                          answer : IF q = "rows" THEN Lists ELSE RowStatus]
  BY <1>3, <1>4 DEF Blank, RowStatus
<1>8. wire \in Seq(Lists) /\ reaction \in [to : Lists, awaiting : SUBSET Queries]
        /\ reaction.awaiting = {}
  BY <1>3 DEF Init
<1> QED
  BY <1>1, <1>3, <1>4, <1>5, <1>6, <1>7, <1>8, PageAssumption
  DEF Init, PageTypes, PageTypeOK, TablesOK, Streams, RowStatus

\* Steps of the executor and of recovery: the page's variables stay.
LEMMA DataTypes ==
  ASSUME PageTypes, UNCHANGED pageVars, db' \in State, content' \subseteq AllFiles,
         exec' \in [kind : {"slow", "classification"}, at : {"step", "end", "gone"}, copy : Copy],
         announce' \in Lists
  PROVE  PageTypes'
BY DEF PageTypes, PageTypeOK, TablesOK, pageVars

\* A committed row only moves on: a finished run keeps its status, the version
\* never falls and grows with every change of status.
Forward ==
  /\ db' \in State
  /\ db'.version >= db.version
  /\ db'.status # db.status => db.status \notin Outcomes /\ db'.version > db.version

\* Records, field by field.
LEMMA MovedFacts ==
  ASSUME db \in State, NEW t \in RunStatus
  PROVE  /\ Moved(t) \in State /\ Moved(t).status = t /\ Moved(t).version = db.version + 1
         /\ Moved(t).logs = db.logs /\ Moved(t).files = db.files
<1> DEFINE u == [status |-> t, version |-> db.version, logs |-> db.logs, files |-> db.files]
<1>0. [db EXCEPT !.status = t] = u
  BY DEF State
<1>a. Moved(t) = [u EXCEPT !.version = db.version + 1]
  BY <1>0 DEF Moved
<1>1. Moved(t) = [status |-> t, version |-> db.version + 1, logs |-> db.logs, files |-> db.files]
  BY <1>a
<1>2. db.version \in Nat /\ db.logs \in Nat /\ db.files \subseteq AllFiles
  BY DEF State
<1> QED BY <1>1, <1>2 DEF State

\* Likewise for an insertion of logs.
LEMMA LogsFacts ==
  ASSUME NEW s \in State, NEW n \in Nat
  PROVE  /\ [s EXCEPT !.logs = n] \in State /\ [s EXCEPT !.logs = n].status = s.status
         /\ [s EXCEPT !.logs = n].version = s.version
         /\ [s EXCEPT !.logs = n].files = s.files
<1>1. [s EXCEPT !.logs = n] = [status |-> s.status, version |-> s.version, logs |-> n, files |-> s.files]
  BY DEF State
<1>2. s.version \in Nat /\ s.status \in RunStatus /\ s.files \subseteq AllFiles
  BY DEF State
<1> QED BY <1>1, <1>2 DEF State

\* The copy of the run row in the executor's session is an earlier row or, if
\* the versions agree, the row.
CopySound ==
  exec.at # "gone" =>
    /\ exec.copy.version <= db.version
    /\ exec.copy.version = db.version => exec.copy.status = db.status

\* The steps of the executor and of recovery.
DataStep == StartLog \/ Checkpoint \/ Put \/ Succeed \/ Fail \/ Stop \/ Recover

\* Leave, as the proofs cite it.
Leaves == exec' = [exec EXCEPT !.at = "gone", !.copy = NoCopy]

\* An executor that leaves keeps only its kind.
LEMMA LeaveFacts ==
  ASSUME PageTypes, Leaves
  PROVE  /\ exec' \in [kind : {"slow", "classification"}, at : {"step", "end", "gone"}, copy : Copy]
         /\ exec'.kind = exec.kind /\ exec'.at = "gone"
BY RowFacts DEF PageTypes, PageTypeOK, Leaves

\* What such a step does: the row moves forward, contents are only added, the
\* session's copy is kept, read afresh or dropped, and artifact rows appear
\* once all their contents are stored.
LEMMA DataFacts ==
  ASSUME PageTypes, CopySound, DataStep
  PROVE  /\ Forward /\ UNCHANGED pageVars /\ announce' \in Lists
         /\ content \subseteq content' /\ content' \subseteq AllFiles
         /\ exec' \in [kind : {"slow", "classification"}, at : {"step", "end", "gone"}, copy : Copy]
         /\ exec'.kind = exec.kind
         /\ \/ exec'.at = "gone" \/ exec' = exec
            \/ UNCHANGED <<db.status, db.version>> /\ exec'.copy = row
         /\ db'.files = db.files \/ (db'.files = Files(exec.kind) /\ Files(exec.kind) \subseteq content)
<1> USE RowFacts DEF PageTypes, PageTypeOK
<1>0. /\ db.logs \in Nat /\ db.version \in Nat /\ db.status \in RunStatus
      /\ exec.kind \in {"slow", "classification"} /\ exec.copy \in Copy
  BY DEF State
<1>1. CASE StartLog
  <2>1. db' = [db EXCEPT !.logs = 1] /\ announce' = listsOf(db')
    BY <1>1 DEF StartLog, CommitAndAnnounce
  <2>2. db' \in State /\ db'.status = db.status /\ db'.version = db.version /\ db'.files = db.files
    BY <2>1, LogsFacts
  <2>3. announce' \in Lists
    BY <2>1, <2>2 DEF listsOf, Lists, State
  <2> QED BY <1>0, <1>1, <2>2, <2>3 DEF StartLog, Forward
<1>2. CASE Checkpoint
  <2>1. CASE db.status = "CANCELLING"
    <3> DEFINE moved == Moved("CANCELLED")
    <3>0. db' = [moved EXCEPT !.logs = @ + 1]
      BY <1>2, <2>1 DEF Checkpoint, CommitAndAnnounce
    <3>1. announce' = listsOf(db') /\ Leaves /\ UNCHANGED <<content, pageVars>>
      BY <1>2, <2>1 DEF Checkpoint, CommitAndAnnounce, Leave, Leaves
    <3>a. moved \in State /\ moved.version = db.version + 1 /\ moved.files = db.files
          /\ moved.logs = db.logs
      BY MovedFacts DEF RunStatus
    <3> HIDE DEF moved
    <3>2. db' \in State /\ db'.version = db.version + 1 /\ db'.files = db.files
      <4>1. moved.logs + 1 \in Nat BY <1>0, <3>a
      <4>2. db' = [moved EXCEPT !.logs = moved.logs + 1] BY <3>0
      <4> QED BY <3>a, <4>1, <4>2, LogsFacts
    <3>3. announce' \in Lists
      BY <3>1, <3>2 DEF listsOf, Lists, State
    <3> QED BY <1>0, <2>1, <3>1, <3>2, <3>3, LeaveFacts DEF Forward, Outcomes
  <2>2. CASE db.status # "CANCELLING"
    <3>1. /\ db' = [db EXCEPT !.logs = db.logs + 1] /\ announce' = listsOf(db')
          /\ exec' = [exec EXCEPT !.at = IF db.logs = Steps THEN "end" ELSE "step", !.copy = row]
          /\ UNCHANGED <<content, pageVars>>
      BY <1>2, <2>2 DEF Checkpoint, CommitAndAnnounce
    <3>2. db' \in State /\ db'.status = db.status /\ db'.version = db.version /\ db'.files = db.files
      <4>1. db.logs + 1 \in Nat BY <1>0
      <4> QED BY <3>1, <4>1, LogsFacts
    <3>3. announce' \in Lists
      BY <3>1, <3>2 DEF listsOf, Lists, State
    <3>4. /\ exec' \in [kind : {"slow", "classification"}, at : {"step", "end", "gone"}, copy : Copy]
          /\ exec'.kind = exec.kind /\ exec'.copy = row
      BY <3>1
    <3> QED BY <1>0, <3>1, <3>2, <3>3, <3>4 DEF Forward
  <2> QED BY <2>1, <2>2
<1>3. CASE Put
  <2>1. PICK i \in DOMAIN Generated(exec.kind) : content' = content \cup {Generated(exec.kind)[i]}
    BY <1>3 DEF Put
  <2>2. Generated(exec.kind)[i] \in AllFiles
    BY <1>0 DEF Files, AllFiles
  <2> QED BY <1>0, <1>3, <2>1, <2>2 DEF Put, Forward
<1>4. CASE Succeed
  <2>1. /\ Admitted(exec.copy, "SUCCEEDED") /\ Files(exec.kind) \subseteq content /\ exec.at = "end"
        /\ Leaves /\ UNCHANGED <<content, pageVars>> /\ announce' = listsOf(db')
    BY <1>4 DEF Succeed, StoredAll, CommitAndAnnounce, Leave, Leaves, At
  <2>2. db.status = "RUNNING"
    BY <2>1 DEF Admitted, CopySound, CanTransition, VALID_TRANSITIONS
  <2>3. db' = [Moved("SUCCEEDED") EXCEPT !.files = Files(exec.kind),
                                         !.logs = IF exec.kind = "slow" THEN @ ELSE 3]
    BY <1>4 DEF Succeed, CommitAndAnnounce
  <2>4. db' \in State /\ db'.status = "SUCCEEDED" /\ db'.version = db.version + 1
        /\ db'.files = Files(exec.kind)
    BY <1>0, <2>3, MovedFacts DEF State, RunStatus
  <2>5. announce' \in Lists
    BY <2>1, <2>4 DEF listsOf, Lists, State
  <2> QED BY <1>0, <2>1, <2>2, <2>4, <2>5, LeaveFacts DEF Forward, Outcomes
<1>5. CASE Fail
  <2>1. /\ Admitted(IF exec.kind = "slow" THEN exec.copy ELSE row, "FAILED") /\ exec.at = "end"
        /\ Leaves /\ UNCHANGED <<content, pageVars>> /\ announce' = listsOf(db') /\ db' = Moved("FAILED")
    BY <1>5 DEF Fail, CommitAndAnnounce, Leave, Leaves, At
  <2>2. db.status = "RUNNING"
    BY <2>1 DEF Admitted, CopySound, CanTransition, VALID_TRANSITIONS
  <2>3. db' \in State /\ db'.version = db.version + 1 /\ db'.files = db.files
    BY <2>1, MovedFacts DEF RunStatus
  <2>4. announce' \in Lists
    BY <2>1, <2>3 DEF listsOf, Lists, State
  <2> QED BY <1>0, <2>1, <2>2, <2>3, <2>4, LeaveFacts DEF Forward, Outcomes
<1>6. CASE Stop
  BY <1>0, <1>6, LeaveFacts DEF Stop, Leave, Leaves, Forward
<1>7. CASE Recover
  <2>1. db' \in State /\ db'.version = db.version + 1 /\ db'.files = db.files
    BY <1>7, MovedFacts DEF Recover, RunStatus
  <2> QED BY <1>0, <1>7, <2>1 DEF Recover, Forward, Outcomes
<1> QED BY <1>1, <1>2, <1>3, <1>4, <1>5, <1>6, <1>7 DEF DataStep

-----------------------------------------------------------------------------
(***************************************************************************)
(* The steps of the page and of the stream.                                *)
(***************************************************************************)

\* The type of an answer.
Answers(q) == IF q = "rows" THEN Lists ELSE RowStatus

\* What an answer read now is, and what stands for no answer.
LEMMA AnswerFacts ==
  ASSUME PageTypes, NEW q \in Requests
  PROVE  /\ Answer(q) \in Answers(q) /\ Blank(q) \in Answers(q)
         /\ q # "rows" => Answer(q) = db.status /\ Blank(q) = "NONE"
         /\ q = "rows" => Answer(q).files = db.files
BY RowFacts DEF Answer, Blank, Answers, listsOf, RowStatus, PageTypes, PageTypeOK, State

\* Setting one request leaves the others alone and the table well typed.
LEMMA SetRequest ==
  ASSUME PageTypes, NEW q \in Requests, NEW p \in {"none", "sent", "answered"},
         NEW a \in Answers(q), request' = [request EXCEPT ![q] = Request(p, a)]
  PROVE  /\ request' = [r \in Requests |-> request'[r]]
         /\ \A r \in Requests : request'[r] \in [phase : {"none", "sent", "answered"}, answer : Answers(r)]
         /\ request'[q].phase = p /\ request'[q].answer = a
         /\ \A r \in Requests : r # q => request'[r] = request[r]
<1> DEFINE rec == [phase |-> p, answer |-> a]
<1>1. rec \in [phase : {"none", "sent", "answered"}, answer : Answers(q)] /\ rec.phase = p /\ rec.answer = a
  OBVIOUS
<1>2. request' = [request EXCEPT ![q] = rec]
  BY DEF Request
<1>3. \A r \in Requests : request[r] \in [phase : {"none", "sent", "answered"}, answer : Answers(r)]
  BY DEF PageTypes, PageTypeOK, Answers
<1> HIDE DEF rec
<1>4. request'[q] = rec /\ \A r \in Requests : r # q => request'[r] = request[r]
  BY <1>2 DEF PageTypes, TablesOK
<1>5. request' = [r \in Requests |-> request'[r]]
  BY <1>2 DEF PageTypes, TablesOK
<1> QED BY <1>1, <1>3, <1>4, <1>5

\* A request that is over is neither answered nor waited for.
LEMMA SettleFacts ==
  ASSUME PageTypes, NEW q \in Requests, Settle(q)
  PROVE  /\ request' = [r \in Requests |-> request'[r]]
         /\ \A r \in Requests : request'[r] \in [phase : {"none", "sent", "answered"}, answer : Answers(r)]
         /\ request'[q].phase = "none" /\ \A r \in Requests : r # q => request'[r] = request[r]
         /\ reaction' \in [to : Lists, awaiting : SUBSET Queries]
         /\ \A r \in reaction'.awaiting : request'[r].phase # "none"
<1>1. request' = [request EXCEPT ![q] = Request("none", Blank(q))]
  BY DEF Settle
<1>2. /\ request' = [r \in Requests |-> request'[r]]
      /\ \A r \in Requests : request'[r] \in [phase : {"none", "sent", "answered"}, answer : Answers(r)]
      /\ request'[q].phase = "none" /\ \A r \in Requests : r # q => request'[r] = request[r]
  BY <1>1, SetRequest, AnswerFacts
<1>3. reaction' = [to |-> IF q = "rows" THEN NoLists ELSE reaction.to, awaiting |-> reaction.awaiting \ {q}]
  BY DEF Settle
<1>4. reaction.to \in Lists /\ reaction.awaiting \subseteq Queries
      /\ \A r \in reaction.awaiting : request[r].phase # "none"
  BY DEF PageTypes, PageTypeOK
<1>5. reaction' \in [to : Lists, awaiting : SUBSET Queries] /\ reaction'.awaiting = reaction.awaiting \ {q}
  BY <1>3, <1>4, RowFacts
<1> QED BY <1>2, <1>4, <1>5 DEF Requests

\* The steps of the page and of the stream that leave the rows alone.
PageStep ==
  \/ Publish \/ Connect \/ Disconnect \/ HandleEvent
  \/ \E s \in Streams : CloseStream(s)
  \/ \E q \in Queries : Poll(q) \/ Read(q)
  \/ \E q \in Requests : Apply(q) \/ Lose(q)

\* The commands of the page.
CommandStep == CancelRun \/ UpdateRunMetadata

\* An answer of a query is what the API reads now; what is newly shown is an
\* answer that has arrived, of the same kind.
Sourced ==
  /\ \A q \in Requests : \/ request'[q] = request[q] \/ request'[q].phase # "answered"
                         \/ q \in Queries /\ request'[q].answer = Answer(q)
  /\ \A q \in Queries : \/ shown'[q] = shown[q]
                        \/ \E r \in Requests : /\ request[r].phase = "answered"
                                               /\ shown'[q] = request[r].answer
                                               /\ (q = "rows") = (r = "rows")

\* The steps of the page keep the types and the rows, and invent no answers.
LEMMA PageFacts ==
  ASSUME PageTypes, PageStep
  PROVE  PageTypes' /\ UNCHANGED <<db, content, exec>> /\ Sourced
<1>0. /\ db \in State /\ content \subseteq AllFiles /\ stream \in 0..MaxStreams
      /\ server \in [Streams -> {"unused", "subscribed", "closed"}]
      /\ announce \in Lists /\ wire \in Seq(Lists) /\ shown["run"] \in RowStatus /\ shown["rows"] \in Lists
      /\ shown = [q \in Queries |-> shown[q]] /\ request = [q \in Requests |-> request[q]]
      /\ reaction \in [to : Lists, awaiting : SUBSET Queries]
      /\ \A q \in reaction.awaiting : request[q].phase # "none"
      /\ \A q \in Requests : request[q] \in [phase : {"none", "sent", "answered"}, answer : Answers(q)]
  BY DEF PageTypes, PageTypeOK, TablesOK, Answers
\* The types of the parts that a step touches.
<1>t. ASSUME UNCHANGED <<db, content, exec>>, announce' \in Lists, stream' \in 0..MaxStreams,
             server' \in [Streams -> {"unused", "subscribed", "closed"}], wire' \in Seq(Lists),
             shown' = [q \in Queries |-> shown'[q]], shown'["run"] \in RowStatus, shown'["rows"] \in Lists,
             request' = [q \in Requests |-> request'[q]],
             \A q \in Requests : request'[q] \in [phase : {"none", "sent", "answered"}, answer : Answers(q)],
             reaction' \in [to : Lists, awaiting : SUBSET Queries],
             \A q \in reaction'.awaiting : request'[q].phase # "none"
      PROVE  PageTypes'
  BY <1>t DEF PageTypes, PageTypeOK, TablesOK, Answers
<1>1. CASE Publish
  <2>1. UNCHANGED <<db, content, exec, stream, server, request, shown, reaction>> /\ announce' = NoLists
    BY <1>1 DEF Publish
  <2>a. wire' = Append(wire, announce) \/ wire' = wire
    BY <1>1 DEF Publish
  <2>b. announce \in Lists /\ wire \in Seq(Lists)
    BY <1>0
  <2>c. Append(wire, announce) \in Seq(Lists)
    BY <2>b
  <2>2. wire' \in Seq(Lists)
    BY <2>a, <2>b, <2>c
  <2>3. PageTypes'
    BY <1>0, <1>t, <2>1, <2>2, RowFacts
  <2> QED BY <2>1, <2>3 DEF Sourced
<1>2. CASE Connect
  <2>1. UNCHANGED <<db, content, exec, announce, wire, request, shown, reaction>>
    BY <1>2 DEF Connect, dataVars
  <2>2. stream' \in 0..MaxStreams /\ server' \in [Streams -> {"unused", "subscribed", "closed"}]
    BY <1>0, <1>2, PageAssumption DEF Connect, Streams
  <2>3. PageTypes'
    BY <1>0, <1>t, <2>1, <2>2
  <2> QED BY <2>1, <2>3 DEF Sourced
<1>3. CASE Disconnect
  <2>1. UNCHANGED <<db, content, exec, announce, server, request, shown, reaction>> /\ stream' = 0 /\ wire' = <<>>
    BY <1>3 DEF Disconnect, dataVars
  <2>2. 0 \in 0..MaxStreams
    BY PageAssumption
  <2>3. PageTypes'
    BY <1>0, <1>t, <2>1, <2>2
  <2> QED BY <2>1, <2>3 DEF Sourced
<1>4. CASE HandleEvent
  <2>1. /\ UNCHANGED <<db, content, exec, announce, stream, server, shown>>
        /\ wire # <<>> /\ wire' = Tail(wire) /\ reaction' = [to |-> Head(wire), awaiting |-> Queries]
        /\ request' = [q \in Requests |-> IF q = "command" \/ JoinsFirstLoad(q) THEN request[q]
                                          ELSE Request("sent", Blank(q))]
    BY <1>4 DEF HandleEvent, dataVars
  <2>2. wire' \in Seq(Lists) /\ Head(wire) \in Lists
    BY <1>0, <2>1
  <2>3. reaction' \in [to : Lists, awaiting : SUBSET Queries] /\ reaction'.awaiting = Queries
    BY <2>1, <2>2
  <2>4. ASSUME NEW q \in Requests
        PROVE  /\ request'[q] \in [phase : {"none", "sent", "answered"}, answer : Answers(q)]
               /\ q \in Queries => request'[q].phase # "none"
               /\ request'[q] = request[q] \/ request'[q].phase # "answered"
    <3>1. CASE q = "command" \/ JoinsFirstLoad(q)
      BY <1>0, <2>1, <3>1 DEF JoinsFirstLoad, Queries
    <3>2. CASE ~(q = "command" \/ JoinsFirstLoad(q))
      <4>1. request'[q] = [phase |-> "sent", answer |-> Blank(q)]
        BY <2>1, <3>2 DEF Request
      <4> QED BY <4>1, AnswerFacts
    <3> QED BY <3>1, <3>2
  <2>5. request' = [q \in Requests |-> request'[q]]
    BY <2>1
  <2>6. PageTypes'
    <3>1. \A q \in reaction'.awaiting : request'[q].phase # "none"
      BY <2>3, <2>4 DEF Requests
    <3> QED BY <1>0, <1>t, <2>1, <2>2, <2>3, <2>4, <2>5, <3>1
  <2> QED BY <2>1, <2>4, <2>6 DEF Sourced
<1>5. ASSUME NEW s \in Streams, CloseStream(s)
      PROVE  PageTypes' /\ UNCHANGED <<db, content, exec>> /\ Sourced
  <2>1. UNCHANGED <<db, content, exec, announce, stream, wire, request, shown, reaction>>
    BY <1>5 DEF CloseStream, dataVars
  <2>2. server' \in [Streams -> {"unused", "subscribed", "closed"}]
    BY <1>0, <1>5 DEF CloseStream
  <2>3. PageTypes'
    BY <1>0, <1>t, <2>1, <2>2
  <2> QED BY <2>1, <2>3 DEF Sourced
<1>6. ASSUME NEW q \in Queries, Poll(q) \/ Read(q)
      PROVE  PageTypes' /\ UNCHANGED <<db, content, exec>> /\ Sourced
  <2>1. /\ UNCHANGED <<db, content, exec, announce, stream, server, wire, shown, reaction>>
        /\ request' = [request EXCEPT ![q] = Request("answered", Answer(q))] /\ q \in Requests
    BY <1>6 DEF Poll, Read, dataVars, Requests
  <2>2. /\ request' = [r \in Requests |-> request'[r]]
        /\ \A r \in Requests : request'[r] \in [phase : {"none", "sent", "answered"}, answer : Answers(r)]
        /\ request'[q].phase = "answered" /\ request'[q].answer = Answer(q)
        /\ \A r \in Requests : r # q => request'[r] = request[r]
    BY <2>1, SetRequest, AnswerFacts
  <2>3. PageTypes'
    <3>1. \A r \in reaction'.awaiting : request'[r].phase # "none"
      BY <1>0, <2>1, <2>2 DEF Requests
    <3> QED BY <1>0, <1>t, <2>1, <2>2, <3>1
  <2> QED BY <2>1, <2>2, <2>3 DEF Sourced
<1>7. ASSUME NEW q \in Requests, Apply(q) \/ Lose(q)
      PROVE  PageTypes' /\ UNCHANGED <<db, content, exec>> /\ Sourced
  <2>1. UNCHANGED <<db, content, exec, announce, stream, server, wire>> /\ Settle(q)
    BY <1>7 DEF Apply, Lose, dataVars
  <2>2. \/ UNCHANGED shown
        \/ /\ request[q].phase = "answered"
           /\ shown' = [shown EXCEPT ![IF q = "command" THEN "run" ELSE q] = request[q].answer]
    BY <1>7 DEF Apply, Lose
  <2>3. /\ shown' = [r \in Queries |-> shown'[r]] /\ shown'["run"] \in RowStatus /\ shown'["rows"] \in Lists
        /\ \A r \in Queries : \/ shown'[r] = shown[r]
                              \/ /\ request[q].phase = "answered" /\ shown'[r] = request[q].answer
                                 /\ (r = "rows") = (q = "rows")
    <3>1. request[q].answer \in Answers(q)
      BY <1>0
    <3> DEFINE key == IF q = "command" THEN "run" ELSE q
    <3>2. CASE UNCHANGED shown
      BY <1>0, <3>2
    <3>3. CASE request[q].phase = "answered" /\ shown' = [shown EXCEPT ![key] = request[q].answer]
      <4>1. key \in Queries /\ (key = "rows") = (q = "rows")
        BY DEF Requests, Queries
      <4> HIDE DEF key
      <4>2. shown' = [r \in Queries |-> IF r = key THEN request[q].answer ELSE shown[r]]
        BY <1>0, <3>3, <4>1
      <4> QED BY <1>0, <3>1, <3>3, <4>1, <4>2 DEF Queries, Answers
    <3> QED BY <2>2, <3>2, <3>3
  <2>4. PageTypes'
    BY <1>0, <1>t, <2>1, <2>3, SettleFacts
  <2>5. \A r \in Requests : request'[r] = request[r] \/ request'[r].phase # "answered"
    BY <2>1, SettleFacts
  <2> QED BY <2>1, <2>3, <2>4, <2>5 DEF Sourced
<1> QED BY <1>1, <1>2, <1>3, <1>4, <1>5, <1>6, <1>7 DEF PageStep

\* A command moves the row forward and is answered with the status it commits.
LEMMA CommandFacts ==
  ASSUME PageTypes, CommandStep
  PROVE  /\ PageTypes' /\ Forward /\ db'.files = db.files
         /\ db'.version > db.version
         /\ UNCHANGED <<content, exec, shown>>
         /\ request'["command"].answer = db'.status
         /\ \A q \in Queries : request'[q] = request[q]
<1>0. db \in State /\ db.version \in Nat /\ db.status \in RunStatus
  BY DEF PageTypes, PageTypeOK, State
<1>1. /\ UNCHANGED <<content, exec, announce, stream, server, wire, shown, reaction>>
      /\ request' = [request EXCEPT !["command"] = Request("answered", db'.status)]
  BY DEF CommandStep, CancelRun, UpdateRunMetadata, Command
<1>2. db' \in State /\ db'.files = db.files /\ db'.version = db.version + 1
      /\ (db'.status = db.status \/ db.status \notin Outcomes)
  <2>1. CASE CancelRun
    <3>1. db' = Moved("CANCELLING") /\ db.status = "RUNNING"
      BY <2>1 DEF CancelRun, Command
    <3> QED BY <1>0, <3>1, MovedFacts DEF RunStatus, Outcomes
  <2>2. CASE UpdateRunMetadata
    <3>1. db' = [db EXCEPT !.version = db.version + 1]
      BY <2>2 DEF UpdateRunMetadata, Command
    <3> QED BY <1>0, <3>1 DEF State
  <2> QED BY <2>1, <2>2 DEF CommandStep
<1>3. db'.status \in Answers("command") /\ "command" \in Requests /\ "command" \notin Queries
  BY <1>2 DEF Answers, RowStatus, Requests, Queries, State
<1>4. /\ request' = [r \in Requests |-> request'[r]]
      /\ \A r \in Requests : request'[r] \in [phase : {"none", "sent", "answered"}, answer : Answers(r)]
      /\ request'["command"].phase = "answered" /\ request'["command"].answer = db'.status
      /\ \A r \in Requests : r # "command" => request'[r] = request[r]
  BY <1>1, <1>3, SetRequest
<1>5. PageTypes'
  <2>1. \A q \in reaction'.awaiting : request'[q].phase # "none"
    BY <1>1, <1>4 DEF PageTypes, PageTypeOK
  <2> QED BY <1>1, <1>2, <1>4, <2>1 DEF PageTypes, PageTypeOK, TablesOK, Answers
<1> QED BY <1>0, <1>1, <1>2, <1>3, <1>4, <1>5 DEF Forward, Requests

-----------------------------------------------------------------------------
(***************************************************************************)
(* The invariants.                                                         *)
(***************************************************************************)

\* An outcome on its way to the page is the run's, for good: rows with an
\* outcome do not change their status any more.
OutcomeSound ==
  /\ \A q \in {"run", "command"} :
       request[q].phase = "answered" /\ request[q].answer \in Outcomes =>
         request[q].answer = db.status
  /\ ShownOutcomeIsTrue

\* Artifact rows name stored contents, and whatever was read of them stays.
FilesSound ==
  /\ db.files \subseteq content /\ db.files \subseteq Files(exec.kind)
  /\ request["rows"].phase = "answered" => request["rows"].answer.files \subseteq db.files
  /\ Loaded("rows") => shown["rows"].files \subseteq db.files

PageIInv == PageTypes /\ CopySound /\ OutcomeSound /\ FilesSound

\* The invariants hold at the start, when nothing has been asked or stored.
LEMMA InitInvariant == Init => PageIInv
<1> SUFFICES ASSUME Init PROVE PageIInv
  OBVIOUS
<1>1. PageTypes
  BY InitTypes
<1>2. exec.copy = row /\ db.files = {}
  BY DEF Init
<1>3. CopySound
  BY <1>1, <1>2, RowFacts DEF CopySound, PageTypes, PageTypeOK, State
<1>4. \A q \in Requests : request[q].phase = "none"
  BY DEF Init, Request
<1>5. shown["run"] = "NONE" /\ ~Loaded("rows")
  BY DEF Init, Queries, Blank, Loaded
<1>6. OutcomeSound
  BY <1>4, <1>5 DEF OutcomeSound, ShownOutcomeIsTrue, ShowsOutcome, Outcomes, Requests, Queries
<1>7. FilesSound
  BY <1>2, <1>4, <1>5 DEF FilesSound, Requests, Queries
<1> QED BY <1>1, <1>3, <1>6, <1>7 DEF PageIInv

\* Every step keeps the invariants.
LEMMA StepInvariant == PageIInv /\ [Next]_vars => PageIInv'
<1> SUFFICES ASSUME PageIInv, [Next]_vars PROVE PageIInv'
  OBVIOUS
<1> USE DEF PageIInv
<1>0. /\ db \in State /\ db.version \in Nat /\ exec.copy.version \in Nat
      /\ exec.kind \in {"slow", "classification"}
  BY DEF PageTypes, PageTypeOK, State, Copy
<1>1. CASE DataStep
  <2>1. /\ Forward /\ UNCHANGED pageVars /\ announce' \in Lists
        /\ content \subseteq content' /\ content' \subseteq AllFiles
        /\ exec' \in [kind : {"slow", "classification"}, at : {"step", "end", "gone"}, copy : Copy]
        /\ exec'.kind = exec.kind
        /\ \/ exec'.at = "gone" \/ exec' = exec
           \/ UNCHANGED <<db.status, db.version>> /\ exec'.copy = row
        /\ db'.files = db.files \/ (db'.files = Files(exec.kind) /\ Files(exec.kind) \subseteq content)
    BY <1>1, DataFacts
  <2>2. PageTypes'
    BY <2>1, DataTypes DEF Forward
  <2>3. CopySound'
    <3>1. db'.version \in Nat
      BY <2>1 DEF Forward, State
    <3>2. CASE exec'.at = "gone"
      BY <3>2 DEF CopySound
    <3>3. CASE exec' = exec
      BY <1>0, <2>1, <3>1, <3>3 DEF CopySound, Forward
    <3>4. CASE UNCHANGED <<db.status, db.version>> /\ exec'.copy = row
      BY <1>0, <3>4, RowFacts DEF CopySound
    <3> QED BY <2>1, <3>2, <3>3, <3>4
  <2>4. OutcomeSound'
    BY <2>1 DEF OutcomeSound, ShownOutcomeIsTrue, ShowsOutcome, Forward, pageVars
  <2>5. FilesSound'
    <3>1. db.files \subseteq db'.files /\ db'.files \subseteq content' /\ db'.files \subseteq Files(exec'.kind)
      BY <2>1 DEF FilesSound
    <3> QED BY <2>1, <3>1 DEF FilesSound, Loaded, pageVars
  <2> QED BY <2>2, <2>3, <2>4, <2>5
<1>2. CASE PageStep
  <2>1. PageTypes' /\ UNCHANGED <<db, content, exec>> /\ Sourced
    BY <1>2, PageFacts
  <2>2. CopySound'
    BY <2>1 DEF CopySound
  <2>3. OutcomeSound'
    <3>1. \A q \in {"run", "command"} :
            request'[q].phase = "answered" /\ request'[q].answer \in Outcomes => request'[q].answer = db.status
      <4>1. Answer("run") = db.status
        BY DEF Answer
      <4> QED BY <2>1, <4>1 DEF OutcomeSound, Sourced, Requests, Queries
    <3>2. shown'["run"] \in Outcomes => shown'["run"] = db.status
      BY <2>1 DEF OutcomeSound, Sourced, Requests, Queries, ShownOutcomeIsTrue, ShowsOutcome
    <3> QED BY <2>1, <3>1, <3>2 DEF OutcomeSound, ShownOutcomeIsTrue, ShowsOutcome
  <2>4. FilesSound'
    <3>1. request'["rows"].phase = "answered" => request'["rows"].answer.files \subseteq db.files
      <4>1. Answer("rows").files = db.files
        BY AnswerFacts DEF Requests, Queries
      <4> QED BY <2>1, <4>1 DEF FilesSound, Sourced, Requests, Queries
    <3>2. shown'["rows"] # Blank("rows") => shown'["rows"].files \subseteq db.files
      BY <2>1 DEF FilesSound, Sourced, Loaded, Requests, Queries
    <3> QED BY <2>1, <3>1, <3>2 DEF FilesSound, Loaded, Blank
  <2> QED BY <2>1, <2>2, <2>3, <2>4
<1>3. CASE CommandStep
  <2>1. /\ PageTypes' /\ Forward /\ db'.files = db.files /\ db'.version > db.version
        /\ UNCHANGED <<content, exec, shown>>
        /\ request'["command"].answer = db'.status /\ \A q \in Queries : request'[q] = request[q]
    BY <1>3, CommandFacts
  <2>2. CopySound'
    <3>1. db'.version \in Nat
      BY <2>1 DEF Forward, State
    <3> QED BY <1>0, <2>1, <3>1 DEF CopySound
  <2>3. OutcomeSound'
    BY <2>1 DEF OutcomeSound, ShownOutcomeIsTrue, ShowsOutcome, Forward, Queries
  <2>4. FilesSound'
    BY <2>1 DEF FilesSound, Loaded, Queries, Blank
  <2> QED BY <2>1, <2>2, <2>3, <2>4
<1>4. CASE UNCHANGED vars
  BY <1>4 DEF vars, PageTypes, PageTypeOK, TablesOK, CopySound, OutcomeSound, ShownOutcomeIsTrue,
              ShowsOutcome, FilesSound, Loaded, Blank
<1> QED BY <1>1, <1>2, <1>3, <1>4 DEF Next, DataStep, PageStep, CommandStep

\* The invariants hold in every state.
THEOREM PageInvariant == Spec => []PageIInv
BY InitInvariant, StepInvariant, PTL DEF Spec

\* Every variable keeps its type, and the reader of the stream waits only for
\* requests that are under way.
THEOREM PageTypesCorrect == Spec => []PageTypeOK
<1>1. PageIInv => PageTypeOK
  BY DEF PageIInv, PageTypes
<1> QED BY <1>1, PageInvariant, PTL

\* When the page shows an outcome, and stops polling the run, that is the
\* run's status.
THEOREM PageOutcomes == Spec => []ShownOutcomeIsTrue
<1>1. PageIInv => ShownOutcomeIsTrue
  BY DEF PageIInv, OutcomeSound
<1> QED BY <1>1, PageInvariant, PTL

\* Every artifact that the page lists can be downloaded.
THEOREM PageDownloads == Spec => []ListedIsDownloadable
<1>1. PageIInv => ListedIsDownloadable
  BY DEF PageIInv, FilesSound, ListedIsDownloadable, Download
<1> QED BY <1>1, PageInvariant, PTL

-----------------------------------------------------------------------------
(***************************************************************************)
(* FreshAfterEvent: rows are only added, so what an event announces is     *)
(* covered by everything that is read after its commit.                    *)
(***************************************************************************)

Covers(new, old) == new.logs >= old.logs /\ old.files \subseteq new.files

\* The classification template logs nothing before its outcome.
Silent ==
  exec.kind = "classification" => exec.at # "step" /\ (exec.at = "end" => db.logs = 0)

FreshSound ==
  /\ Silent
  /\ announce # NoLists => Covers(listsOf(db), announce)
  /\ \A i \in 1..Len(wire) : Covers(listsOf(db), wire[i])
  /\ "rows" \in reaction.awaiting => Covers(listsOf(db), reaction.to)
  /\ FreshAfterEvent

\* Covering is transitive.
LEMMA CoversTransitive ==
  ASSUME NEW a \in Lists, NEW b \in Lists, NEW c \in Lists, Covers(a, b), Covers(b, c)
  PROVE  Covers(a, c)
BY DEF Covers, Lists

\* It holds at the start: the only announcement is that of the row itself.
LEMMA InitFresh == Init => FreshSound
<1> SUFFICES ASSUME Init PROVE FreshSound
  OBVIOUS
<1>1. PageTypes
  BY InitTypes
<1>2. Silent
  BY DEF Init, Silent
<1>3. Covers(listsOf(db), announce)
  BY <1>1, RowFacts DEF Init, Covers, Lists
<1>4. reaction.awaiting = {} /\ wire = <<>>
  BY DEF Init
<1> QED BY <1>2, <1>3, <1>4 DEF FreshSound, FreshAfterEvent

\* The executor and recovery only add rows, and announce what they commit.
LEMMA DataFresh ==
  ASSUME PageIInv, Silent, DataStep
  PROVE  /\ Silent' /\ Covers(listsOf(db'), listsOf(db))
         /\ announce' \in {announce, NoLists, listsOf(db')}
<1> USE DEF PageIInv
<1>0. /\ db.logs \in Nat /\ db.files \subseteq AllFiles /\ db \in State
      /\ exec \in [kind : {"slow", "classification"}, at : {"step", "end", "gone"}, copy : Copy]
      /\ db.files \subseteq Files(exec.kind) /\ row \in Copy
  BY RowFacts DEF PageTypes, PageTypeOK, State, FilesSound
<1>a. ASSUME NEW s \in State, s.logs >= db.logs, db.files \subseteq s.files
      PROVE  Covers(listsOf(s), listsOf(db))
  BY <1>a DEF Covers, listsOf
<1>1. CASE StartLog
  <2>1. db' = [db EXCEPT !.logs = 1] /\ announce' = listsOf(db') /\ db.logs = 0
        /\ exec' = exec /\ exec.at = "step"
    BY <1>1 DEF StartLog, CommitAndAnnounce, At
  <2>2. db' \in State /\ db'.logs = 1 /\ db'.files = db.files
    BY <1>0, <2>1 DEF State
  <2>3. db'.logs >= db.logs
    BY <2>1, <2>2
  <2>4. Covers(listsOf(db'), listsOf(db))
    BY <1>a, <2>2, <2>3
  <2>5. Silent'
    BY <2>1 DEF Silent
  <2> QED BY <2>1, <2>4, <2>5
<1>2. CASE Checkpoint
  <2>1. exec.at = "step" /\ announce' = listsOf(db')
    BY <1>2 DEF Checkpoint, CommitAndAnnounce, At
  <2>2. exec.kind = "slow" /\ exec'.kind = "slow"
    BY <1>0, <1>2, <2>1 DEF Silent, Checkpoint, Leave
  <2>3. db' \in State /\ db'.logs = db.logs + 1 /\ db'.files = db.files
    <3>0. db.logs + 1 \in Nat
      BY <1>0
    <3>1. CASE db.status = "CANCELLING"
      <4> DEFINE moved == Moved("CANCELLED")
      <4>1. moved \in State /\ moved.logs = db.logs /\ moved.files = db.files
        BY <1>0, MovedFacts DEF RunStatus
      <4>2. db' = [moved EXCEPT !.logs = @ + 1]
        BY <1>2, <3>1 DEF Checkpoint, CommitAndAnnounce
      <4> HIDE DEF moved
      <4>3. db' = [moved EXCEPT !.logs = db.logs + 1]
        BY <4>1, <4>2
      <4>4. db'.logs = db.logs + 1
        BY <4>1, <4>3 DEF State
      <4> QED BY <3>0, <4>1, <4>3, <4>4, LogsFacts
    <3>2. CASE db.status # "CANCELLING"
      <4>1. db' = [db EXCEPT !.logs = db.logs + 1]
        BY <1>2, <3>2 DEF Checkpoint, CommitAndAnnounce
      <4>2. db'.logs = db.logs + 1
        BY <1>0, <4>1 DEF State
      <4> QED BY <1>0, <3>0, <4>1, <4>2, LogsFacts
    <3> QED BY <3>1, <3>2
  <2> QED BY <1>0, <1>a, <2>1, <2>2, <2>3 DEF Silent
<1>3. CASE Put
  BY <1>0, <1>a, <1>3 DEF Put, Silent
<1>4. CASE Succeed
  <2>1. Leaves /\ announce' = listsOf(db') /\ exec.at = "end"
    BY <1>4 DEF Succeed, CommitAndAnnounce, Leave, Leaves, At
  <2>2. db' = [Moved("SUCCEEDED") EXCEPT !.files = Files(exec.kind),
                                         !.logs = IF exec.kind = "slow" THEN @ ELSE 3]
    BY <1>4 DEF Succeed, CommitAndAnnounce
  <2>3. /\ db' \in State /\ db'.files = Files(exec.kind)
        /\ db'.logs = IF exec.kind = "slow" THEN db.logs ELSE 3
    BY <1>0, <2>2, MovedFacts, RowFacts DEF State, RunStatus
  <2>4. db'.logs >= db.logs
    BY <1>0, <2>1, <2>3 DEF Silent
  <2> QED BY <1>0, <1>a, <2>1, <2>3, <2>4, LeaveFacts DEF Silent
<1>5. CASE Fail
  <2>1. Leaves /\ announce' = listsOf(db') /\ db' = Moved("FAILED")
    BY <1>5 DEF Fail, CommitAndAnnounce, Leave, Leaves
  <2>2. db' \in State /\ db'.logs = db.logs /\ db'.files = db.files
    BY <1>0, <2>1, MovedFacts DEF RunStatus
  <2> QED BY <1>0, <1>a, <2>1, <2>2, LeaveFacts DEF Silent
<1>6. CASE Stop
  BY <1>0, <1>a, <1>6, LeaveFacts DEF Stop, Leave, Leaves, Silent
<1>7. CASE Recover
  <2>1. db' \in State /\ db'.logs = db.logs /\ db'.files = db.files /\ UNCHANGED <<exec, announce>>
    BY <1>0, <1>7, MovedFacts DEF Recover, RunStatus
  <2> QED BY <1>0, <1>a, <2>1 DEF Silent
<1> QED BY <1>1, <1>2, <1>3, <1>4, <1>5, <1>6, <1>7 DEF DataStep

\* If the rows grow, announcements, events and answers stay covered.
LEMMA GrowthFresh ==
  ASSUME PageTypes, FreshSound, Silent', db' \in State, Covers(listsOf(db'), listsOf(db)),
         announce' \in {announce, NoLists, listsOf(db')},
         UNCHANGED <<wire, reaction, shown>>, request'["rows"] = request["rows"]
  PROVE  FreshSound'
<1>1. /\ listsOf(db) \in Lists /\ listsOf(db') \in Lists /\ NoLists \in Lists /\ announce \in Lists
      /\ wire \in Seq(Lists) /\ reaction.to \in Lists
  BY RowFacts DEF PageTypes, PageTypeOK, listsOf, Lists, State
<1>2. Covers(listsOf(db'), listsOf(db'))
  BY <1>1 DEF Covers, Lists
<1>3. announce' # NoLists => Covers(listsOf(db'), announce')
  BY <1>1, <1>2, CoversTransitive DEF FreshSound
<1>4. \A i \in 1..Len(wire) : Covers(listsOf(db'), wire[i])
  <2> SUFFICES ASSUME NEW i \in 1..Len(wire) PROVE Covers(listsOf(db'), wire[i])
    OBVIOUS
  <2>1. wire[i] \in Lists
    BY <1>1
  <2> QED BY <1>1, <2>1, CoversTransitive DEF FreshSound
<1>5. "rows" \in reaction.awaiting => Covers(listsOf(db'), reaction.to)
  BY <1>1, CoversTransitive DEF FreshSound
<1>6. FreshAfterEvent'
  BY DEF FreshSound, FreshAfterEvent, Loaded, Blank
<1> QED BY <1>3, <1>4, <1>5, <1>6 DEF FreshSound

\* Every step keeps it.
LEMMA StepFresh == PageIInv /\ FreshSound /\ [Next]_vars => FreshSound'
<1> SUFFICES ASSUME PageIInv, FreshSound, [Next]_vars PROVE FreshSound'
  OBVIOUS
<1>0. /\ PageTypes /\ Silent /\ db \in State /\ announce \in Lists /\ wire \in Seq(Lists)
      /\ reaction \in [to : Lists, awaiting : SUBSET Queries]
      /\ listsOf(db) \in Lists /\ Covers(listsOf(db), listsOf(db))
      /\ "rows" \in Queries /\ "rows" \in Requests
  <2>1. PageTypes /\ Silent /\ listsOf(db) \in Lists
    BY RowFacts DEF PageIInv, FreshSound
  <2> QED BY <2>1 DEF PageTypes, PageTypeOK, Covers, Lists, Queries, Requests
\* The page's steps leave the rows alone.
<1>p. ASSUME UNCHANGED <<db, exec>>,
             announce' # NoLists => Covers(listsOf(db), announce'),
             \A i \in 1..Len(wire') : Covers(listsOf(db), wire'[i]),
             "rows" \in reaction'.awaiting => Covers(listsOf(db), reaction'.to),
             FreshAfterEvent'
      PROVE  FreshSound'
  <2>1. Silent'
    BY <1>0, <1>p DEF Silent
  <2> QED BY <1>p, <2>1 DEF FreshSound
<1>s. /\ announce # NoLists => Covers(listsOf(db), announce)
      /\ \A i \in 1..Len(wire) : Covers(listsOf(db), wire[i])
      /\ "rows" \in reaction.awaiting => Covers(listsOf(db), reaction.to)
      /\ FreshAfterEvent
  BY DEF FreshSound
<1>u. ASSUME UNCHANGED <<reaction, shown>>, request'["rows"] = request["rows"]
      PROVE  FreshAfterEvent'
  BY <1>s, <1>u DEF FreshAfterEvent, Loaded, Blank
<1>1. CASE DataStep
  <2>1. Silent' /\ Covers(listsOf(db'), listsOf(db)) /\ announce' \in {announce, NoLists, listsOf(db')}
    BY <1>0, <1>1, DataFresh
  <2>2. Forward /\ UNCHANGED pageVars
    BY <1>1, DataFacts DEF PageIInv
  <2> QED BY <1>0, <2>1, <2>2, GrowthFresh DEF Forward, pageVars
<1>2. CASE CommandStep
  <2>1. Forward /\ db'.files = db.files /\ \A q \in Queries : request'[q] = request[q]
    BY <1>0, <1>2, CommandFacts
  <2>2. db'.logs = db.logs /\ UNCHANGED <<exec, announce, wire, reaction, shown>>
    <3>1. CASE CancelRun
      <4>1. db' = Moved("CANCELLING") /\ UNCHANGED <<exec, announce, wire, reaction, shown>>
        BY <3>1 DEF CancelRun, Command
      <4> QED BY <1>0, <4>1, MovedFacts DEF RunStatus
    <3>2. CASE UpdateRunMetadata
      <4>1. db' = [db EXCEPT !.version = db.version + 1] /\ UNCHANGED <<exec, announce, wire, reaction, shown>>
        BY <3>2 DEF UpdateRunMetadata, Command
      <4> QED BY <1>0, <4>1 DEF State
    <3> QED BY <1>2, <3>1, <3>2 DEF CommandStep
  <2>3. listsOf(db') = listsOf(db)
    BY <2>1, <2>2 DEF listsOf
  <2>4. Silent'
    BY <1>0, <2>2 DEF Silent
  <2> QED BY <1>0, <2>1, <2>2, <2>3, <2>4, GrowthFresh DEF Forward
<1>3. CASE Publish
  <2>1. UNCHANGED <<db, exec, request, shown, reaction>> /\ announce' = NoLists /\ announce # NoLists
    BY <1>3 DEF Publish
  <2>2. wire' = wire \/ wire' = Append(wire, announce)
    BY <1>3 DEF Publish
  <2>3. \A i \in 1..Len(wire') : Covers(listsOf(db), wire'[i])
    <3>1. CASE wire' = wire
      BY <1>s, <3>1
    <3>2. CASE wire' = Append(wire, announce)
      <4>1. Len(wire') = Len(wire) + 1 /\ \A i \in 1..Len(wire') : wire'[i] = announce \/ (i \in 1..Len(wire) /\ wire'[i] = wire[i])
        BY <1>0, <3>2
      <4> QED BY <1>s, <2>1, <4>1
    <3> QED BY <2>2, <3>1, <3>2
  <2> QED BY <1>p, <1>s, <1>u, <2>1, <2>3
<1>4. CASE Disconnect
  <2>1. UNCHANGED <<db, exec, announce, request, shown, reaction>> /\ wire' = <<>>
    BY <1>4 DEF Disconnect, dataVars
  <2> QED BY <1>p, <1>s, <1>u, <2>1
<1>5. CASE Connect \/ \E s \in Streams : CloseStream(s)
  <2>1. UNCHANGED <<db, exec, announce, wire, request, shown, reaction>>
    BY <1>5 DEF Connect, CloseStream, dataVars
  <2> QED BY <1>p, <1>s, <1>u, <2>1
<1>6. CASE HandleEvent
  <2>1. /\ UNCHANGED <<db, exec, announce, shown>>
        /\ wire # <<>> /\ wire' = Tail(wire) /\ reaction' = [to |-> Head(wire), awaiting |-> Queries]
        /\ request'["rows"] = IF JoinsFirstLoad("rows") THEN request["rows"] ELSE Request("sent", Blank("rows"))
    BY <1>0, <1>6 DEF HandleEvent, dataVars
  <2>2. \A i \in 1..Len(wire') : i + 1 \in 1..Len(wire) /\ wire'[i] = wire[i + 1]
    BY <1>0, <2>1
  <2>3. Head(wire) = wire[1] /\ 1 \in 1..Len(wire)
    BY <1>0, <2>1
  <2>4. FreshAfterEvent'
    <3>1. CASE JoinsFirstLoad("rows")
      BY <2>1, <3>1 DEF JoinsFirstLoad, FreshAfterEvent, Loaded, Blank
    <3>2. CASE ~JoinsFirstLoad("rows")
      BY <2>1, <3>2 DEF FreshAfterEvent, Request
    <3> QED BY <3>1, <3>2
  <2> QED BY <1>p, <1>s, <2>1, <2>2, <2>3, <2>4
<1>7. ASSUME NEW q \in Queries, Poll(q) \/ Read(q) PROVE FreshSound'
  <2>1. /\ UNCHANGED <<db, exec, announce, wire, shown, reaction>>
        /\ request' = [request EXCEPT ![q] = Request("answered", Answer(q))]
    BY <1>7 DEF Poll, Read, dataVars
  <2>2. FreshAfterEvent'
    <3>1. CASE q = "rows"
      <4>1. request'["rows"].answer = listsOf(db)
        BY <1>0, <2>1, <3>1 DEF Request, Answer, PageTypes, TablesOK
      <4> QED BY <1>s, <2>1, <4>1 DEF FreshAfterEvent, Covers
    <3>2. CASE q # "rows"
      BY <1>0, <1>u, <2>1, <3>2 DEF PageTypes, TablesOK
    <3> QED BY <3>1, <3>2
  <2> QED BY <1>p, <1>s, <2>1, <2>2
<1>8. ASSUME NEW q \in Requests, Apply(q) \/ Lose(q) PROVE FreshSound'
  <2>1. /\ UNCHANGED <<db, exec, announce, wire>> /\ Settle(q)
        /\ reaction' = [to |-> IF q = "rows" THEN NoLists ELSE reaction.to,
                        awaiting |-> reaction.awaiting \ {q}]
    BY <1>8 DEF Apply, Lose, Settle, dataVars
  <2>2. "rows" \in reaction'.awaiting =>
          q # "rows" /\ "rows" \in reaction.awaiting /\ reaction'.to = reaction.to
    BY <1>0, <2>1
  <2>3. q # "rows" => request'["rows"] = request["rows"] /\ shown'["rows"] = shown["rows"]
    <3>1. q # "rows" => request'["rows"] = request["rows"]
      BY <1>0, <2>1, SettleFacts
    <3>2. q # "rows" => shown'["rows"] = shown["rows"]
      BY <1>0, <1>8 DEF Apply, Lose, Requests, Queries, PageTypes, TablesOK
    <3> QED BY <3>1, <3>2
  <2>4. FreshAfterEvent'
    BY <1>s, <2>2, <2>3 DEF FreshAfterEvent, Loaded, Blank
  <2> QED BY <1>p, <1>s, <2>1, <2>2, <2>4
<1>9. CASE UNCHANGED vars
  BY <1>p, <1>s, <1>u, <1>9 DEF vars
<1> QED BY <1>1, <1>2, <1>3, <1>4, <1>5, <1>6, <1>7, <1>8, <1>9 DEF Next, DataStep, CommandStep

\* After a live event the page takes over only lists that were read after the
\* commit the event announces.
THEOREM PageFreshness == Spec => []FreshAfterEvent
<1>1. FreshSound => FreshAfterEvent
  BY DEF FreshSound
<1> QED BY <1>1, InitFresh, StepFresh, PageInvariant, PTL DEF Spec

-----------------------------------------------------------------------------
(***************************************************************************)
(* The run of this module is one of the contract's.                        *)
(***************************************************************************)

\* The run as the contract sees it: held from its start to its end.
Ledger == INSTANCE RunLedger
  WITH Runs <- {"run"}, Workers <- {"worker"},
       status <- [r \in {"run"} |-> db.status],
       holder <- [r \in {"run"} |-> IF db.status \in {"RUNNING", "CANCELLING"}
                                    THEN {"worker"} ELSE {}]

\* How the status of a started run may change.
moves(from, to) ==
  \/ from = "RUNNING" /\ to \in {"CANCELLING", "SUCCEEDED", "FAILED"}
  \/ from = "CANCELLING" /\ to = "CANCELLED"

\* Only commits of the executor, recovery and the cancel command move it.
LEMMA StatusMoves ==
  ASSUME PageIInv, [Next]_vars
  PROVE  db'.status = db.status \/ moves(db.status, db'.status)
<1>0. db \in State /\ PageTypes /\ CopySound
  BY DEF PageIInv, PageTypes, PageTypeOK
<1>1. ASSUME db' = db PROVE db'.status = db.status
  BY <1>1
<1>2. CASE StartLog
  BY <1>0, <1>2 DEF StartLog, CommitAndAnnounce, State
<1>3. CASE Checkpoint
  <2>1. CASE db.status = "CANCELLING"
    <3> DEFINE moved == Moved("CANCELLED")
    <3>1. db' = [moved EXCEPT !.logs = @ + 1]
      BY <1>3, <2>1 DEF Checkpoint, CommitAndAnnounce
    <3>2. moved \in State /\ moved.status = "CANCELLED"
      BY <1>0, MovedFacts DEF RunStatus
    <3> HIDE DEF moved
    <3>3. db'.status = "CANCELLED"
      BY <3>1, <3>2 DEF State
    <3> QED BY <2>1, <3>3 DEF moves
  <2>2. CASE db.status # "CANCELLING"
    BY <1>0, <1>3, <2>2 DEF Checkpoint, CommitAndAnnounce, State
  <2> QED BY <2>1, <2>2
<1>4. CASE Succeed
  <2>1. db.status = "RUNNING"
    BY <1>0, <1>4 DEF Succeed, At, Admitted, CopySound, CanTransition, VALID_TRANSITIONS
  <2> DEFINE moved == Moved("SUCCEEDED")
  <2>2. db' = [moved EXCEPT !.files = Files(exec.kind),
                            !.logs = IF exec.kind = "slow" THEN @ ELSE 3]
    BY <1>4 DEF Succeed, CommitAndAnnounce
  <2>3. moved \in State /\ moved.status = "SUCCEEDED"
    BY <1>0, MovedFacts DEF RunStatus
  <2> HIDE DEF moved
  <2>4. db'.status = "SUCCEEDED"
    BY <2>2, <2>3 DEF State
  <2> QED BY <2>1, <2>4 DEF moves
<1>5. CASE Fail
  <2>1. db.status = "RUNNING"
    BY <1>0, <1>5 DEF Fail, At, Admitted, CopySound, CanTransition, VALID_TRANSITIONS, row
  <2>2. db'.status = "FAILED"
    BY <1>0, <1>5, MovedFacts DEF Fail, CommitAndAnnounce, RunStatus
  <2> QED BY <2>1, <2>2 DEF moves
<1>6. CASE Recover
  BY <1>0, <1>6, MovedFacts DEF Recover, RunStatus, moves
<1>7. CASE CancelRun
  <2>1. db' = Moved("CANCELLING") /\ db.status = "RUNNING"
    BY <1>7 DEF CancelRun, Command
  <2> QED BY <1>0, <2>1, MovedFacts DEF RunStatus, moves
<1>8. CASE UpdateRunMetadata
  BY <1>0, <1>8 DEF UpdateRunMetadata, Command, State
<1> QED BY <1>1, <1>2, <1>3, <1>4, <1>5, <1>6, <1>7, <1>8
        DEF Next, vars, dataVars, Put, Stop, Publish, Connect, Disconnect, HandleEvent, CloseStream,
            Poll, Read, Apply, Lose

\* Every step of the executor, of recovery and of a browser's commands is a
\* step of the contract that RunControl implements: what the page's own
\* abstraction of the executor does to the run, the control plane allows.
THEOREM PageFollowsLedger == Spec => [][Ledger!LedgerNext]_(Ledger!lvars)
<1>1. ASSUME PageIInv, [Next]_vars PROVE [Ledger!LedgerNext]_(Ledger!lvars)
  <2>1. CASE db'.status = db.status
    BY <2>1 DEF Ledger!lvars
  <2>2. CASE moves(db.status, db'.status)
    <3>1. Ledger!RequestCancel("run") \/ Ledger!Finish("run")
      BY <2>2 DEF moves, Ledger!RequestCancel, Ledger!Finish, Ledger!Moves
    <3> QED BY <3>1 DEF Ledger!LedgerNext, Ledger!RunStep
  <2> QED BY <1>1, <2>1, <2>2, StatusMoves
<1> QED BY <1>1, PageInvariant, PTL DEF Spec
=============================================================================
