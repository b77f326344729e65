------------------------------- MODULE RunPage -------------------------------
(***************************************************************************)
(* One run as a browser sees it: the executor's telemetry and outcome, the *)
(* live events over Redis and server-sent events, and the run page with    *)
(* its polling queries, its stream and its two commands.                   *)
(*                                                                         *)
(* db is the committed state of the run's rows; what a session has read,   *)
(* what an answer carries and what the page shows are earlier values of    *)
(* it.  A live event carries the state it announces, although the page     *)
(* only uses an event as a reason to ask again.                            *)
(*                                                                         *)
(* The model starts when the run has become RUNNING.  Whether recovery     *)
(* takes the run from its executor is a matter of clocks and left open     *)
(* here; RunControl models it.                                             *)
(***************************************************************************)
EXTENDS RunStates, Integers, Sequences

CONSTANTS
  Steps,       \* checkpoints of the slow template (total_steps)
  MaxVersion,  \* bound: metadata edits stop at this row version
  MaxStreams,  \* bound: times the page opens its stream
  MaxWire      \* bound: live events on the way to the page

ASSUME PageAssumption ==
  Steps \in Nat \ {0} /\ MaxVersion \in Nat /\ MaxStreams \in Nat /\ MaxWire \in Nat

VARIABLES
  db,         \* the run's rows, as committed
  content,    \* names of the artifacts whose content is in the store
  exec,       \* the executor
  announce,   \* the commit it still has to publish the live events of
  stream,     \* the stream the page reads, 0 if none
  server,     \* the API's side of each stream
  wire,       \* live events on the way to the page
  request,    \* what the page has asked for
  shown,      \* what each query shows
  reaction    \* to which live event, and the answers the page waits for

vars == <<db, content, exec, announce, stream, server, wire, request, shown, reaction>>

\* GET /runs/{id} on its own; logs, metrics, events and artifacts are lists
\* that the page polls alike, "rows" stands for each of them.
Queries  == {"run", "rows"}
Requests == Queries \cup {"command"}
Streams  == 1..MaxStreams

\* The artifacts an execution produces, in the order of their uploads.
Generated(kind) ==
  IF kind = "slow" THEN <<"progress.json">>
  ELSE <<"model.joblib", "metrics.json", "metrics-chart.svg">>
Files(kind) == {Generated(kind)[i] : i \in DOMAIN Generated(kind)}
AllFiles == Files("slow") \cup Files("classification")

\* version counts the changes of the run row.  logs is the highest
\* sequence_number of a RunLog; metrics are inserted along with logs.
Lists == [logs : Nat, files : SUBSET AllFiles]
State == [status : RunStatus, version : Nat, logs : Nat, files : SUBSET AllFiles]

listsOf(state) == [logs |-> state.logs, files |-> state.files]

\* get_run; list_metrics, list_logs, list_artifacts.
Answer(q) == IF q = "rows" THEN listsOf(db) ELSE db.status

\* No answer yet, and no event.
NoLists == [logs |-> 0, files |-> AllFiles]
Blank(q) == IF q = "rows" THEN NoLists ELSE "NONE"
Loaded(q) == shown[q] # Blank(q)

Moved(target) == [db EXCEPT !.status = target, !.version = @ + 1]

\* The run row in the executor's session.
Copy == [status : RunStatus, version : Nat]
row == [status |-> db.status, version |-> db.version]
NoCopy == [status |-> "DRAFT", version |-> 0]

Request(phase, answer) == [phase |-> phase, answer |-> answer]

PageTypeOK ==
  /\ db \in State
  /\ content \subseteq AllFiles
  /\ exec \in [kind : {"slow", "classification"},
               at : {"step", "end", "gone"}, copy : Copy]
  /\ announce \in Lists
  /\ stream \in 0..MaxStreams
  /\ server \in [Streams -> {"unused", "subscribed", "closed"}]
  /\ wire \in Seq(Lists)
  /\ \A q \in Requests : request[q] \in
       [phase : {"none", "sent", "answered"},
        answer : IF q = "rows" THEN Lists ELSE RowStatus]
  /\ shown["run"] \in RowStatus /\ shown["rows"] \in Lists
  /\ reaction \in [to : Lists, awaiting : SUBSET Queries]
  \* The reader waits only for requests under way.
  /\ \A q \in reaction.awaiting : request[q].phase # "none"

Init ==
  /\ db = [status |-> "RUNNING", version |-> 0, logs |-> 0, files |-> {}]
  /\ content = {}
  /\ exec \in {[kind |-> k, at |-> IF k = "slow" THEN "step" ELSE "end",
                copy |-> row] : k \in {"slow", "classification"}}
  /\ announce = listsOf(db)
  /\ stream = 0
  /\ server = [s \in Streams |-> "unused"]
  /\ wire = <<>>
  /\ request = [q \in Requests |-> Request("none", Blank(q))]
  /\ shown = [q \in Queries |-> Blank(q)]
  /\ reaction = [to |-> NoLists, awaiting |-> {}]

pageVars == <<stream, server, wire, request, shown, reaction>>
dataVars == <<db, content, exec, announce>>

-----------------------------------------------------------------------------
(***************************************************************************)
(* The executor.  It publishes what it has committed before it goes on;    *)
(* the page reacts alike to the log, metric and status events of a commit, *)
(* so one event stands for all of them.                                    *)
(***************************************************************************)

At(place) == exec.at = place /\ announce = NoLists

\* Nothing of the session outlives its end.
Leave == exec' = [exec EXCEPT !.at = "gone", !.copy = NoCopy]

\* A commit of the executor, with its live events.
CommitAndAnnounce(state) == db' = state /\ announce' = listsOf(state)

\* The start log, without reading the row.
StartLog ==
  /\ At("step") /\ db.logs = 0
  /\ CommitAndAnnounce([db EXCEPT !.logs = 1])
  /\ UNCHANGED <<content, exec, pageVars>>

\* A checkpoint reads the row.  The log and the metric of a step are inserted
\* whatever the status is, unless that asks for the cancellation.
Checkpoint ==
  /\ At("step") /\ db.logs > 0
  /\ IF db.status = "CANCELLING"
     THEN CommitAndAnnounce([Moved("CANCELLED") EXCEPT !.logs = @ + 1]) /\ Leave
     ELSE /\ CommitAndAnnounce([db EXCEPT !.logs = @ + 1])
          /\ exec' = [exec EXCEPT !.at = IF db.logs = Steps THEN "end" ELSE "step",
                                  !.copy = row]
  /\ UNCHANGED <<content, pageVars>>

\* artifact_store.put of one file after the other.
Put ==
  /\ At("end")
  /\ \E i \in DOMAIN Generated(exec.kind) :
       LET file(j) == Generated(exec.kind)[j] IN
       /\ file(i) \notin content /\ \A j \in 1..(i - 1) : file(j) \in content
       /\ content' = content \cup {file(i)}
  /\ UNCHANGED <<db, exec, announce, pageVars>>

\* Mutant: the outcome is checked against the copy, and written over whatever
\* the row has become.
AdmittedByCopy(copy, target) == CanTransition(copy.status, target)

\* transition_run on the session's copy, and the version check of the UPDATE.
Admitted(copy, target) ==
  CanTransition(copy.status, target) /\ copy.version = db.version

\* Mutant: the rows are committed before all contents are stored.
StoredSomething == content # {}

StoredAll == Files(exec.kind) \subseteq content

\* With SUCCEEDED go the artifact rows and, for the classification template,
\* its logs and metrics.
Succeed ==
  /\ At("end") /\ StoredAll /\ Admitted(exec.copy, "SUCCEEDED")
  /\ CommitAndAnnounce(
       [Moved("SUCCEEDED") EXCEPT !.files = Files(exec.kind),
                                  !.logs = IF exec.kind = "slow" THEN @ ELSE 3])
  /\ Leave
  /\ UNCHANGED <<content, pageVars>>

\* fail_intentionally, ArtifactStorageError, an exception of the template or
\* a refused success.  Only the handler of the classification template rolls
\* back and reads the row again.
Fail ==
  /\ At("end")
  /\ Admitted(IF exec.kind = "slow" THEN exec.copy ELSE row, "FAILED")
  /\ CommitAndAnnounce(Moved("FAILED"))
  /\ Leave
  /\ UNCHANGED <<content, pageVars>>

\* The process dies, or a refused commit raises: the execution ends as it is.
Stop ==
  /\ exec.at # "gone" \/ announce # NoLists
  /\ Leave
  /\ announce' = NoLists
  /\ UNCHANGED <<db, content, pageVars>>

\* recover_expired_allocations, which publishes no live event.
Recover ==
  /\ db.status \in {"RUNNING", "CANCELLING"}
  /\ db' = Moved(IF db.status = "RUNNING" THEN "FAILED" ELSE "CANCELLED")
  /\ UNCHANGED <<content, exec, announce, pageVars>>

-----------------------------------------------------------------------------
(***************************************************************************)
(* Live events.  Redis delivers to those that are subscribed and forgets.  *)
(***************************************************************************)

\* RedisLiveEventBus.publish, inside the worker's wrapper that swallows its
\* exceptions: delivered, or lost.
Publish ==
  /\ announce # NoLists
  /\ announce' = NoLists
  /\ \/ stream # 0 /\ Len(wire) < MaxWire /\ wire' = Append(wire, announce)
     \/ UNCHANGED wire
  /\ UNCHANGED <<db, content, exec, stream, server, request, shown, reaction>>

\* connect() and the generator's subscription.  The response begins a little
\* before the subscription; what is published in between is lost.
Connect ==
  /\ stream = 0
  /\ \E s \in Streams :
       /\ server[s] = "unused" /\ \A t \in 1..(s - 1) : server[t] # "unused"
       /\ stream' = s
       /\ server' = [server EXCEPT ![s] = "subscribed"]
  /\ UNCHANGED <<dataVars, wire, request, shown, reaction>>

Disconnect ==
  /\ stream # 0
  /\ stream' = 0
  /\ wire' = <<>>
  /\ UNCHANGED <<dataVars, server, request, shown, reaction>>

\* request.is_disconnected() is looked at when something is to be sent, an
\* event or the heartbeat of get_message's timeout; a heartbeat for a page
\* that still reads has no effect there.
CloseStream(s) ==
  /\ server[s] = "subscribed" /\ s # stream
  /\ server' = [server EXCEPT ![s] = "closed"]
  /\ UNCHANGED <<dataVars, stream, wire, request, shown, reaction>>

-----------------------------------------------------------------------------
(***************************************************************************)
(* The page.                                                               *)
(***************************************************************************)

ShowsOutcome == shown["run"] \in Outcomes

\* Mutant: the lists stop polling when the run is finished, not the run.
PollsListsUntilDone(q) == q = "rows" => ~ShowsOutcome

\* refetchInterval.
Polls(q) == q = "run" => ~ShowsOutcome

\* A timer fires, and the API reads and answers.  A poll that fails, even
\* after the retry, changes nothing and is not an action.
Poll(q) ==
  /\ request[q].phase = "none" /\ Polls(q)
  /\ request' = [request EXCEPT ![q] = Request("answered", Answer(q))]
  /\ UNCHANGED <<dataVars, stream, server, wire, shown, reaction>>

\* The API reads and answers a refetch.
Read(q) ==
  /\ request[q].phase = "sent"
  /\ request' = [request EXCEPT ![q] = Request("answered", Answer(q))]
  /\ UNCHANGED <<dataVars, stream, server, wire, shown, reaction>>

\* Mutant: a request that ends is still waited for.
SettleUnnoticed(q) ==
  /\ request' = [request EXCEPT ![q] = Request("none", Blank(q))]
  /\ UNCHANGED reaction

\* The request is over, and no longer waited for.
Settle(q) ==
  /\ request' = [request EXCEPT ![q] = Request("none", Blank(q))]
  /\ reaction' = [to |-> IF q = "rows" THEN NoLists ELSE reaction.to,
                  awaiting |-> reaction.awaiting \ {q}]

\* The answer of a query is shown; that of a command replaces the run shown
\* (setQueryData), however old it is.
Apply(q) ==
  /\ request[q].phase = "answered"
  /\ shown' = [shown EXCEPT ![IF q = "command" THEN "run" ELSE q] = request[q].answer]
  /\ Settle(q)
  /\ UNCHANGED <<dataVars, stream, server, wire>>

\* A refetch fails, or the answer of a command is lost.
Lose(q) ==
  /\ request[q].phase = IF q = "command" THEN "answered" ELSE "sent"
  /\ Settle(q)
  /\ UNCHANGED <<dataVars, stream, server, wire, shown>>

\* Mutant: an invalidation is content with the request that is under way.
Joins(q) == request[q].phase # "none"

\* invalidateQueries abandons the request under way and asks again, except
\* that the first load of a query is joined.
JoinsFirstLoad(q) == request[q].phase # "none" /\ ~Loaded(q)

\* An event other than a heartbeat: refetch everything and wait for it before
\* reading on.  Event ids are fresh, so none is met twice.
HandleEvent ==
  /\ wire # <<>> /\ reaction.awaiting = {}
  /\ wire' = Tail(wire)
  /\ reaction' = [to |-> Head(wire), awaiting |-> Queries]
  /\ request' = [q \in Requests |->
                   IF q = "command" \/ JoinsFirstLoad(q) THEN request[q]
                   ELSE Request("sent", Blank(q))]
  /\ UNCHANGED <<dataVars, stream, server, shown>>

\* cancel_run and update_run_metadata with their answers, one at a time; a
\* refusal is an error that changes nothing on the page.
Command(state) ==
  /\ request["command"].phase = "none"
  /\ db' = state
  /\ request' = [request EXCEPT !["command"] = Request("answered", state.status)]
  /\ UNCHANGED <<content, exec, announce, stream, server, wire, shown, reaction>>

CancelRun ==
  /\ shown["run"] = "RUNNING" /\ db.status = "RUNNING"
  /\ Command(Moved("CANCELLING"))

UpdateRunMetadata ==
  /\ Loaded("run")
  /\ db.version < MaxVersion
  /\ Command([db EXCEPT !.version = @ + 1])

-----------------------------------------------------------------------------
Next ==
  \/ StartLog \/ Checkpoint \/ Put \/ Succeed \/ Fail \/ Stop
  \/ Recover \/ Publish
  \/ Connect \/ Disconnect \/ HandleEvent
  \/ \E s \in Streams : CloseStream(s)
  \/ \E q \in Queries : Poll(q) \/ Read(q)
  \/ \E q \in Requests : Apply(q) \/ Lose(q)
  \/ CancelRun \/ UpdateRunMetadata

Spec == Init /\ [][Next]_vars

\* The page's timers fire, and not all polls fail.  Nothing is assumed of the
\* executor, of the delivery of live events or of the API's side of a stream.
FairSpec ==
  /\ Spec
  /\ \A q \in Queries : WF_vars(Poll(q)) /\ WF_vars(Read(q)) /\ WF_vars(Apply(q))

-----------------------------------------------------------------------------
\* REST is the recovery path: although every live event may be lost, the
\* stream may never come up and late answers overwrite newer ones, the page
\* ends up showing the run's last status and all of its rows.
PageCatchesUp ==
  <>[](shown["run"] = db.status /\ shown["rows"] = listsOf(db))

\* The page stops polling the run when it shows an outcome.  That is safe
\* because what it shows is then the run's status, for good, whoever decided
\* it: the executor, recovery, or an executor that recovery has overruled.
ShownOutcomeIsTrue == ShowsOutcome => shown["run"] = db.status

\* After a live event the page never takes over an answer that was read
\* before the commit the event announces (except for a query's first load).
\* This is about the lists; the status shown may be older, a command's answer.
FreshAfterEvent ==
  LET q == "rows" IN
  q \in reaction.awaiting /\ request[q].phase = "answered" /\ Loaded(q) =>
    /\ request[q].answer.logs >= reaction.to.logs
    /\ reaction.to.files \subseteq request[q].answer.files

\* download_artifact: what it answers for one of the run's artifacts.
Download(f) ==
  IF f \notin db.files THEN "artifact_not_found"
  ELSE IF f \notin content THEN "artifact_content_missing" ELSE "content"

\* An artifact that the page lists can be downloaded, also when uploads were
\* interrupted or their executor was overruled.
ListedIsDownloadable ==
  Loaded("rows") => \A f \in shown["rows"].files : Download(f) = "content"

\* The reader of the stream does not hang in one event: every refetch that it
\* waits for ends, answered, failed or joined to a first load, so that it
\* comes back to the stream for the events behind it.
ReaderComesBack == []<>(reaction.awaiting = {})
=============================================================================
