------------------------------ MODULE RunStates ------------------------------
(***************************************************************************)
(* The statuses of a run and the table of legal transitions                *)
(* (services/api/runscope_api/state_machine.py, models.py).                *)
(*                                                                         *)
(* "NONE" is not a status of the code: it stands for a run row that has    *)
(* not been inserted yet.  DRAFT is never visible outside the transaction  *)
(* that inserts the row, because create_queued_run and retry_run move the  *)
(* row on to QUEUED before they commit.                                    *)
(***************************************************************************)

RunStatus == {"DRAFT", "QUEUED", "SCHEDULING", "RUNNING", "SUCCEEDED",
              "FAILED", "CANCELLING", "CANCELLED", "RETRYING"}

RowStatus == RunStatus \cup {"NONE"}

\* The dict of the code as a relation: <<previous, target>>.
VALID_TRANSITIONS ==
  { <<"DRAFT", "QUEUED">>,
    <<"QUEUED", "SCHEDULING">>,
    <<"SCHEDULING", "RUNNING">>, <<"SCHEDULING", "QUEUED">>,
    <<"RUNNING", "SUCCEEDED">>, <<"RUNNING", "FAILED">>, <<"RUNNING", "CANCELLING">>,
    <<"CANCELLING", "CANCELLED">>,
    <<"FAILED", "RETRYING">>,
    <<"RETRYING", "QUEUED">> }

\* validate_transition raises AppError unless this holds.
CanTransition(previous, target) == <<previous, target>> \in VALID_TRANSITIONS

\* The statuses in which the code expects the run to hold an allocation.
LeasedStatuses == {"SCHEDULING", "RUNNING", "CANCELLING"}

\* The statuses an execution ends with.
Outcomes == {"SUCCEEDED", "FAILED", "CANCELLED"}

\* The statuses a run can have once an executor has started it.
StartedStatuses == {"RUNNING", "CANCELLING", "SUCCEEDED", "FAILED", "CANCELLED"}
=============================================================================
