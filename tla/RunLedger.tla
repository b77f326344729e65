------------------------------ MODULE RunLedger ------------------------------
(***************************************************************************)
(* What the control plane promises its users about a run, without queues,  *)
(* events, versions, sessions or heartbeats: the run's status, and the     *)
(* worker that holds it.                                                   *)
(*                                                                         *)
(* A run is placed on a worker, may be taken back or moved as long as it   *)
(* has not been started, is started at most once and only by being held,   *)
(* and gives up its worker in the same step in which it finishes.  One     *)
(* scheduler transaction can move several runs, so a step moves any set of *)
(* them.                                                                   *)
(***************************************************************************)
EXTENDS RunStates

CONSTANTS Runs, Workers

VARIABLES status, holder

lvars == <<status, holder>>

LedgerType ==
  /\ status \in [Runs -> RowStatus]
  /\ holder \in [Runs -> SUBSET Workers]

LedgerInit ==
  /\ status = [r \in Runs |-> "NONE"]
  /\ holder = [r \in Runs |-> {}]

\* The status and the holders of r go from one value to another.
Moves(r, from, to) == status[r] = from /\ status'[r] = to

Submit(r)        == Moves(r, "NONE", "QUEUED") /\ holder'[r] = holder[r]
Place(r, w)      == Moves(r, "QUEUED", "SCHEDULING") /\ holder[r] = {} /\ holder'[r] = {w}
TakeBack(r)      == Moves(r, "SCHEDULING", "QUEUED") /\ holder'[r] = {}
MoveTo(r, w)     == Moves(r, "SCHEDULING", "SCHEDULING") /\ holder'[r] = {w}
Start(r)         == Moves(r, "SCHEDULING", "RUNNING")
                    /\ holder[r] # {} /\ holder'[r] = holder[r]
RequestCancel(r) == Moves(r, "RUNNING", "CANCELLING") /\ holder'[r] = holder[r]
Finish(r)        == /\ \/ \E outcome \in {"SUCCEEDED", "FAILED"} : Moves(r, "RUNNING", outcome)
                       \/ Moves(r, "CANCELLING", "CANCELLED")
                    /\ holder'[r] = {}

RunStep(r) ==
  \/ Submit(r) \/ TakeBack(r) \/ Start(r) \/ RequestCancel(r) \/ Finish(r)
  \/ \E w \in Workers : Place(r, w) \/ MoveTo(r, w)

Keeps(r) == status'[r] = status[r] /\ holder'[r] = holder[r]

LedgerNext == \A r \in Runs : RunStep(r) \/ Keeps(r)

LedgerSpec == LedgerInit /\ [][LedgerNext]_lvars
=============================================================================
