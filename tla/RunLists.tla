------------------------------ MODULE RunLists ------------------------------
(***************************************************************************)
(* Reading lists of runs: a user goes through the pages of list_runs while *)
(* runs are submitted and change their status, and compares runs.          *)
(*                                                                         *)
(* list_runs sends two statements, the count and the page; under READ      *)
(* COMMITTED each sees what is committed when it runs.  list_projects and  *)
(* list_experiments are built in the same way.  Run rows are never         *)
(* deleted, but with a status filter a run enters or leaves the list.      *)
(***************************************************************************)
EXTENDS Integers, Sequences, SequencesExt, FiniteSets

CONSTANTS
  Runs,       \* the run rows that may be submitted: numbers, as ids are ordered
  Created,    \* runs.created_at, the sort column; several rows may agree in it
  Metrics,    \* the metric rows of each run: name, step and value
  PageSize,   \* page_size
  MaxCompared \* most runs of a comparison (5 in RunCompareRequest)

ASSUME ListsAssumption ==
  /\ Runs \subseteq Nat /\ IsFiniteSet(Runs)
  /\ Created \in [Runs -> Nat]
  /\ \A r \in Runs : /\ Metrics[r] \subseteq [name : STRING, step : Nat, value : Int]
                     /\ IsFiniteSet(Metrics[r])
  /\ PageSize \in Nat \ {0} /\ MaxCompared \in Nat

VARIABLES
  status,   \* runs.status, as far as lists and comparisons tell it apart
  walk,     \* the user's way through the pages
  answer    \* of the comparison just made, if any

vars == <<status, walk, answer>>

Filters == {"ALL", "RUNNING", "SUCCEEDED"}

\* The WHERE clause.
Matches(r, filter) == status[r] # "NONE" /\ filter \in {"ALL", status[r]}

Listed(filter) == {r \in Runs : Matches(r, filter)}

\* still: rows in the list since the walk began.  calm: the list has not
\* changed since.  late: rows that entered between the last count and its page.
NoWalk == [filter |-> "ALL", page |-> 1, phase |-> "idle", total |-> 0,
           got |-> <<>>, still |-> {}, calm |-> TRUE, left |-> FALSE, late |-> 0]

ListsTypeOK ==
  /\ status \in [Runs -> {"NONE", "RUNNING", "SUCCEEDED"}]
  /\ walk \in [filter : Filters, page : Nat \ {0},
               phase : {"idle", "asking", "counted", "done"},
               total : 0..Cardinality(Runs), got : Seq(Runs), still : SUBSET Runs,
               calm : BOOLEAN, left : BOOLEAN, late : 0..Cardinality(Runs)]
  \* No more than the pages asked for so far.
  /\ Len(walk.got) <= walk.page * PageSize

NoAnswer == [ids |-> <<>>, error |-> "none", best |-> {}]

Init ==
  /\ status \in [Runs -> {"NONE", "RUNNING"}]
  /\ walk = NoWalk
  /\ answer = NoAnswer

-----------------------------------------------------------------------------
(***************************************************************************)
(* The runs.  What a change does to the list being walked is noted.        *)
(***************************************************************************)

Change(r, new) ==
  LET f      == walk.filter
      enters == f \in {"ALL", new} /\ ~Matches(r, f)
      leaves == Matches(r, f) /\ f \notin {"ALL", new}
      walking == walk.phase \in {"asking", "counted"} IN
  /\ status' = [status EXCEPT ![r] = new]
  /\ walk' = IF walking
             THEN [walk EXCEPT
                     !.calm = @ /\ ~enters /\ ~leaves,
                     !.left = @ \/ leaves,
                     !.still = IF leaves THEN @ \ {r} ELSE @,
                     !.late = IF enters /\ walk.phase = "counted" THEN @ + 1 ELSE @]
             ELSE walk
  /\ answer' = NoAnswer

SubmitRun(r) == status[r] = "NONE" /\ Change(r, "RUNNING")
FinishRun(r) == status[r] = "RUNNING" /\ Change(r, "SUCCEEDED")

-----------------------------------------------------------------------------
(***************************************************************************)
(* list_runs, page by page.                                                *)
(***************************************************************************)

\* Mutant: ORDER BY the sort column alone.
PrecedesByColumn(a, b) == Created[a] > Created[b]

\* ORDER BY created_at DESC, id.
Precedes(a, b) == Created[a] > Created[b] \/ (Created[a] = Created[b] /\ a < b)

\* The orders in which the database may return a set of rows.
Orders(rows) ==
  {s \in SetToSeqs(rows) : \A i, j \in 1..Len(s) : i < j => ~Precedes(s[j], s[i])}

\* Mutant: page numbers are taken to start at 0.
OffsetFromZero(page) == page * PageSize

Offset(page) == (page - 1) * PageSize

\* Mutant: without the LIMIT.
PageUnlimited(s, page) == SubSeq(s, Offset(page) + 1, Len(s))

\* OFFSET and LIMIT.
Page(s, page) == SubSeq(s, Offset(page) + 1, IF Len(s) < Offset(page) + PageSize
                                             THEN Len(s) ELSE Offset(page) + PageSize)

\* math.ceil(total / page_size) if total else 0.
Pages(total) == (total + PageSize - 1) \div PageSize

\* The user opens a list.
OpenList(filter) ==
  /\ walk.phase \in {"idle", "done"}
  /\ walk' = [NoWalk EXCEPT !.filter = filter, !.phase = "asking", !.still = Listed(filter)]
  /\ answer' = NoAnswer
  /\ UNCHANGED status

\* SELECT count(...).
CountRows ==
  /\ walk.phase = "asking"
  /\ walk' = [walk EXCEPT !.phase = "counted", !.total = Cardinality(Listed(walk.filter)),
                          !.late = 0]
  /\ answer' = NoAnswer
  /\ UNCHANGED status

\* The page; "Next" is enabled while page < pages.
FetchPage ==
  /\ walk.phase = "counted"
  /\ \E s \in Orders(Listed(walk.filter)) :
       walk' = [walk EXCEPT !.got = @ \o Page(s, walk.page),
                            !.phase = IF walk.page < Pages(walk.total) THEN "asking" ELSE "done",
                            !.page = IF walk.page < Pages(walk.total) THEN @ + 1 ELSE @]
  /\ answer' = NoAnswer
  /\ UNCHANGED status

-----------------------------------------------------------------------------
(***************************************************************************)
(* compare_runs.                                                           *)
(***************************************************************************)

\* The dictionary filled in the order of the steps: the last value stays.
FinalValue(r, name) ==
  LET rows == {m \in Metrics[r] : m.name = name} IN
  (CHOOSE m \in rows : \A n \in rows : n.step <= m.step).value

HasMetric(r, name) == \E m \in Metrics[r] : m.name = name

\* Mutant: among equals the last one wins.
BetterOrEqual(r, best, name) == FinalValue(r, name) >= FinalValue(best, name)

\* max() keeps the first of equal items.
Better(r, best, name) == FinalValue(r, name) > FinalValue(best, name)

NoRun == -1

\* max over the items that have the metric, in the order of the request.
Best(ids, name) ==
  FoldLeft(LAMBDA best, r :
             IF HasMetric(r, name) /\ (best = NoRun \/ Better(r, best, name)) THEN r ELSE best,
           NoRun, ids)

Names(ids) == {m.name : m \in UNION {Metrics[ids[i]] : i \in 1..Len(ids)}}

CompareError(ids) ==
  IF Cardinality(ToSet(ids)) # Len(ids) THEN "duplicate_run_ids"
  ELSE IF \E r \in ToSet(ids) : status[r] = "NONE" THEN "run_not_found"
  ELSE IF \E r \in ToSet(ids) : status[r] # "SUCCEEDED" THEN "runs_not_comparable"
  ELSE "none"

CompareRuns(ids) ==
  /\ walk.phase = "done" /\ answer = NoAnswer
  /\ answer' = [ids |-> ids, error |-> CompareError(ids),
                best |-> IF CompareError(ids) = "none"
                         THEN {[name |-> n, run |-> Best(ids, n)] : n \in Names(ids)}
                         ELSE {}]
  /\ UNCHANGED <<status, walk>>

\* RunCompareRequest asks for at least two ids.
Selections == UNION {[1..n -> Runs] : n \in 2..MaxCompared}

Next ==
  \/ \E r \in Runs : SubmitRun(r) \/ FinishRun(r)
  \/ \E f \in Filters : OpenList(f)
  \/ CountRows \/ FetchPage
  \/ \E ids \in Selections : CompareRuns(ids)

Spec == Init /\ [][Next]_vars

-----------------------------------------------------------------------------
\* Going through the pages of a list that does not change meanwhile shows
\* every row once and in order, ties in the sort column included.
CalmWalkIsExact ==
  walk.phase = "done" /\ walk.calm => walk.got \in Orders(walk.still)

\* Runs that enter the list during the walk never push another one out of
\* sight, unless they enter between the count and the items of the last page:
\* then at most that many are missed.
EnteringHidesNothing ==
  walk.phase = "done" /\ ~walk.left =>
    Cardinality(walk.still \ ToSet(walk.got)) <= walk.late

\* The best run of a metric is the first, in the order of the request, whose
\* final value no other run of the comparison exceeds.
BestIsFirstMaximum ==
  \A b \in answer.best :
    LET pos  == {i \in 1..Len(answer.ids) : HasMetric(answer.ids[i], b.name)}
        v(i) == FinalValue(answer.ids[i], b.name) IN
    \E i \in pos : /\ answer.ids[i] = b.run
                   /\ \A j \in pos : v(j) <= v(i) /\ (j < i => v(j) < v(i))
=============================================================================
