---------------------------- MODULE CatalogProofs ----------------------------
(***************************************************************************)
(* Proofs about Catalog, for any numbers of projects, experiments, names   *)
(* and concurrent requests.                                                *)
(***************************************************************************)
EXTENDS Catalog, TLAPS

\* The tables and the requests keep their types.
LEMMA CatalogTypeStep == CatalogTypeOK /\ [Next]_vars => CatalogTypeOK'
<1> SUFFICES ASSUME CatalogTypeOK, [Next]_vars PROVE CatalogTypeOK'
  OBVIOUS
<1> USE CatalogAssumption DEF CatalogTypeOK, rows
<1>1. ASSUME NEW q \in Requests, Fail(q) PROVE CatalogTypeOK'
  BY <1>1 DEF Fail, Answer
<1>2. ASSUME NEW q \in Requests, NEW ph \in {"found", "checked"},
             req[q] # None, Advance(q, ph)
      PROVE  CatalogTypeOK'
  BY <1>2 DEF Advance, Request
<1>3. ASSUME NEW p \in Projects, CreateProject(p) PROVE CatalogTypeOK'
  BY <1>3 DEF CreateProject
<1>4. ASSUME NEW e \in Experiments, SubmitRun(e) PROVE CatalogTypeOK'
  BY <1>4 DEF SubmitRun, Rows
<1>5. ASSUME NEW q \in Requests, Enter(q) PROVE CatalogTypeOK'
  BY <1>5 DEF Enter, Submit, Request, Rows
<1>6. ASSUME NEW q \in Requests, GetProject(q) PROVE CatalogTypeOK'
  BY <1>6, <1>1, <1>2 DEF GetProject, In
<1>7. ASSUME NEW q \in Requests, GetExperiment(q) PROVE CatalogTypeOK'
  <2>1. CASE Fail(q) BY <2>1, <1>1
  <2>2. CASE ~Fail(q)
    <3>1. req[q] \in Request /\ req[q].exp \in Experiments
      BY <1>7, <2>2 DEF GetExperiment, In, Request, Rows
    <3> DEFINE found == [req[q] EXCEPT !.phase = "found", !.proj = home[req[q].exp],
                                       !.old = name[req[q].exp]]
    <3>2. found \in Request /\ found.op = req[q].op /\ found.exp = req[q].exp
            /\ found.new = req[q].new
      BY <3>1 DEF Request
    <3>3. req' = [req EXCEPT ![q] = found] /\ UNCHANGED rows
      BY <1>7, <2>2, <3>1 DEF GetExperiment, Request
    <3> HIDE DEF found
    <3>4. QED
      BY <1>7, <3>2, <3>3 DEF GetExperiment, In
  <2>3. QED BY <2>1, <2>2
<1>8. ASSUME NEW q \in Requests, EnsureUniqueName(q) PROVE CatalogTypeOK'
  BY <1>8, <1>1, <1>2 DEF EnsureUniqueName, In
<1>9. ASSUME NEW q \in Requests, CreateExperiment(q) PROVE CatalogTypeOK'
  BY <1>9, <1>1 DEF CreateExperiment, Answer, In, Request
<1>10. ASSUME NEW q \in Requests, UpdateExperiment(q) PROVE CatalogTypeOK'
  BY <1>10, <1>1 DEF UpdateExperiment, Answer, In, Request, RenameFinds, Rows
<1>11. ASSUME NEW q \in Requests, CheckProjectEmpty(q) PROVE CatalogTypeOK'
  BY <1>11, <1>1, <1>2 DEF CheckProjectEmpty, In
<1>12. ASSUME NEW q \in Requests, DeleteProject(q) PROVE CatalogTypeOK'
  BY <1>12, <1>1 DEF DeleteProject, Answer
<1>13. ASSUME NEW q \in Requests, DeleteExperiment(q) PROVE CatalogTypeOK'
  BY <1>13, <1>1 DEF DeleteExperiment, Answer
<1>14. CASE UNCHANGED vars
  BY <1>14 DEF vars
<1>15. QED
  BY <1>3, <1>4, <1>5, <1>6, <1>7, <1>8, <1>9, <1>10, <1>11, <1>12, <1>13, <1>14
  DEF Next

\* The rows change only by the operations below, and each of them meets the
\* foreign keys when it writes.
LEMMA RootedStep == CatalogTypeOK /\ Rooted /\ [Next]_vars => Rooted'
<1> SUFFICES ASSUME CatalogTypeOK, Rooted, [Next]_vars PROVE Rooted'
  OBVIOUS
<1> USE CatalogAssumption DEF CatalogTypeOK, Rooted, Rows
<1>1. ASSUME UNCHANGED rows PROVE Rooted'
  BY <1>1 DEF rows
<1>2. ASSUME NEW p \in Projects, CreateProject(p) PROVE Rooted'
  BY <1>2 DEF CreateProject
<1>3. ASSUME NEW e \in Experiments, SubmitRun(e) PROVE Rooted'
  BY <1>3 DEF SubmitRun
<1>4. ASSUME NEW q \in Requests,
             \/ Enter(q) \/ GetProject(q) \/ GetExperiment(q)
             \/ EnsureUniqueName(q) \/ CheckProjectEmpty(q)
      PROVE  UNCHANGED rows
  BY <1>4 DEF Enter, Submit, GetProject, GetExperiment, EnsureUniqueName,
              CheckProjectEmpty, Fail, Advance
<1>5. ASSUME NEW q \in Requests, CreateExperiment(q), ~Fail(q) PROVE Rooted'
  BY <1>5 DEF CreateExperiment, In
<1>6. ASSUME NEW q \in Requests, UpdateExperiment(q), ~Fail(q) PROVE Rooted'
  BY <1>6 DEF UpdateExperiment
<1>7. ASSUME NEW q \in Requests, DeleteProject(q), ~Fail(q) PROVE Rooted'
  BY <1>7 DEF DeleteProject, ProjectDeletable
<1>8. ASSUME NEW q \in Requests, DeleteExperiment(q), ~Fail(q) PROVE Rooted'
  BY <1>8 DEF DeleteExperiment, ExperimentDeletable
<1>9. ASSUME NEW q \in Requests, Fail(q) PROVE Rooted'
  BY <1>1, <1>9 DEF Fail
<1>10. QED
  BY <1>1, <1>2, <1>3, <1>4, <1>5, <1>6, <1>7, <1>8, <1>9 DEF Next, vars

\* The two together are an inductive invariant.
LEMMA CatalogInvariant == Spec => [](CatalogTypeOK /\ Rooted)
<1>1. Init => CatalogTypeOK /\ Rooted
  BY CatalogAssumption DEF Init, CatalogTypeOK, Rooted, Rows
<1>2. QED
  BY <1>1, CatalogTypeStep, RootedStep, PTL DEF Spec

\* Experiments always have their project and runs their experiment, however
\* the checks and writes of concurrent requests interleave.
THEOREM CatalogRooted == Spec => []Rooted
BY CatalogInvariant, PTL

\* The tables and the requests keep their types.
THEOREM CatalogTypes == Spec => []CatalogTypeOK
BY CatalogInvariant, PTL
==============================================================================
