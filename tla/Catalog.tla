------------------------------- MODULE Catalog -------------------------------
(***************************************************************************)
(* Projects, experiments and the runs below them: the CRUD operations of   *)
(* api/projects.py and api/experiments.py.                                 *)
(*                                                                         *)
(* Each request is a few statements in one READ COMMITTED transaction: it  *)
(* looks up a row, makes a check that takes no lock, and writes at commit. *)
(* Any number of other requests may commit in between; what is left of the *)
(* check is what the constraints of the tables enforce at the write.       *)
(*                                                                         *)
(* Names are compared without regard to case by the check and exactly by   *)
(* the constraint.  Names and descriptions of projects, and descriptions   *)
(* and tags of experiments, have no constraint and are left out.  An       *)
(* experiment never moves to another project.                              *)
(***************************************************************************)

CONSTANTS
  Projects,      \* project ids
  Experiments,   \* experiment ids
  Names,         \* experiment names
  Blank,         \* the name that is empty once stripped
  Fold,          \* lower(name), a function on Names
  Requests,      \* the requests that may be in progress at a time
  None           \* no row, no value

ASSUME CatalogAssumption ==
  /\ None \notin Projects \cup Experiments \cup Names
  /\ Blank \in Names
  /\ DOMAIN Fold = Names

VARIABLES
  projects,   \* rows of projects
  home,       \* experiments.project_id, None without a row
  name,       \* experiments.name
  used,       \* experiments that have runs
  req         \* the requests in progress

rows == <<projects, home, name, used>>
vars == <<rows, req>>

Rows == {e \in Experiments : home[e] # None}

\* What a request is about, and how far it has come: entered, its row found,
\* its check passed.  old is the name in the session's copy of the row.
Request ==
  [op : {"create", "rename", "dropProject", "dropExperiment"},
   phase : {"entered", "found", "checked"},
   proj : Projects \cup {None}, exp : Experiments \cup {None},
   new : Names \cup {None}, old : Names \cup {None}]

CatalogTypeOK ==
  /\ projects \subseteq Projects
  /\ home \in [Experiments -> Projects \cup {None}]
  /\ name \in [Experiments -> Names \cup {None}]
  /\ \A e \in Experiments : name[e] = None <=> home[e] = None
  /\ used \subseteq Experiments
  /\ req \in [Requests -> Request \cup {None}]
  /\ \A q \in Requests :
       req[q] # None /\ req[q].op \in {"create", "rename"} =>
         req[q].exp \in Experiments /\ req[q].new \in Names

Init ==
  /\ projects = {}
  /\ home = [e \in Experiments |-> None]
  /\ name = [e \in Experiments |-> None]
  /\ used = {}
  /\ req = [q \in Requests |-> None]

-----------------------------------------------------------------------------
(***************************************************************************)
(* The constraints that the database enforces at a write.                  *)
(***************************************************************************)

\* uq_experiments_project_name.
NameAdmitted(e, p, n) == \A f \in Rows \ {e} : ~(home[f] = p /\ name[f] = n)

\* Mutant: a project is deleted on the strength of the check alone.
DeletesRegardless(p) == TRUE

\* experiments.project_id REFERENCES projects ON DELETE RESTRICT.
ProjectDeletable(p) == \A e \in Experiments : home[e] # p

-----------------------------------------------------------------------------
\* The request is answered; its transaction is over.
Answer(q) == req' = [req EXCEPT ![q] = None]

Fail(q) == Answer(q) /\ UNCHANGED rows

Advance(q, phase) == req' = [req EXCEPT ![q].phase = phase] /\ UNCHANGED rows

In(q, op, phase) == req[q] # None /\ req[q].op = op /\ req[q].phase = phase

\* Ids are UUIDs: an id is fresh if no row and no request in progress has it.
InProgress == {req[q] : q \in Requests} \ {None}

Submit(q, op, p, e, n) ==
  /\ req' = [req EXCEPT ![q] = [op |-> op, phase |-> "entered", proj |-> p,
                               exp |-> e, new |-> n, old |-> None]]
  /\ UNCHANGED rows

\* POST and PATCH experiments, DELETE projects and experiments arrive.
Enter(q) ==
  /\ req[q] = None
  /\ \/ \E p \in Projects, n \in Names, e \in Experiments \ Rows :
          /\ \A o \in InProgress : o.exp # e
          /\ Submit(q, "create", p, e, n)
     \/ \E e \in Rows, n \in Names : Submit(q, "rename", None, e, n)
     \/ \E p \in projects : Submit(q, "dropProject", p, None, None)
     \/ \E e \in Rows : Submit(q, "dropExperiment", None, e, None)

\* get_project_or_404.
GetProject(q) ==
  /\ In(q, "create", "entered") \/ In(q, "dropProject", "entered")
  /\ \/ req[q].proj \in projects /\ Advance(q, "found")
     \/ req[q].proj \notin projects /\ Fail(q)

\* get_experiment_or_404; the session keeps a copy of the row.
GetExperiment(q) ==
  /\ In(q, "rename", "entered") \/ In(q, "dropExperiment", "entered")
  /\ \/ /\ req[q].exp \in Rows
        /\ req' = [req EXCEPT ![q].phase = "found", ![q].proj = home[req[q].exp],
                              ![q].old = name[req[q].exp]]
        /\ UNCHANGED rows
     \/ req[q].exp \notin Rows /\ Fail(q)

\* Another experiment of the project whose name is the same in lower case.
NameTaken(e, p, n) ==
  \E f \in Rows \ {e} : home[f] = p /\ Fold[name[f]] = Fold[n]

\* update_experiment skips the check for an empty name.
Unchecked(q) == req[q].op = "rename" /\ req[q].new = Blank

EnsureUniqueName(q) ==
  /\ In(q, "create", "found") \/ In(q, "rename", "found")
  /\ IF ~Unchecked(q) /\ NameTaken(req[q].exp, req[q].proj, req[q].new)
       THEN Fail(q)
       ELSE Advance(q, "checked")

CreateProject(p) ==
  /\ p \notin projects
  /\ \A o \in InProgress : o.proj # p
  /\ projects' = projects \cup {p}
  /\ UNCHANGED <<home, name, used, req>>

\* The INSERT meets the foreign key and the unique constraint; an
\* IntegrityError is answered with a conflict.
CreateExperiment(q) ==
  LET e == req[q].exp
      p == req[q].proj
      n == req[q].new
  IN /\ In(q, "create", "checked")
     /\ IF p \in projects /\ NameAdmitted(e, p, n)
          THEN /\ home' = [home EXCEPT ![e] = p]
               /\ name' = [name EXCEPT ![e] = n]
               /\ Answer(q)
               /\ UNCHANGED <<projects, used>>
          ELSE Fail(q)

\* Mutant: the write does not look whether the row is still there.
RenameRestores(e) == TRUE

\* The UPDATE finds the row; otherwise the ORM raises StaleDataError.
RenameFinds(e) == e \in Rows

\* The ORM writes the name only if it differs from the one it loaded.
UpdateExperiment(q) ==
  LET e == req[q].exp
      n == req[q].new
  IN /\ In(q, "rename", "checked")
     /\ IF n # req[q].old /\ RenameFinds(e) /\ NameAdmitted(e, req[q].proj, n)
          THEN /\ name' = [name EXCEPT ![e] = n]
               /\ Answer(q)
               /\ UNCHANGED <<projects, home, used>>
          ELSE Fail(q)

\* 409 if the project has an experiment.
CheckProjectEmpty(q) ==
  /\ In(q, "dropProject", "found")
  /\ IF \E e \in Rows : home[e] = req[q].proj THEN Fail(q) ELSE Advance(q, "checked")

DeleteProject(q) ==
  /\ In(q, "dropProject", "checked")
  /\ IF ProjectDeletable(req[q].proj)
       THEN /\ projects' = projects \ {req[q].proj}
            /\ Answer(q)
            /\ UNCHANGED <<home, name, used>>
       ELSE Fail(q)

\* runs.experiment_id REFERENCES experiments ON DELETE RESTRICT.
ExperimentDeletable(e) == e \notin used

\* There is no check for runs before the DELETE.
DeleteExperiment(q) ==
  LET e == req[q].exp IN
  /\ In(q, "dropExperiment", "found")
  /\ IF ExperimentDeletable(e)
       THEN /\ home' = [home EXCEPT ![e] = None]
            /\ name' = [name EXCEPT ![e] = None]
            /\ Answer(q)
            /\ UNCHANGED <<projects, used>>
       ELSE Fail(q)

\* create_queued_run inserts without looking at the experiment; the foreign
\* key decides.
SubmitRun(e) ==
  /\ e \in Rows \ used
  /\ used' = used \cup {e}
  /\ UNCHANGED <<projects, home, name, req>>

Next ==
  \/ \E p \in Projects : CreateProject(p)
  \/ \E e \in Experiments : SubmitRun(e)
  \/ \E q \in Requests :
       \/ Enter(q) \/ GetProject(q) \/ GetExperiment(q) \/ EnsureUniqueName(q)
       \/ CreateExperiment(q) \/ UpdateExperiment(q)
       \/ CheckProjectEmpty(q) \/ DeleteProject(q) \/ DeleteExperiment(q)

Spec == Init /\ [][Next]_vars

-----------------------------------------------------------------------------
\* A run always has its experiment and an experiment its project, although
\* the existence checks and the emptiness checks of the requests are stale
\* by the time they write.
Rooted ==
  /\ \A e \in Rows : home[e] \in projects
  /\ used \subseteq Rows

\* What ensure_unique_name and its test ask for: no two experiments of a
\* project have names that differ in case only.  Not so: two requests pass
\* the check together, and the constraint compares names as they are spelt.
NamesDistinctInAnyCase ==
  \A e, f \in Rows : home[e] = home[f] /\ Fold[name[e]] = Fold[name[f]] => e = f
==============================================================================
