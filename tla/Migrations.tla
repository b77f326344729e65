----------------------------- MODULE Migrations -----------------------------
(***************************************************************************)
(* The alembic revisions 0001 to 0005 and the commands that apply them.    *)
(*                                                                         *)
(* A schema is a set of tables and enum types, of references (columns with *)
(* a foreign key to a table or of an enum type) and of indexes.  Each      *)
(* statement has the preconditions of PostgreSQL, whose DDL is             *)
(* transactional: it sees what others have committed and what its own      *)
(* transaction has changed, and waits for open transactions that have      *)
(* changed the same things.  Of the data only one column matters: foreign  *)
(* keys come with new, empty tables, except runs.assigned_worker_id.       *)
(***************************************************************************)
EXTENDS Integers, Sequences, SequencesExt

CONSTANT Migrators   \* processes that run alembic: the migration job, operators

VARIABLES
  version,    \* alembic_version, 0 for none
  schema,     \* the committed schema
  assigned,   \* some row of runs has an assigned_worker_id
  job         \* the command of each migrator

vars == <<version, schema, assigned, job>>

Latest == 5

Schema(things, refs, indexes) == [things |-> things, refs |-> refs, indexes |-> indexes]
Empty == Schema({}, {}, {})

\* A schema with some things taken away and others added.
With(s, made, gone) == Schema((s.things \ gone.things) \cup made.things,
                              (s.refs \ gone.refs) \cup made.refs,
                              (s.indexes \ gone.indexes) \cup made.indexes)

-----------------------------------------------------------------------------
(***************************************************************************)
(* Statements.                                                             *)
(***************************************************************************)

Ref(table, column, to) == [table |-> table, column |-> column, to |-> to]
Index(name, table) == [name |-> name, table |-> table]

CreateType(n)            == <<[op |-> "create type", name |-> n]>>
CreateTypeUnlessThere(n) == <<[op |-> "create type if missing", name |-> n]>>
DropType(n)              == <<[op |-> "drop type", name |-> n]>>
AddForeignKey(ref)       == <<[op |-> "add foreign key", ref |-> ref]>>
DropConstraint(ref)      == <<[op |-> "drop constraint", ref |-> ref]>>

\* op.create_table with its references <<column, to>>, then its op.create_index.
CreateTable(t, cols, indexes) ==
  <<[op |-> "create table", name |-> t, refs |-> {Ref(t, c[1], c[2]) : c \in cols}]>>
    \o [i \in DOMAIN indexes |-> [op |-> "create index", index |-> Index(indexes[i], t)]]

\* The op.drop_index of a table, then op.drop_table.
DropTable(t, indexes) ==
  [i \in DOMAIN indexes |-> [op |-> "drop index", index |-> Index(indexes[i], t)]]
    \o <<[op |-> "drop table", name |-> t]>>

\* What PostgreSQL accepts.  A foreign key is checked against the rows: here
\* the referenced table is new, so that any value would be dangling.
Accepted(st, s, rows) ==
  CASE st.op = "create type"     -> st.name \notin s.things
    [] st.op = "create table"    ->
         /\ st.name \notin s.things
         /\ \A r \in st.refs : r.to \in s.things \cup {st.name}
    [] st.op = "create index"    -> st.index.table \in s.things /\ st.index \notin s.indexes
    [] st.op = "add foreign key" -> /\ {st.ref.table, st.ref.to} \subseteq s.things
                                    /\ st.ref \notin s.refs /\ ~rows
    [] st.op = "drop constraint" -> st.ref \in s.refs
    [] st.op = "drop index"      -> st.index \in s.indexes
    [] st.op = "drop table"      ->
         /\ st.name \in s.things
         /\ \A r \in s.refs : r.to = st.name => r.table = st.name
    [] st.op = "drop type"       -> \A r \in s.refs : r.to # st.name
    [] OTHER                     -> TRUE

\* What a statement adds to a schema and what it takes away.  With checkfirst
\* a type that is there is not created, and one that is not is not dropped.
Added(st, s) ==
  CASE st.op \in {"create type", "create type if missing"} ->
         Schema({st.name} \ s.things, {}, {})
    [] st.op = "create table"    -> Schema({st.name}, st.refs, {})
    [] st.op = "create index"    -> Schema({}, {}, {st.index})
    [] st.op = "add foreign key" -> Schema({}, {st.ref}, {})
    [] OTHER                     -> Empty

Removed(st, s) ==
  CASE st.op = "drop constraint" -> Schema({}, {st.ref}, {})
    [] st.op = "drop index"      -> Schema({}, {}, {st.index})
    [] st.op \in {"drop table", "drop type"} ->
         Schema({st.name} \cap s.things,
                {r \in s.refs : r.table = st.name},
                {i \in s.indexes : i.table = st.name})
    [] OTHER                     -> Empty

Effect(st, s) == With(s, Added(st, s), Removed(st, s))

\* The tables and types that a change locks until its transaction ends.  The
\* modes conflict: PostgreSQL locks both ends of a foreign key, and a name
\* that a transaction has created blocks its second creation.
Touches(s) ==
  s.things \cup {r.table : r \in s.refs} \cup {r.to : r \in s.refs}
           \cup {i.table : i \in s.indexes}

-----------------------------------------------------------------------------
(***************************************************************************)
(* The revisions.                                                          *)
(***************************************************************************)

\* sa.Enum inside op.create_table creates its type unconditionally.
Upgrade0001 ==
  CreateType("user_role") \o CreateTable("users", {<<"role", "user_role">>}, <<"ix_users_email">>)

Downgrade0001 == DropTable("users", <<"ix_users_email">>) \o DropType("user_role")

projectIndexes    == <<"ix_projects_created_by_created_at", "ix_projects_name">>
experimentIndexes ==
  <<"ix_experiments_created_by", "ix_experiments_project_created_at", "ix_experiments_name">>

Upgrade0002 ==
  CreateTable("projects", {<<"created_by", "users">>}, projectIndexes)
    \o CreateTable("experiments", {<<"created_by", "users">>, <<"project_id", "projects">>},
                   experimentIndexes)

Downgrade0002 ==
  DropTable("experiments", Reverse(experimentIndexes))
    \o DropTable("projects", Reverse(projectIndexes))

templateIndexes == <<"ix_training_templates_enabled_key">>
runIndexes ==
  <<"ix_runs_created_by", "ix_runs_experiment_created_at", "ix_runs_status_priority_created_at">>
metricIndexes == <<"ix_run_metrics_run_name_step", "ix_run_metrics_run_recorded_at">>
ofRun == <<"run_id", "runs">>

Upgrade0003 ==
  CreateTypeUnlessThere("run_status")
    \o CreateTable("training_templates", {}, templateIndexes)
    \o CreateTable("runs", {<<"status", "run_status">>, <<"created_by", "users">>,
                            <<"experiment_id", "experiments">>, <<"parent_run_id", "runs">>,
                            <<"template_id", "training_templates">>}, runIndexes)
    \o CreateTable("run_parameters", {ofRun}, <<"ix_run_parameters_run_id">>)
    \o CreateTable("run_metrics", {ofRun}, metricIndexes)
    \o CreateTable("run_logs", {ofRun}, <<"ix_run_logs_run_recorded_at">>)
    \o CreateTable("artifacts", {ofRun}, <<"ix_artifacts_run_created_at">>)
    \o CreateTable("run_events", {ofRun, <<"previous_status", "run_status">>,
                                  <<"new_status", "run_status">>},
                   <<"ix_run_events_run_created_at">>)

Downgrade0003 ==
  DropTable("run_events", <<"ix_run_events_run_created_at">>)
    \o DropTable("artifacts", <<"ix_artifacts_run_created_at">>)
    \o DropTable("run_logs", <<"ix_run_logs_run_recorded_at">>)
    \o DropTable("run_metrics", Reverse(metricIndexes))
    \o DropTable("run_parameters", <<"ix_run_parameters_run_id">>)
    \o DropTable("runs", Reverse(runIndexes))
    \o DropTable("training_templates", templateIndexes)
    \o DropType("run_status")

outboxIndexes    == <<"ix_outbox_messages_unpublished_created">>
processedIndexes == <<"ix_processed_messages_processed_at">>

Upgrade0004 ==
  CreateTable("outbox_messages", {}, outboxIndexes)
    \o CreateTable("processed_messages", {}, processedIndexes)

Downgrade0004 ==
  DropTable("processed_messages", processedIndexes) \o DropTable("outbox_messages", outboxIndexes)

workerIndexes     == <<"ix_workers_status_heartbeat">>
allocationIndexes ==
  <<"ix_resource_allocations_worker_released", "ix_resource_allocations_lease_expires",
    "uq_resource_allocations_active_run">>
assignedWorker == Ref("runs", "assigned_worker_id", "workers")
createAllocations ==
  CreateTable("resource_allocations", {ofRun, <<"worker_id", "workers">>}, allocationIndexes)

Upgrade0005 ==
  CreateTypeUnlessThere("worker_status")
    \o CreateTable("workers", {<<"status", "worker_status">>}, workerIndexes)
    \o AddForeignKey(assignedWorker)
    \o createAllocations

Downgrade0005 ==
  DropTable("resource_allocations", Reverse(allocationIndexes))
    \o DropConstraint(assignedWorker)
    \o DropTable("workers", workerIndexes)
    \o DropType("worker_status")

Upgrade   == <<Upgrade0001, Upgrade0002, Upgrade0003, Upgrade0004, Upgrade0005>>
Downgrade == <<Downgrade0001, Downgrade0002, Downgrade0003, Downgrade0004, Downgrade0005>>

-----------------------------------------------------------------------------
(***************************************************************************)
(* Commands.                                                               *)
(***************************************************************************)

\* at: the version reached; todo: the statements left of the current revision;
\* made, gone: what the transaction has changed.  overtaken is history: some
\* other command has committed since this one read the version.
Idle == [phase |-> "idle", from |-> 0, at |-> 0, target |-> 0, todo |-> <<>>,
         made |-> Empty, gone |-> Empty, overtaken |-> FALSE]

Goals == 0..Latest

\* The revision that leads from one version towards another.
Script(at, target) == IF at < target THEN Upgrade[at + 1] ELSE Downgrade[at]
Toward(at, target) == IF at < target THEN at + 1 ELSE at - 1

Init ==
  /\ version = 0 /\ schema = Empty /\ assigned = FALSE
  /\ job = [m \in Migrators |-> Idle]

\* "upgrade head", or a downgrade to an older version: reads the version and
\* opens the transaction.  At the target already, there is nothing to do.
Start(m, target) ==
  /\ job[m].phase \in {"idle", "refused"}
  /\ target = Latest \/ target < version
  /\ target # version
  /\ job' = [job EXCEPT ![m] = [phase |-> "running", from |-> version, at |-> version,
                                target |-> target, todo |-> Script(version, target),
                                made |-> Empty, gone |-> Empty, overtaken |-> FALSE]]
  /\ UNCHANGED <<version, schema, assigned>>

Running(m) == job[m].phase = "running"

\* The schema as the transaction sees it.
View(m) == With(schema, job[m].made, job[m].gone)

\* Mutant: dropping runs does not end its rows.
RowsKept(m) == assigned

\* Rows of runs, if the transaction has not dropped the table.
Rows(m) == assigned /\ "runs" \in View(m).things

Locks(m) == Touches(job[m].made) \cup Touches(job[m].gone)

\* No other open transaction has changed what the statement touches.
LocksFree(m, st) ==
  \A q \in Migrators \ {m} : Running(q) =>
    Locks(q) \cap (Touches(Added(st, View(m))) \cup Touches(Removed(st, View(m)))) = {}

Refuse(m, todo) ==
  /\ job' = [job EXCEPT ![m] = [Idle EXCEPT !.phase = "refused", !.todo = todo]]
  /\ UNCHANGED <<version, schema, assigned>>

\* The next statement: refused, accepted or, while another transaction has the
\* locks, waiting for what becomes of that.  The checkfirst of a type that is
\* created meanwhile is repeated then; its table is there too and refuses the
\* statement that follows.
Execute(m) ==
  /\ Running(m) /\ job[m].todo # <<>>
  /\ LET st == Head(job[m].todo)
         made == Added(st, View(m))
         gone == Removed(st, View(m))
     IN \/ /\ Accepted(st, View(m), Rows(m)) /\ LocksFree(m, st)
           /\ job' = [job EXCEPT ![m] = [job[m] EXCEPT !.todo = Tail(@),
                                                       !.made = With(@, made, gone),
                                                       !.gone = With(@, gone, Empty)]]
           /\ UNCHANGED <<version, schema, assigned>>
        \/ ~Accepted(st, View(m), Rows(m)) /\ Refuse(m, <<st>>)

\* After each revision alembic updates the version row, which stays locked.
HoldsVersionRow(q) == Running(q) /\ job[q].at # job[q].from
VersionRowFree(m) == \A q \in Migrators \ {m} : ~HoldsVersionRow(q)

\* Mutant: alembic does not count the rows that its UPDATE matched.
VersionRowUnchecked(m) == TRUE

\* UPDATE alembic_version ... WHERE version_num = the one read: one row.
VersionRowMatches(m) == version = job[m].from

RevisionDone(m) == Running(m) /\ job[m].todo = <<>> /\ VersionRowFree(m)

\* Mutant: the revision just finished is run again.
NextRevisionRepeats(m) ==
  /\ RevisionDone(m) /\ VersionRowMatches(m)
  /\ Toward(job[m].at, job[m].target) # job[m].target
  /\ job' = [job EXCEPT ![m].todo = Script(job[m].at, job[m].target)]
  /\ UNCHANGED <<version, schema, assigned>>

\* The revision is finished and another one follows in the same transaction.
NextRevision(m) ==
  LET at == Toward(job[m].at, job[m].target) IN
  /\ RevisionDone(m) /\ VersionRowMatches(m) /\ at # job[m].target
  /\ job' = [job EXCEPT ![m] = [job[m] EXCEPT !.at = at, !.todo = Script(at, job[m].target)]]
  /\ UNCHANGED <<version, schema, assigned>>

\* The last revision is finished.
Commit(m) ==
  /\ RevisionDone(m) /\ VersionRowMatches(m)
  /\ Toward(job[m].at, job[m].target) = job[m].target
  /\ version' = job[m].target
  /\ schema' = View(m)
  /\ assigned' = Rows(m)
  /\ job' = [q \in Migrators |->
               IF q = m THEN Idle ELSE [job[q] EXCEPT !.overtaken = Running(q)]]

\* Another command has moved the version: alembic expected to match one row.
VersionRowLost(m) ==
  /\ RevisionDone(m) /\ ~VersionRowMatches(m)
  /\ Refuse(m, <<>>)

\* Mutant: what was executed of the script stays, as without transactional_ddl.
RollbackKeepsTables(m) ==
  /\ Running(m)
  /\ schema' = View(m)
  /\ job' = [job EXCEPT ![m] = Idle]
  /\ UNCHANGED <<version, assigned>>

\* The process dies, or PostgreSQL ends a deadlock between two commands.
Rollback(m) ==
  /\ Running(m)
  /\ job' = [job EXCEPT ![m] = Idle]
  /\ UNCHANGED <<version, schema, assigned>>

\* The scheduler of a deployment at the head gives a run a worker.
AssignWorker ==
  /\ version = Latest /\ ~assigned
  /\ \A m \in Migrators : Running(m) => Locks(m) \cap {"runs", "workers"} = {}
  /\ assigned' = TRUE
  /\ UNCHANGED <<version, schema, job>>

Next ==
  \/ \E m \in Migrators :
       \/ \E target \in Goals : Start(m, target)
       \/ Execute(m) \/ NextRevision(m) \/ Commit(m) \/ VersionRowLost(m) \/ Rollback(m)
  \/ AssignWorker

Spec == Init /\ [][Next]_vars

-----------------------------------------------------------------------------
MigrationTypeOK ==
  /\ version \in Goals
  /\ assigned \in BOOLEAN
  /\ \A m \in Migrators :
       /\ job[m].phase \in {"idle", "running", "refused"}
       /\ {job[m].from, job[m].at, job[m].target} \subseteq Goals
  \* Nothing outlives its table.
  /\ assigned => "runs" \in schema.things
  /\ \A r \in schema.refs : {r.table, r.to} \subseteq schema.things
  /\ \A i \in schema.indexes : i.table \in schema.things

\* The schema each version stands for.
Built == [v \in Goals |-> FoldLeft(LAMBDA s, st : Effect(st, s), Empty,
                                   FlattenSeq(SubSeq(Upgrade, 1, v)))]

\* Every sequence of upgrades and downgrades, whole, abandoned or overlapping,
\* leaves the schema of the recorded version: each downgrade takes back all
\* its upgrade made, types and indexes included, and of two commands that run
\* different revisions at once only one finds its version row.
SchemaMatchesVersion == schema = Built[version]

\* The tables that models.py maps, with their references and indexes.
Mapped(t, cols, indexes) ==
  Schema({t} \cup ({c[2] : c \in cols} \cap {"user_role", "run_status", "worker_status"}),
         {Ref(t, c[1], c[2]) : c \in cols}, {Index(i, t) : i \in indexes})

CatalogClasses ==
  {Mapped("users", {<<"role", "user_role">>}, {"ix_users_email"}),
   Mapped("projects", {<<"created_by", "users">>},
          {"ix_projects_created_by_created_at", "ix_projects_name"}),
   Mapped("experiments", {<<"project_id", "projects">>, <<"created_by", "users">>},
          {"ix_experiments_project_created_at", "ix_experiments_created_by",
           "ix_experiments_name"})}

RunClasses ==
  {Mapped("training_templates", {}, {"ix_training_templates_enabled_key"}),
   Mapped("runs", {<<"experiment_id", "experiments">>, <<"template_id", "training_templates">>,
                   <<"status", "run_status">>, <<"assigned_worker_id", "workers">>,
                   <<"parent_run_id", "runs">>, <<"created_by", "users">>},
          {"ix_runs_experiment_created_at", "ix_runs_status_priority_created_at",
           "ix_runs_created_by"}),
   Mapped("run_parameters", {ofRun}, {"ix_run_parameters_run_id"})}

TelemetryClasses ==
  {Mapped("run_metrics", {ofRun},
          {"ix_run_metrics_run_name_step", "ix_run_metrics_run_recorded_at"}),
   Mapped("run_logs", {ofRun}, {"ix_run_logs_run_recorded_at"}),
   Mapped("artifacts", {ofRun}, {"ix_artifacts_run_created_at"}),
   Mapped("run_events", {ofRun, <<"previous_status", "run_status">>,
                         <<"new_status", "run_status">>}, {"ix_run_events_run_created_at"})}

ServiceClasses ==
  {Mapped("workers", {<<"status", "worker_status">>}, {"ix_workers_status_heartbeat"}),
   Mapped("resource_allocations", {ofRun, <<"worker_id", "workers">>},
          {"ix_resource_allocations_worker_released", "ix_resource_allocations_lease_expires",
           "uq_resource_allocations_active_run"}),
   Mapped("outbox_messages", {}, {"ix_outbox_messages_unpublished_created"}),
   Mapped("processed_messages", {}, {"ix_processed_messages_processed_at"})}

ModelClasses == CatalogClasses \cup RunClasses \cup TelemetryClasses \cup ServiceClasses

ModelSchema == Schema(UNION {c.things : c \in ModelClasses},
                      UNION {c.refs : c \in ModelClasses},
                      UNION {c.indexes : c \in ModelClasses})

\* A database at the head is the one the ORM classes expect, however it got
\* there: by one upgrade, or by downgrades and upgrades.
HeadServesModels == version = Latest => schema = ModelSchema

\* Of a command that no other has overtaken only the foreign key of 0005 can
\* be refused, and only because run rows still name workers of a table that a
\* downgrade dropped.  A command that has been overtaken may also find a table
\* there or gone, or the version moved.
RefusedOnlyForOrphans ==
  [][\A m \in Migrators :
       Running(m) /\ job'[m].phase = "refused" =>
         \/ job[m].overtaken
         \/ assigned /\ job[m].todo # <<>>
              /\ <<Head(job[m].todo)>> = AddForeignKey(assignedWorker)]_vars
=============================================================================
