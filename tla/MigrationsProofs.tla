-------------------------- MODULE MigrationsProofs --------------------------
(***************************************************************************)
(* Proofs about Migrations, for any number of processes that run alembic,  *)
(* overlapping in any way and dying at any point.                          *)
(***************************************************************************)
EXTENDS Migrations, TLAPS

\* The schema that the first k statements of a revision make.
Reached(at, target, k) ==
  FoldLeft(LAMBDA s, st : Effect(st, s), Built[at], SubSeq(Script(at, target), 1, k))

\* A revision leads from the schema of its version to that of the next, and
\* PostgreSQL accepts its statements on the way, whatever rows there are; but
\* for the one foreign key, there must be none.
Leads(at, target) ==
  LET script == Script(at, target) IN
  /\ script \in Seq(Range(script))
  /\ Reached(at, target, 0) = Built[at]
  /\ Reached(at, target, Len(script)) = Built[Toward(at, target)]
  /\ \A k \in 1..Len(script) :
       /\ Reached(at, target, k) = Effect(script[k], Reached(at, target, k - 1))
       /\ Accepted(script[k], Reached(at, target, k - 1), FALSE)
       /\ <<script[k]>> # AddForeignKey(assignedWorker) =>
            Accepted(script[k], Reached(at, target, k - 1), TRUE)

\* A transaction that has executed some statements has made and taken away
\* some things.  While it is open the committed schema still has what it took
\* away and still lacks what it made.
Change(made, gone) == [made |-> made, gone |-> gone]
Seen(s, d) == With(s, d.made, d.gone)
Fits(d, s) ==
  /\ d.gone.things \subseteq s.things /\ d.made.things \cap s.things = {}
  /\ d.gone.refs \subseteq s.refs /\ d.made.refs \cap s.refs = {}
  /\ d.gone.indexes \subseteq s.indexes /\ d.made.indexes \cap s.indexes = {}

Grown(d, st, s) == Change(With(d.made, Added(st, s), Removed(st, s)),
                          With(d.gone, Removed(st, s), Empty))

\* What the first k statements of a revision can have changed, if others
\* committed any version between one statement and the next.
Changes(at, target, k) ==
  FoldLeft(LAMBDA D, st :
             UNION {{Grown(d, st, Seen(Built[v], d)) :
                       d \in {c \in D : /\ Fits(c, Built[v])
                                        /\ \E rows \in BOOLEAN :
                                             Accepted(st, Seen(Built[v], c), rows)}} :
                    v \in Goals},
           {Change(Empty, Empty)}, SubSeq(Script(at, target), 1, k))

\* Whatever was committed meanwhile, a revision that was accepted to its end
\* and then finds the version that it began with makes the next one of it.
Withstands(at, target) ==
  LET script == Script(at, target) IN
  /\ Changes(at, target, 0) = {Change(Empty, Empty)}
  /\ \A k \in 1..Len(script), v \in Goals :
       \A d \in Changes(at, target, k - 1), rows \in BOOLEAN :
         Fits(d, Built[v]) /\ Accepted(script[k], Seen(Built[v], d), rows) =>
           /\ Grown(d, script[k], Seen(Built[v], d)) \in Changes(at, target, k)
           /\ Fits(Grown(d, script[k], Seen(Built[v], d)), Built[v])
  /\ \A d \in Changes(at, target, Len(script)) :
       Fits(d, Built[at]) => Seen(Built[at], d) = Built[Toward(at, target)]

\* References and indexes belong to the tables that are there.
WellFormed(s) ==
  /\ \A r \in s.refs : {r.table, r.to} \subseteq s.things
  /\ \A i \in s.indexes : i.table \in s.things

\* What the five scripts do.  Neither a constant nor a variable occurs here:
\* there is one case, and TLC computes it.
ASSUME RevisionsFit ==
  /\ Built[0] = Empty /\ Built[Latest] = ModelSchema /\ "runs" \in ModelSchema.things
  /\ \A v \in Goals : WellFormed(Built[v]) /\ With(Built[v], Empty, Empty) = Built[v]
  /\ \A at, target \in Goals : at # target => Leads(at, target) /\ Withstands(at, target)

-----------------------------------------------------------------------------
(***************************************************************************)
(* The inductive invariant: a running command is some way through one      *)
(* script.  Until it has updated the version row others may commit, but    *)
(* nothing of what it has touched.  Once it has, or if nobody has, it sees *)
(* just what its script made of the version it read.                       *)
(***************************************************************************)

Rest(at, target, k) == SubSeq(Script(at, target), k + 1, Len(Script(at, target)))

isJob(j) ==
  /\ j = [phase |-> j.phase, from |-> j.from, at |-> j.at, target |-> j.target,
          todo |-> j.todo, made |-> j.made, gone |-> j.gone, overtaken |-> j.overtaken]
  /\ j.phase \in {"idle", "running", "refused"}
  /\ j.from \in Goals /\ j.at \in Goals /\ j.target \in Goals
  /\ j.overtaken \in BOOLEAN

onWay(j) == \/ j.from <= j.at /\ j.at < j.target
            \/ j.target < j.at /\ j.at <= j.from

changeOf(j) == Change(j.made, j.gone)
touched(j) == Touches(j.made) \cup Touches(j.gone)

\* The command after k statements of its revision.
after(j, k, s, v) ==
  /\ j.todo = Rest(j.at, j.target, k)
  /\ j.at = j.from => changeOf(j) \in Changes(j.at, j.target, k) /\ Fits(changeOf(j), s)
  /\ j.at # j.from \/ ~j.overtaken =>
       v = j.from /\ Seen(s, changeOf(j)) = Reached(j.at, j.target, k)

halfway(j, s, v) ==
  /\ onWay(j)
  /\ \E k \in 0..Len(Script(j.at, j.target)) : after(j, k, s, v)

\* Two commands have different locks, and one of them has the version row.
apart(i, j) == touched(i) \cap touched(j) = {} /\ (i.at = i.from \/ j.at = j.from)

JobsOK ==
  /\ job = [m \in Migrators |-> job[m]]
  /\ \A m \in Migrators :
       isJob(job[m]) /\ (job[m].phase = "running" => halfway(job[m], schema, version))
  /\ \A m, q \in Migrators :
       m # q /\ job[m].phase = "running" /\ job[q].phase = "running" => apart(job[m], job[q])

CommittedOK ==
  /\ version \in Goals /\ assigned \in BOOLEAN
  /\ schema = Built[version]
  /\ assigned => "runs" \in schema.things

MigrationIInv == JobsOK /\ CommittedOK

\* An empty database is at version 0.
LEMMA InitMigrations == Init => MigrationIInv
<1> SUFFICES ASSUME Init PROVE MigrationIInv
  OBVIOUS
<1>1. isJob(Idle) /\ Idle.phase = "idle"
  BY DEF isJob, Idle, Goals, Latest
<1>2. JobsOK
  <2>1. job = [m \in Migrators |-> Idle]
    BY DEF Init
  <2>2. \A m \in Migrators : job[m] = Idle
    BY <2>1, Zenon
  <2>3. job = [m \in Migrators |-> job[m]]
    BY <2>1, <2>2, Zenon
  <2> QED BY <1>1, <2>2, <2>3, Zenon DEF JobsOK
<1>3. CommittedOK
  <2>1. Built[0] = Empty
    BY RevisionsFit
  <2>2. 0 \in Goals
    BY DEF Goals, Latest
  <2> QED BY <2>1, <2>2 DEF CommittedOK, Init
<1> QED BY <1>2, <1>3 DEF MigrationIInv

\* What is left of a script, one statement at a time.
LEMMA RestOfScript ==
  ASSUME NEW at \in Goals, NEW target \in Goals, at # target,
         NEW k \in 0..Len(Script(at, target))
  PROVE  /\ Rest(at, target, 0) = Script(at, target)
         /\ Rest(at, target, k) = <<>> <=> k = Len(Script(at, target))
         /\ Rest(at, target, k) # <<>> =>
              /\ k + 1 \in 1..Len(Script(at, target))
              /\ Head(Rest(at, target, k)) = Script(at, target)[k + 1]
              /\ Tail(Rest(at, target, k)) = Rest(at, target, k + 1)
<1> DEFINE script == Script(at, target)
<1>1. PICK S : script \in Seq(S)
  BY RevisionsFit DEF Leads
<1> HIDE DEF script
<1>2. Len(script) \in Nat
  BY <1>1
<1>3. SubSeq(script, 1, Len(script)) = script
  BY <1>1
<1>k. k \in 0..Len(script)
  BY DEF script
<1> DEFINE rest(i) == SubSeq(script, i + 1, Len(script))
<1>4. \A i \in 0..Len(script) : /\ rest(i) \in Seq(S) /\ Len(rest(i)) = Len(script) - i
                                /\ \A j \in 1..(Len(script) - i) : rest(i)[j] = script[i + j]
  BY <1>1, <1>2
<1>5. rest(k) = <<>> <=> k = Len(script)
  <2>1. rest(k) \in Seq(S) /\ Len(rest(k)) = Len(script) - k
    BY <1>4, <1>k
  <2> HIDE DEF rest
  <2>2. rest(k) = <<>> <=> Len(rest(k)) = 0
    BY <2>1
  <2> QED BY <1>2, <1>k, <2>1, <2>2
<1>6. ASSUME k # Len(script)
      PROVE  /\ k + 1 \in 1..Len(script)
             /\ Head(rest(k)) = script[k + 1]
             /\ Tail(rest(k)) = rest(k + 1)
  BY <1>1, <1>2, <1>4, <1>6, <1>k
<1>7. /\ Rest(at, target, 0) = rest(0) /\ Rest(at, target, k) = rest(k)
      /\ Rest(at, target, k + 1) = rest(k + 1)
  BY DEF Rest, script
<1>8. rest(0) = script
  BY <1>2, <1>3
<1> HIDE DEF rest
<1> QED BY <1>5, <1>6, <1>7, <1>8 DEF script

-----------------------------------------------------------------------------
\* Where a running command is.
LEMMA Place ==
  ASSUME NEW j, isJob(j), onWay(j)
  PROVE  /\ j.at \in Goals /\ j.target \in Goals /\ j.from \in Goals /\ j.at # j.target
         /\ LET at == Toward(j.at, j.target) IN
              /\ at \in Goals /\ at # j.from
              /\ at # j.target => \/ j.from <= at /\ at < j.target
                                  \/ j.target < at /\ at <= j.from
BY DEF isJob, onWay, Toward, Goals, Latest

\* What a transaction sees after a statement is the statement's effect.
LEMMA SeenGrown ==
  ASSUME NEW s, NEW d, NEW st, NEW v, v = Seen(s, d)
  PROVE  Seen(s, Grown(d, st, v)) = Effect(st, v)
<1> DEFINE a == Added(st, v)
           r == Removed(st, v)
           g == Grown(d, st, v)
<1>1. /\ g.made.things = (d.made.things \ r.things) \cup a.things
      /\ g.made.refs = (d.made.refs \ r.refs) \cup a.refs
      /\ g.made.indexes = (d.made.indexes \ r.indexes) \cup a.indexes
      /\ g.gone.things = d.gone.things \cup r.things
      /\ g.gone.refs = d.gone.refs \cup r.refs
      /\ g.gone.indexes = d.gone.indexes \cup r.indexes
  <2> HIDE DEF a, r
  <2>1. g = Change(With(d.made, a, r), With(d.gone, r, Empty))
    BY DEF Grown, a, r
  <2> HIDE DEF g
  <2> QED BY <2>1 DEF Change, With, Schema, Empty
<1>2. /\ v.things = (s.things \ d.gone.things) \cup d.made.things
      /\ v.refs = (s.refs \ d.gone.refs) \cup d.made.refs
      /\ v.indexes = (s.indexes \ d.gone.indexes) \cup d.made.indexes
  BY DEF Seen, With, Schema
<1>3. Effect(st, v) = With(v, a, r)
  BY DEF Effect
<1> HIDE DEF a, r, g
<1>4. /\ (s.things \ g.gone.things) \cup g.made.things = (v.things \ r.things) \cup a.things
      /\ (s.refs \ g.gone.refs) \cup g.made.refs = (v.refs \ r.refs) \cup a.refs
      /\ (s.indexes \ g.gone.indexes) \cup g.made.indexes
           = (v.indexes \ r.indexes) \cup a.indexes
  BY <1>1, <1>2
<1> QED BY <1>3, <1>4 DEF Seen, With, Schema, g

\* A statement locks no more than what it changes.
LEMMA TouchedGrown ==
  ASSUME NEW d, NEW st, NEW v, NEW g, g = Grown(d, st, v)
  PROVE  Touches(g.made) \cup Touches(g.gone) \subseteq
           Touches(d.made) \cup Touches(d.gone)
             \cup Touches(Added(st, v)) \cup Touches(Removed(st, v))
<1> DEFINE a == Added(st, v)
           r == Removed(st, v)
<1> HIDE DEF a, r
<1>1. g = Change(With(d.made, a, r), With(d.gone, r, Empty))
  BY DEF Grown, a, r
<1>2. /\ g.made.things \subseteq d.made.things \cup a.things
      /\ g.made.refs \subseteq d.made.refs \cup a.refs
      /\ g.made.indexes \subseteq d.made.indexes \cup a.indexes
      /\ g.gone.things \subseteq d.gone.things \cup r.things
      /\ g.gone.refs \subseteq d.gone.refs \cup r.refs
      /\ g.gone.indexes \subseteq d.gone.indexes \cup r.indexes
  BY <1>1 DEF Change, With, Schema, Empty
<1>3. Touches(g.made) \subseteq Touches(d.made) \cup Touches(a)
  BY <1>2 DEF Touches
<1>4. Touches(g.gone) \subseteq Touches(d.gone) \cup Touches(r)
  BY <1>2 DEF Touches
<1> QED BY <1>3, <1>4 DEF a, r

\* A commit leaves alone what another transaction has touched.
LEMMA OthersFit ==
  ASSUME NEW s, NEW d, Fits(d, s), NEW c,
         (Touches(d.made) \cup Touches(d.gone)) \cap (Touches(c.made) \cup Touches(c.gone)) = {}
  PROVE  Fits(d, Seen(s, c))
<1> DEFINE t == Seen(s, c)
<1>1. /\ t.things = (s.things \ c.gone.things) \cup c.made.things
      /\ t.refs = (s.refs \ c.gone.refs) \cup c.made.refs
      /\ t.indexes = (s.indexes \ c.gone.indexes) \cup c.made.indexes
  BY DEF Seen, With, Schema
<1> HIDE DEF t
<1>2. d.gone.things \cap c.gone.things = {} /\ d.made.things \cap c.made.things = {}
  BY DEF Touches
<1>3. d.gone.refs \cap c.gone.refs = {} /\ d.made.refs \cap c.made.refs = {}
  BY DEF Touches
<1>4. d.gone.indexes \cap c.gone.indexes = {} /\ d.made.indexes \cap c.made.indexes = {}
  BY DEF Touches
<1>5. Fits(d, t)
  BY <1>1, <1>2, <1>3, <1>4 DEF Fits
<1> QED BY <1>5 DEF t

-----------------------------------------------------------------------------
\* Beginning a script with nothing changed, or at the version just reached.
LEMMA BeginsScript ==
  ASSUME NEW j, isJob(j), onWay(j), NEW s, NEW v, j.todo = Script(j.at, j.target),
         j.at = j.from => changeOf(j) = Change(Empty, Empty),
         v = j.from, Seen(s, changeOf(j)) = Built[j.at]
  PROVE  halfway(j, s, v)
<1>1. j.at \in Goals /\ j.target \in Goals /\ j.at # j.target
  BY Place
<1>2. Leads(j.at, j.target) /\ Withstands(j.at, j.target)
  BY <1>1, RevisionsFit
<1>3. 0 \in 0..Len(Script(j.at, j.target))
  <2>1. PICK S : Script(j.at, j.target) \in Seq(S)
    BY <1>2 DEF Leads
  <2> QED BY <2>1
<1>4. j.todo = Rest(j.at, j.target, 0)
  BY <1>1, <1>3, RestOfScript
<1>5. Seen(s, changeOf(j)) = Reached(j.at, j.target, 0)
  BY <1>2 DEF Leads
<1>6. ASSUME j.at = j.from
      PROVE  changeOf(j) \in Changes(j.at, j.target, 0) /\ Fits(changeOf(j), s)
  <2>1. changeOf(j) = Change(Empty, Empty)
    BY <1>6
  <2>2. Fits(Change(Empty, Empty), s)
    BY DEF Fits, Change, Empty, Schema
  <2> QED BY <1>2, <2>1, <2>2 DEF Withstands
<1> QED BY <1>3, <1>4, <1>5, <1>6 DEF halfway, after

\* With nothing left to do, and the version that the command read still in the
\* row, it sees the schema of the next version.
LEMMA EndsScript ==
  ASSUME NEW j, isJob(j), NEW s, NEW v, halfway(j, s, v), j.todo = <<>>,
         v = j.from, s = Built[v]
  PROVE  Seen(s, changeOf(j)) = Built[Toward(j.at, j.target)]
<1>1. PICK k \in 0..Len(Script(j.at, j.target)) : after(j, k, s, v)
  BY DEF halfway
<1>2. j.at \in Goals /\ j.target \in Goals /\ j.at # j.target
  BY Place DEF halfway
<1>3. k = Len(Script(j.at, j.target))
  BY <1>1, <1>2, RestOfScript DEF after
<1>4. Leads(j.at, j.target) /\ Withstands(j.at, j.target)
  BY <1>2, RevisionsFit
<1>5. CASE j.at = j.from
  <2>1. /\ changeOf(j) \in Changes(j.at, j.target, Len(Script(j.at, j.target)))
        /\ Fits(changeOf(j), Built[j.at]) /\ s = Built[j.at]
    BY <1>1, <1>3, <1>5 DEF after
  <2> QED BY <1>4, <2>1, Zenon DEF Withstands
<1>6. CASE j.at # j.from
  BY <1>1, <1>3, <1>4, <1>6 DEF Leads, after
<1> QED BY <1>5, <1>6

\* One more statement done.
LEMMA GoesOn ==
  ASSUME NEW j, isJob(j), NEW v \in Goals, NEW s, s = Built[v], halfway(j, s, v),
         j.todo # <<>>, NEW rows \in BOOLEAN,
         Accepted(Head(j.todo), Seen(s, changeOf(j)), rows),
         NEW i, isJob(i), i.from = j.from, i.at = j.at, i.target = j.target,
         i.overtaken = j.overtaken, i.todo = Tail(j.todo),
         changeOf(i) = Grown(changeOf(j), Head(j.todo), Seen(s, changeOf(j)))
  PROVE  halfway(i, s, v)
<1> DEFINE script == Script(j.at, j.target)
           d == changeOf(j)
<1>1. PICK k \in 0..Len(script) : after(j, k, s, v)
  BY DEF halfway
<1>2. j.at \in Goals /\ j.target \in Goals /\ j.at # j.target
  BY Place DEF halfway
<1>3. /\ k + 1 \in 1..Len(script) /\ Head(j.todo) = script[k + 1]
      /\ Tail(j.todo) = Rest(j.at, j.target, k + 1)
  BY <1>1, <1>2, RestOfScript DEF after
<1>4. Leads(j.at, j.target) /\ Withstands(j.at, j.target)
  BY <1>2, RevisionsFit
<1>5. (k + 1) - 1 = k /\ k + 1 \in 0..Len(script)
  <2> HIDE DEF script
  <2> QED BY <1>1, <1>3
<1>6. ASSUME j.at = j.from
      PROVE  changeOf(i) \in Changes(i.at, i.target, k + 1) /\ Fits(changeOf(i), s)
  <2>1. d \in Changes(j.at, j.target, k) /\ Fits(d, Built[v])
    BY <1>1, <1>6 DEF after
  <2>2. Accepted(script[k + 1], Seen(Built[v], d), rows)
    BY <1>3
  <2>3. /\ Grown(d, script[k + 1], Seen(Built[v], d)) \in Changes(j.at, j.target, k + 1)
        /\ Fits(Grown(d, script[k + 1], Seen(Built[v], d)), Built[v])
    BY <1>3, <1>4, <1>5, <2>1, <2>2, Zenon DEF Withstands
  <2> QED BY <1>3, <2>3
<1>7. ASSUME j.at # j.from \/ ~j.overtaken
      PROVE  v = i.from /\ Seen(s, changeOf(i)) = Reached(i.at, i.target, k + 1)
  <2>1. v = j.from /\ Seen(s, d) = Reached(j.at, j.target, k)
    BY <1>1, <1>7 DEF after
  <2>2. Seen(s, changeOf(i)) = Effect(Head(j.todo), Seen(s, d))
    BY SeenGrown
  <2>3. Reached(j.at, j.target, k + 1) = Effect(script[k + 1], Reached(j.at, j.target, k))
    BY <1>3, <1>4, <1>5, Zenon DEF Leads
  <2> QED BY <1>3, <2>1, <2>2, <2>3
<1>8. after(i, k + 1, s, v)
  BY <1>3, <1>6, <1>7 DEF after
<1> QED BY <1>5, <1>8 DEF halfway, onWay

\* Of a command that nobody has overtaken PostgreSQL accepts the next
\* statement, unless it is the foreign key and there are rows.
LEMMA AcceptedInOrder ==
  ASSUME NEW j, isJob(j), NEW s, NEW v, halfway(j, s, v), j.todo # <<>>, ~j.overtaken
  PROVE  /\ Accepted(Head(j.todo), Seen(s, changeOf(j)), FALSE)
         /\ <<Head(j.todo)>> # AddForeignKey(assignedWorker) =>
              Accepted(Head(j.todo), Seen(s, changeOf(j)), TRUE)
<1> DEFINE script == Script(j.at, j.target)
<1>1. PICK k \in 0..Len(script) : after(j, k, s, v)
  BY DEF halfway
<1>2. j.at \in Goals /\ j.target \in Goals /\ j.at # j.target
  BY Place DEF halfway
<1>3. k + 1 \in 1..Len(script) /\ Head(j.todo) = script[k + 1]
  BY <1>1, <1>2, RestOfScript DEF after
<1>4. Leads(j.at, j.target)
  BY <1>2, RevisionsFit
<1>5. (k + 1) - 1 = k
  <2> HIDE DEF script
  <2> QED BY <1>1, <1>3
<1>6. Seen(s, changeOf(j)) = Reached(j.at, j.target, k)
  BY <1>1 DEF after
<1>7. /\ Accepted(script[k + 1], Reached(j.at, j.target, k), FALSE)
      /\ <<script[k + 1]>> # AddForeignKey(assignedWorker) =>
           Accepted(script[k + 1], Reached(j.at, j.target, k), TRUE)
  BY <1>3, <1>4, <1>5, Zenon DEF Leads
<1> QED BY <1>3, <1>6, <1>7

refused(todo) == [Idle EXCEPT !.phase = "refused", !.todo = todo]

\* An idle job, and one whose transaction was refused.
LEMMA IdleJobs ==
  /\ isJob(Idle) /\ Idle.phase = "idle"
  /\ \A todo : isJob(refused(todo)) /\ refused(todo).phase = "refused"
<1>1. 0 \in Goals
  BY DEF Goals, Latest
<1>2. isJob(Idle) /\ Idle.phase = "idle"
  BY <1>1 DEF isJob, Idle
<1>3. ASSUME NEW todo, NEW j, j = [Idle EXCEPT !.phase = "refused", !.todo = todo]
      PROVE  isJob(j) /\ j.phase = "refused"
  <2>1. j = [phase |-> "refused", from |-> 0, at |-> 0, target |-> 0, todo |-> todo,
             made |-> Empty, gone |-> Empty, overtaken |-> FALSE]
    BY <1>3 DEF Idle
  <2> QED BY <1>1, <2>1 DEF isJob
<1> QED BY <1>2, <1>3, Zenon DEF refused

\* A job after a statement, at the next revision, and when another commits.
executed(j, todo, made, gone) == [j EXCEPT !.todo = todo, !.made = made, !.gone = gone]
advanced(j, at, todo) == [j EXCEPT !.at = at, !.todo = todo]
passed(j, b) == [j EXCEPT !.overtaken = b]

\* A statement changes what is left to do and what has changed.
LEMMA Executed ==
  ASSUME NEW j, isJob(j), NEW todo, NEW made, NEW gone, NEW i, i = executed(j, todo, made, gone)
  PROVE  /\ isJob(i) /\ i.phase = j.phase /\ i.from = j.from /\ i.at = j.at
         /\ i.target = j.target /\ i.todo = todo /\ i.made = made /\ i.gone = gone
         /\ i.overtaken = j.overtaken
BY DEF isJob, executed

\* The next revision changes the version reached and what is left to do.
LEMMA Advanced ==
  ASSUME NEW j, isJob(j), NEW at \in Goals, NEW todo, NEW i, i = advanced(j, at, todo)
  PROVE  /\ isJob(i) /\ i.phase = j.phase /\ i.from = j.from /\ i.at = at
         /\ i.target = j.target /\ i.todo = todo /\ i.made = j.made /\ i.gone = j.gone
BY DEF isJob, advanced

\* The commit of another command changes the history alone.
LEMMA Passed ==
  ASSUME NEW j, isJob(j), NEW b \in BOOLEAN, NEW i, i = passed(j, b)
  PROVE  /\ isJob(i) /\ i.phase = j.phase /\ i.from = j.from /\ i.at = j.at
         /\ i.target = j.target /\ i.todo = j.todo /\ i.made = j.made /\ i.gone = j.gone
         /\ i.overtaken = b
BY DEF isJob, passed

becomes(m, j) == job' = [job EXCEPT ![m] = j]

\* The job of one migrator is replaced, that of another stays.
LEMMA JobAfter ==
  ASSUME JobsOK, NEW m \in Migrators, NEW q \in Migrators, NEW j, becomes(q, j)
  PROVE  job'[m] = IF m = q THEN j ELSE job[m]
BY DEF JobsOK, becomes

\* Replacing the job of one migrator keeps the others as they are.
LEMMA ReplacesJob ==
  ASSUME JobsOK, NEW m \in Migrators, NEW j, isJob(j), becomes(m, j),
         UNCHANGED <<version, schema>>,
         j.phase = "running" =>
           /\ halfway(j, schema, version)
           /\ \A q \in Migrators \ {m} : job[q].phase = "running" => apart(j, job[q])
  PROVE  JobsOK'
<1>1. job' = [q \in Migrators |-> IF q = m THEN j ELSE job[q]]
  BY DEF JobsOK, becomes
<1>2. \A q \in Migrators : job'[q] = IF q = m THEN j ELSE job[q]
  BY <1>1, Zenon
<1>3. job' = [q \in Migrators |-> job'[q]]
  BY <1>1, <1>2, Zenon
<1>4. ASSUME NEW q \in Migrators
      PROVE  /\ isJob(job'[q])
             /\ job'[q].phase = "running" => halfway(job'[q], schema', version')
  BY <1>2 DEF JobsOK
<1>5. ASSUME NEW p \in Migrators, NEW q \in Migrators, p # q,
             job'[p].phase = "running", job'[q].phase = "running"
      PROVE  apart(job'[p], job'[q])
  <2>1. CASE p = m
    BY <1>2, <1>5, <2>1
  <2>2. CASE q = m
    <3>1. apart(j, job[p])
      BY <1>2, <1>5, <2>2
    <3> QED BY <1>2, <1>5, <2>2, <3>1 DEF apart
  <2>3. CASE p # m /\ q # m
    BY <1>2, <1>5, <2>3 DEF JobsOK
  <2> QED BY <2>1, <2>2, <2>3
<1> QED BY <1>3, <1>4, <1>5 DEF JobsOK

\* A command begins at the schema of the version it reads.
LEMMA StartKeeps ==
  ASSUME MigrationIInv, NEW m \in Migrators, NEW target \in Goals, Start(m, target)
  PROVE  MigrationIInv'
<1> DEFINE j == [phase |-> "running", from |-> version, at |-> version, target |-> target,
                 todo |-> Script(version, target),
                 made |-> Empty, gone |-> Empty, overtaken |-> FALSE]
<1>1. /\ becomes(m, j) /\ target # version /\ version \in Goals
      /\ schema = Built[version] /\ UNCHANGED <<version, schema, assigned>>
  BY DEF Start, MigrationIInv, CommittedOK, becomes
<1>2. /\ isJob(j) /\ j.at = version /\ j.from = version /\ j.target = target
      /\ j.todo = Script(version, target) /\ j.made = Empty /\ j.gone = Empty
  BY <1>1 DEF isJob
<1> HIDE DEF j
<1>3. onWay(j)
  BY <1>1, <1>2 DEF onWay, Goals, Latest
<1>4. changeOf(j) = Change(Empty, Empty) /\ Seen(schema, changeOf(j)) = Built[version]
  <2>1. With(Built[version], Empty, Empty) = Built[version]
    BY <1>1, RevisionsFit
  <2> QED BY <1>1, <1>2, <2>1 DEF changeOf, Change, Seen
<1>5. halfway(j, schema, version)
  BY <1>2, <1>3, <1>4, BeginsScript
<1>6. \A q \in Migrators : apart(j, job[q])
  BY <1>2 DEF apart, touched, Touches, Empty, Schema
<1>7. JobsOK'
  BY <1>1, <1>2, <1>5, <1>6, ReplacesJob DEF MigrationIInv
<1> QED BY <1>1, <1>7 DEF MigrationIInv, CommittedOK

\* What a command sees, and its locks, in the terms of its job.
LEMMA SeenByJob ==
  ASSUME NEW m \in Migrators
  PROVE  /\ View(m) = Seen(schema, changeOf(job[m]))
         /\ Locks(m) = touched(job[m])
         /\ Rows(m) \in BOOLEAN /\ (Rows(m) => assigned)
<1>1. View(m) = Seen(schema, changeOf(job[m])) /\ Locks(m) = touched(job[m])
  BY DEF View, Seen, changeOf, Change, Locks, touched
<1>2. Rows(m) \in BOOLEAN /\ (Rows(m) => assigned)
  BY Zenon DEF Rows
<1> QED BY <1>1, <1>2

\* A refusal ends the transaction and nothing else.
LEMMA RefuseKeeps ==
  ASSUME MigrationIInv, NEW m \in Migrators, NEW todo, Refuse(m, todo)
  PROVE  MigrationIInv'
<1>1. becomes(m, refused(todo)) /\ UNCHANGED <<version, schema, assigned>>
  BY DEF Refuse, becomes, refused
<1>2. JobsOK'
  BY <1>1, IdleJobs, ReplacesJob DEF MigrationIInv
<1> QED BY <1>1, <1>2 DEF MigrationIInv, CommittedOK

\* The next statement, accepted or refused.
LEMMA ExecuteKeeps ==
  ASSUME MigrationIInv, NEW m \in Migrators, Execute(m)
  PROVE  MigrationIInv'
<1> DEFINE j == job[m]
           st == Head(j.todo)
           d == changeOf(j)
           v == Seen(schema, d)
           g == Grown(d, st, v)
           next == executed(j, Tail(j.todo), g.made, g.gone)
<1>0. /\ isJob(j) /\ halfway(j, schema, version) /\ j.todo # <<>> /\ j.phase = "running"
      /\ version \in Goals /\ schema = Built[version]
  BY DEF MigrationIInv, JobsOK, CommittedOK, Execute, Running
<1>1. View(m) = v /\ Rows(m) \in BOOLEAN
  BY SeenByJob
<1>2. CASE Refuse(m, <<st>>)
  BY <1>2, RefuseKeeps
<1>3. CASE ~Refuse(m, <<st>>)
  <2>1. Accepted(st, v, Rows(m)) /\ LocksFree(m, st)
    BY <1>1, <1>3 DEF Execute
  <2>2. /\ g.made = With(j.made, Added(st, v), Removed(st, v))
        /\ g.gone = With(j.gone, Removed(st, v), Empty)
    BY DEF Grown, Change, changeOf
  <2>3. becomes(m, next) /\ UNCHANGED <<version, schema, assigned>>
    BY <1>1, <1>3, <2>2 DEF Execute, becomes, executed
  <2>4. /\ isJob(next) /\ next.from = j.from /\ next.at = j.at /\ next.target = j.target
        /\ next.todo = Tail(j.todo) /\ next.made = g.made /\ next.gone = g.gone
        /\ next.overtaken = j.overtaken
    BY <1>0, Executed
  <2>5. changeOf(next) = g
    BY <2>4 DEF changeOf, Change, Grown
  <2> HIDE DEF next
  <2>6. halfway(next, schema, version)
    BY <1>0, <1>1, <2>1, <2>4, <2>5, GoesOn
  <2>7. ASSUME NEW q \in Migrators \ {m}, job[q].phase = "running" PROVE apart(next, job[q])
    <3>1. apart(j, job[q])
      BY <1>0, <2>7 DEF MigrationIInv, JobsOK
    <3>2. touched(next) \subseteq touched(j) \cup Touches(Added(st, v)) \cup Touches(Removed(st, v))
      <4>1. touched(next) = Touches(g.made) \cup Touches(g.gone)
        BY <2>4 DEF touched
      <4>2. touched(j) = Touches(d.made) \cup Touches(d.gone)
        BY DEF touched, changeOf, Change
      <4> HIDE DEF g, d, v, st
      <4> QED BY <4>1, <4>2, TouchedGrown DEF g
    <3>3. touched(job[q]) \cap (Touches(Added(st, v)) \cup Touches(Removed(st, v))) = {}
      BY <1>1, <2>1, <2>7, SeenByJob DEF LocksFree, Running
    <3> QED BY <2>4, <3>1, <3>2, <3>3 DEF apart
  <2>8. JobsOK'
    BY <2>3, <2>4, <2>6, <2>7, ReplacesJob DEF MigrationIInv
  <2> QED BY <2>3, <2>8 DEF MigrationIInv, CommittedOK
<1> QED BY <1>2, <1>3

\* The next revision begins at the schema the last one made, and with the
\* version row locked.
LEMMA NextRevisionKeeps ==
  ASSUME MigrationIInv, NEW m \in Migrators, NextRevision(m)
  PROVE  MigrationIInv'
<1> DEFINE j == job[m]
           at == Toward(j.at, j.target)
           next == advanced(j, at, Script(at, j.target))
<1>0. /\ isJob(j) /\ halfway(j, schema, version) /\ j.todo = <<>> /\ version = j.from
      /\ version \in Goals /\ schema = Built[version]
  BY DEF MigrationIInv, JobsOK, CommittedOK, NextRevision, RevisionDone, Running,
         VersionRowMatches
<1>1. becomes(m, next) /\ at # j.target /\ UNCHANGED <<version, schema, assigned>>
  BY DEF NextRevision, becomes, advanced
<1>2. /\ at \in Goals /\ at # j.from
      /\ (j.from <= at /\ at < j.target) \/ (j.target < at /\ at <= j.from)
  BY <1>0, <1>1, Place DEF halfway
<1>3. Seen(schema, changeOf(j)) = Built[at]
  BY <1>0, EndsScript
<1> HIDE DEF at
<1>4. /\ isJob(next) /\ next.from = j.from /\ next.at = at /\ next.target = j.target
      /\ next.todo = Script(at, j.target) /\ next.made = j.made /\ next.gone = j.gone
  BY <1>0, <1>2, Advanced
<1> HIDE DEF next
<1>5. onWay(next) /\ changeOf(next) = changeOf(j) /\ touched(next) = touched(j)
  BY <1>2, <1>4 DEF onWay, changeOf, touched
<1>6. halfway(next, schema, version)
  BY <1>0, <1>2, <1>3, <1>4, <1>5, BeginsScript
<1>7. ASSUME NEW q \in Migrators \ {m}, job[q].phase = "running" PROVE apart(next, job[q])
  <2>1. apart(j, job[q])
    BY <1>7 DEF MigrationIInv, JobsOK, NextRevision, RevisionDone, Running
  <2>2. job[q].at = job[q].from
    BY <1>7 DEF NextRevision, RevisionDone, VersionRowFree, HoldsVersionRow, Running
  <2> QED BY <1>5, <2>1, <2>2 DEF apart
<1>8. JobsOK'
  BY <1>1, <1>4, <1>6, <1>7, ReplacesJob DEF MigrationIInv
<1> QED BY <1>1, <1>8 DEF MigrationIInv, CommittedOK

\* A command that another one overtakes keeps what it has changed.
LEMMA OvertakenKeeps ==
  ASSUME NEW j, isJob(j), NEW s, NEW v, halfway(j, s, v), j.at = j.from,
         NEW c, touched(j) \cap (Touches(c.made) \cup Touches(c.gone)) = {},
         NEW i, i = passed(j, TRUE), NEW w
  PROVE  halfway(i, Seen(s, c), w)
<1>1. PICK k \in 0..Len(Script(j.at, j.target)) : after(j, k, s, v)
  BY DEF halfway
<1>2. /\ i.from = j.from /\ i.at = j.at /\ i.target = j.target /\ i.todo = j.todo
      /\ i.made = j.made /\ i.gone = j.gone /\ i.overtaken = TRUE
  BY Passed
<1>3. changeOf(i) = changeOf(j)
  BY <1>2 DEF changeOf
<1>4. Fits(changeOf(j), Seen(s, c))
  <2>1. touched(j) = Touches(changeOf(j).made) \cup Touches(changeOf(j).gone)
    BY DEF touched, changeOf, Change
  <2> QED BY <1>1, <2>1, OthersFit DEF after
<1>5. after(i, k, Seen(s, c), w)
  BY <1>1, <1>2, <1>3, <1>4 DEF after
<1> QED BY <1>2, <1>5 DEF halfway, onWay

\* The commit installs the schema of the version that it records.
LEMMA CommitKeeps ==
  ASSUME MigrationIInv, NEW m \in Migrators, Commit(m)
  PROVE  MigrationIInv'
<1> DEFINE j == job[m]
           d == changeOf(j)
<1>0. /\ isJob(j) /\ halfway(j, schema, version) /\ j.todo = <<>> /\ version = j.from
      /\ version \in Goals /\ schema = Built[version] /\ j.phase = "running"
  BY DEF MigrationIInv, JobsOK, CommittedOK, Commit, RevisionDone, Running, VersionRowMatches
<1>1. /\ version' = j.target /\ Toward(j.at, j.target) = j.target
      /\ schema' = View(m) /\ assigned' = Rows(m)
  BY DEF Commit
<1>2. schema' = Seen(schema, d) /\ View(m) = Seen(schema, d)
  BY <1>1, SeenByJob
<1>3. schema' = Built[version'] /\ version' \in Goals
  BY <1>0, <1>1, <1>2, EndsScript DEF isJob
<1>4. assigned' \in BOOLEAN /\ (assigned' => "runs" \in schema'.things)
  BY <1>1 DEF Rows, MigrationIInv, CommittedOK
<1>5. /\ \A q \in Migrators : job'[q] = IF q = m THEN Idle ELSE passed(job[q], Running(q))
      /\ job' = [q \in Migrators |-> job'[q]]
  <2>1. job' = [q \in Migrators |->
                  IF q = m THEN Idle ELSE [job[q] EXCEPT !.overtaken = Running(q)]]
    BY DEF Commit
  <2>2. \A q \in Migrators :
          job'[q] = IF q = m THEN Idle ELSE [job[q] EXCEPT !.overtaken = Running(q)]
    BY <2>1, Zenon
  <2>3. job' = [q \in Migrators |-> job'[q]]
    BY <2>1, Zenon
  <2> QED BY <2>2, <2>3, Zenon DEF passed
<1>6. ASSUME NEW q \in Migrators
      PROVE  /\ isJob(job'[q]) /\ (q = m => job'[q].phase # "running")
             /\ q # m => /\ job'[q].phase = job[q].phase /\ touched(job'[q]) = touched(job[q])
                         /\ job'[q].at = job[q].at /\ job'[q].from = job[q].from
  <2>1. CASE q = m
    BY <1>5, <2>1, IdleJobs
  <2>2. CASE q # m
    <3>1. isJob(job[q]) /\ Running(q) \in BOOLEAN /\ job'[q] = passed(job[q], Running(q))
      BY <1>5, <2>2 DEF MigrationIInv, JobsOK, Running
    <3> QED BY <2>2, <3>1, Passed DEF touched
  <2> QED BY <2>1, <2>2
<1>7. ASSUME NEW q \in Migrators, job'[q].phase = "running"
      PROVE  halfway(job'[q], schema', version')
  <2>1. q # m /\ job[q].phase = "running"
    BY <1>6, <1>7
  <2>2. isJob(job[q]) /\ halfway(job[q], schema, version) /\ apart(j, job[q])
    BY <1>0, <2>1 DEF MigrationIInv, JobsOK
  <2>3. job[q].at = job[q].from
    BY <2>1 DEF Commit, RevisionDone, VersionRowFree, HoldsVersionRow, Running
  <2>4. touched(job[q]) \cap (Touches(d.made) \cup Touches(d.gone)) = {}
    BY <2>2 DEF apart, touched, changeOf, Change
  <2>5. job'[q] = passed(job[q], TRUE)
    BY <1>5, <2>1 DEF Running
  <2> HIDE DEF d
  <2>6. halfway(job'[q], Seen(schema, d), version')
    BY <2>2, <2>3, <2>4, <2>5, OvertakenKeeps
  <2> QED BY <1>2, <2>6
<1>8. ASSUME NEW p \in Migrators, NEW q \in Migrators, p # q,
             job'[p].phase = "running", job'[q].phase = "running"
      PROVE  apart(job'[p], job'[q])
  <2>1. apart(job[p], job[q])
    BY <1>6, <1>8 DEF MigrationIInv, JobsOK
  <2> QED BY <1>6, <1>8, <2>1 DEF apart
<1>9. JobsOK'
  BY <1>5, <1>6, <1>7, <1>8 DEF JobsOK
<1> QED BY <1>3, <1>4, <1>9 DEF MigrationIInv, CommittedOK

\* Every step keeps the invariant.
LEMMA StepMigrations == MigrationIInv /\ [Next]_vars => MigrationIInv'
<1> SUFFICES ASSUME MigrationIInv, [Next]_vars PROVE MigrationIInv'
  OBVIOUS
<1>1. ASSUME NEW m \in Migrators, NEW target \in Goals, Start(m, target) PROVE MigrationIInv'
  BY <1>1, StartKeeps
<1>2. ASSUME NEW m \in Migrators, Execute(m) \/ NextRevision(m) \/ Commit(m)
      PROVE  MigrationIInv'
  BY <1>2, ExecuteKeeps, NextRevisionKeeps, CommitKeeps
<1>3. ASSUME NEW m \in Migrators, VersionRowLost(m) PROVE MigrationIInv'
  BY <1>3, RefuseKeeps DEF VersionRowLost
<1>4. ASSUME NEW m \in Migrators, Rollback(m) PROVE MigrationIInv'
  <2>1. becomes(m, Idle) /\ UNCHANGED <<version, schema, assigned>>
    BY <1>4 DEF Rollback, becomes
  <2>2. JobsOK'
    BY <2>1, IdleJobs, ReplacesJob DEF MigrationIInv
  <2> QED BY <2>1, <2>2 DEF MigrationIInv, CommittedOK
<1>5. CASE AssignWorker
  <2>1. Latest \in Goals /\ "runs" \in Built[Latest].things
    BY RevisionsFit DEF Goals, Latest
  <2> QED BY <1>5, <2>1 DEF AssignWorker, MigrationIInv, CommittedOK, JobsOK
<1>6. CASE UNCHANGED vars
  BY <1>6 DEF vars, MigrationIInv, CommittedOK, JobsOK
<1> QED BY <1>1, <1>2, <1>3, <1>4, <1>5, <1>6 DEF Next

-----------------------------------------------------------------------------
\* The inductive invariant holds in every reachable state.
THEOREM MigrationsInvariant == Spec => []MigrationIInv
BY InitMigrations, StepMigrations, PTL DEF Spec

\* However many commands overlap, are refused or die, the schema is the one
\* of the recorded version.
THEOREM SchemaOfVersion == Spec => []SchemaMatchesVersion
<1>1. MigrationIInv => SchemaMatchesVersion
  BY DEF MigrationIInv, CommittedOK, SchemaMatchesVersion
<1> QED BY <1>1, MigrationsInvariant, PTL

\* At the head the database is the one that models.py maps.
THEOREM HeadIsModels == Spec => []HeadServesModels
<1>1. MigrationIInv => HeadServesModels
  BY RevisionsFit DEF MigrationIInv, CommittedOK, HeadServesModels
<1> QED BY <1>1, MigrationsInvariant, PTL

\* Versions are in range, and no reference, index or assigned worker outlives
\* the table it belongs to.
THEOREM MigrationTypes == Spec => []MigrationTypeOK
<1>1. MigrationIInv => MigrationTypeOK
  <2> SUFFICES ASSUME MigrationIInv PROVE MigrationTypeOK
    OBVIOUS
  <2>1. WellFormed(schema)
    BY RevisionsFit DEF MigrationIInv, CommittedOK
  <2>2. \A m \in Migrators :
          /\ job[m].phase \in {"idle", "running", "refused"}
          /\ {job[m].from, job[m].at, job[m].target} \subseteq Goals
    BY DEF MigrationIInv, JobsOK, isJob
  <2> QED BY <2>1, <2>2 DEF MigrationTypeOK, MigrationIInv, CommittedOK, WellFormed
<1> QED BY <1>1, MigrationsInvariant, PTL

\* A command that nobody has overtaken finds its version row, and a statement
\* of it that is refused is the foreign key, refused for its rows.
LEMMA RefusalInOrder ==
  ASSUME MigrationIInv, NEW m \in Migrators, job[m].phase = "running", ~job[m].overtaken
  PROVE  /\ version = job[m].from
         /\ job[m].todo # <<>> /\ ~Accepted(Head(job[m].todo), View(m), Rows(m)) =>
              assigned /\ <<Head(job[m].todo)>> = AddForeignKey(assignedWorker)
<1> DEFINE st == Head(job[m].todo)
<1>1. isJob(job[m]) /\ halfway(job[m], schema, version)
  BY DEF MigrationIInv, JobsOK
<1>2. version = job[m].from
  BY <1>1 DEF halfway, after
<1>3. ASSUME job[m].todo # <<>>, ~Accepted(st, View(m), Rows(m))
      PROVE  assigned /\ <<st>> = AddForeignKey(assignedWorker)
  <2>1. /\ Accepted(st, View(m), FALSE)
        /\ <<st>> # AddForeignKey(assignedWorker) => Accepted(st, View(m), TRUE)
    BY <1>1, <1>3, AcceptedInOrder, SeenByJob
  <2>2. Rows(m) \in BOOLEAN /\ (Rows(m) => assigned)
    BY SeenByJob
  <2>3. Rows(m) = TRUE
    <3> SUFFICES ASSUME Rows(m) = FALSE PROVE FALSE
      BY <2>2
    <3> QED BY <1>3, <2>1, Zenon
  <2> QED BY <1>3, <2>1, <2>2, <2>3, Zenon
<1> QED BY <1>2, <1>3

\* A command that no other has overtaken is refused only the foreign key of
\* 0005, and only for run rows that still name workers.
THEOREM Refusals == Spec => RefusedOnlyForOrphans
<1> DEFINE refusal(m) == Running(m) /\ job'[m].phase = "refused"
           excuse(m) == \/ job[m].overtaken
                        \/ assigned /\ job[m].todo # <<>>
                             /\ <<Head(job[m].todo)>> = AddForeignKey(assignedWorker)
<1>1. ASSUME MigrationIInv, Next, NEW m \in Migrators, refusal(m) PROVE excuse(m)
  <2>0. JobsOK /\ isJob(job[m]) /\ job[m].phase = "running"
    BY <1>1 DEF MigrationIInv, JobsOK, Running
  <2>1. ASSUME NEW q \in Migrators, NEW j, becomes(q, j), m # q \/ j.phase # "refused"
        PROVE  FALSE
    <3>1. job'[m] = IF m = q THEN j ELSE job[m]
      BY <2>0, <2>1, JobAfter
    <3> QED BY <1>1, <2>0, <2>1, <3>1
  <2>2. ASSUME NEW q \in Migrators, NEW todo, Refuse(q, todo) PROVE q = m
    BY <2>1, <2>2 DEF Refuse, becomes
  <2>3. ASSUME NEW q \in Migrators, NEW target \in Goals, Start(q, target) PROVE excuse(m)
    <3> DEFINE j == [phase |-> "running", from |-> version, at |-> version, target |-> target,
                     todo |-> Script(version, target),
                     made |-> Empty, gone |-> Empty, overtaken |-> FALSE]
    <3>1. becomes(q, j) /\ j.phase # "refused"
      BY <2>3 DEF Start, becomes
    <3> HIDE DEF j
    <3> QED BY <2>1, <3>1
  <2>4. ASSUME NEW q \in Migrators, Execute(q) PROVE excuse(m)
    <3> DEFINE st == Head(job[q].todo)
    <3>1. CASE Refuse(q, <<st>>) /\ ~Accepted(st, View(q), Rows(q))
      <4>1. q = m
        BY <2>2, <3>1
      <4>2. job[m].todo # <<>>
        BY <2>4, <4>1 DEF Execute
      <4> QED BY <1>1, <2>0, <3>1, <4>1, <4>2, RefusalInOrder
    <3>2. CASE ~(Refuse(q, <<st>>) /\ ~Accepted(st, View(q), Rows(q)))
      <4> DEFINE made == With(job[q].made, Added(st, View(q)), Removed(st, View(q)))
                 gone == With(job[q].gone, Removed(st, View(q)), Empty)
                 next == executed(job[q], Tail(job[q].todo), made, gone)
      <4>1. becomes(q, next)
        BY <2>4, <3>2 DEF Execute, becomes, executed
      <4>2. isJob(job[q]) /\ job[q].phase = "running"
        BY <2>0, <2>4 DEF JobsOK, Execute, Running
      <4> HIDE DEF made, gone
      <4>3. next.phase = "running"
        BY <4>2, Executed
      <4> HIDE DEF next
      <4> QED BY <2>1, <4>1, <4>3
    <3> QED BY <3>1, <3>2
  <2>5. ASSUME NEW q \in Migrators, NextRevision(q) PROVE excuse(m)
    <3> DEFINE at == Toward(job[q].at, job[q].target)
               next == advanced(job[q], at, Script(at, job[q].target))
    <3>1. becomes(q, next)
      BY <2>5 DEF NextRevision, becomes, advanced
    <3>2. isJob(job[q]) /\ job[q].phase = "running"
      BY <2>0, <2>5 DEF JobsOK, NextRevision, RevisionDone, Running
    <3>3. next.phase = "running"
      BY <3>2 DEF advanced, isJob
    <3> HIDE DEF next
    <3> QED BY <2>1, <3>1, <3>3
  <2>6. ASSUME NEW q \in Migrators, VersionRowLost(q) PROVE excuse(m)
    <3>1. q = m
      BY <2>2, <2>6 DEF VersionRowLost
    <3>2. version # job[m].from
      BY <2>6, <3>1 DEF VersionRowLost, VersionRowMatches
    <3> QED BY <1>1, <2>0, <3>2, RefusalInOrder
  <2>7. ASSUME NEW q \in Migrators, Commit(q) PROVE excuse(m)
    <3>1. job' = [p \in Migrators |->
                    IF p = q THEN Idle ELSE [job[p] EXCEPT !.overtaken = Running(p)]]
      BY <2>7 DEF Commit
    <3>2. job'[m] = IF m = q THEN Idle ELSE passed(job[m], Running(m))
      BY <3>1, Zenon DEF passed
    <3>3. passed(job[m], Running(m)).phase = "running"
      BY <2>0, Passed DEF Running
    <3> QED BY <1>1, <3>2, <3>3, IdleJobs
  <2>8. ASSUME NEW q \in Migrators, Rollback(q) PROVE excuse(m)
    <3>1. becomes(q, Idle) /\ Idle.phase # "refused"
      BY <2>8, IdleJobs DEF Rollback, becomes
    <3> QED BY <2>1, <3>1
  <2>9. CASE AssignWorker
    BY <1>1, <2>0, <2>9 DEF AssignWorker
  <2> QED BY <1>1, <2>3, <2>4, <2>5, <2>6, <2>7, <2>8, <2>9 DEF Next
<1>2. ASSUME MigrationIInv, [Next]_vars
      PROVE  [\A m \in Migrators : refusal(m) => excuse(m)]_vars
  BY <1>1, <1>2
<1> QED BY <1>2, MigrationsInvariant, PTL DEF Spec, RefusedOnlyForOrphans
=============================================================================
