----------------------------- MODULE MCRunLists -----------------------------
(* An instance of RunLists for TLC: pairs of runs created at the same time, *)
(* one without the second metric, equal and increasing final values.        *)
EXTENDS RunLists

MCCreated == [r \in Runs |-> (r + 1) \div 2]

Row(n, s, v) == [name |-> n, step |-> s, value |-> v]

MCMetrics ==
  [r \in Runs |->
     IF r = 1 THEN {Row("accuracy", 1, 1)}
     ELSE {Row("accuracy", 1, 5), Row("accuracy", 2, r \div 2), Row("f1", 1, 4 - r)}]
=============================================================================
