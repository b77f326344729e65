---------------------------- MODULE MCRunControl ----------------------------
(* Instances of RunControl for TLC. *)
EXTENDS RunControl, TLC

CONSTANTS r1, r2, w1, w2

AllSlow    == [r \in Runs |-> "slow"]
AllClassif == [r \in Runs |-> "classification"]
WorkerSymmetry == Permutations(Workers)
=============================================================================
