---------------------------- MODULE MCMigrations ----------------------------
(* Migrations for TLC: the migration job and an operator.  With the proofs   *)
(* comes RevisionsFit, which TLC computes first.                             *)
EXTENDS MigrationsProofs

CONSTANTS theJob, operator
=============================================================================
