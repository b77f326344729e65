------------------------------ MODULE MCOutbox ------------------------------
(* Outbox for TLC: three messages, the last two created in one transaction, *)
(* of which MCOutbox.cfg makes the first one unpublishable.                 *)
EXTENDS Outbox

CONSTANTS d1, d2

MCCreated == [m \in Messages |-> IF m = 1 THEN 1 ELSE 2]
=============================================================================
