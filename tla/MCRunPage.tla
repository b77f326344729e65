------------------------------ MODULE MCRunPage ------------------------------
(* RunPage for TLC; MCRunPage.cfg gives its bounds. *)
EXTENDS RunPage
=============================================================================
