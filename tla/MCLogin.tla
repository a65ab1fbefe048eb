------------------------------- MODULE MCLogin -------------------------------
(* Model values for Login. *)
EXTENDS Login
=============================================================================
