----------------------------- MODULE MCRepairQueue -----------------------------
(* Model values for RepairQueue. *)
EXTENDS RepairQueue
=============================================================================
