----------------------------- MODULE MCTaskPlanner -----------------------------
(* A small instance of TaskPlanner for TLC. *)
EXTENDS TaskPlanner

=============================================================================
