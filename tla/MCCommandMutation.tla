--------------------------- MODULE MCCommandMutation ---------------------------
(* A small instance of CommandMutation for TLC. *)
EXTENDS CommandMutation

=============================================================================
