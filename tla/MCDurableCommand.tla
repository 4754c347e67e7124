-------------------------- MODULE MCDurableCommand --------------------------
(* Small instances of DurableCommand for TLC. *)
EXTENDS DurableCommand, TLC

(* Requests are interchangeable.  Keys and inputs are too, but each run has *)
(* too few of them for a symmetry to help.                                 *)
RequestSymmetry == Permutations(Requests)

=============================================================================
