------------------------------ MODULE MCOutbox ------------------------------
(* Small instances of Outbox for TLC. *)
EXTENDS Outbox, TLC

(* Workers are interchangeable; events are not, they have an order. *)
WorkerSymmetry == Permutations(Workers)

=============================================================================
