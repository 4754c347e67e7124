--------------------------- MODULE MCEventStream ----------------------------
(* Small instances of EventStream for TLC.  Event ids are ordered, so they *)
(* are not symmetric.                                                      *)
EXTENDS EventStream

=============================================================================
