---------------------------- MODULE MCQueryClient ----------------------------
(* Small instances of QueryClient for TLC. *)
EXTENDS QueryClient

=============================================================================
