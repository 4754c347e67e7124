------------------------------ MODULE CachedQuery ------------------------------
(***************************************************************************)
(* One entry of the query cache, as its users see it: the views that mount *)
(* on it and whoever invalidates its tag (core/frontend/query).            *)
(*                                                                         *)
(* QueryClient implements it for each of its entries, with generations,    *)
(* aborts and promises; Shell invalidates and shows one.  The collection   *)
(* has a version that counts its changes, and data is the version it was   *)
(* computed from.                                                          *)
(***************************************************************************)
EXTENDS Naturals

CONSTANT None

VARIABLES
  version,  \* the server's collection
  data,     \* what the entry holds
  stale,    \* it is marked
  failed,   \* its status is "error"
  fetch,    \* its operation: "none", "running", or "ending" once its outcome is stored
  asked,    \* the version when its last operation started
  watched   \* a view is subscribed

vars == <<version, data, stale, failed, fetch, asked, watched>>

Type ==
  /\ {version, asked} \subseteq Nat
  /\ data \in Nat \cup {None}
  /\ {stale, failed, watched} \subseteq BOOLEAN
  /\ fetch \in {"none", "running", "ending"}

Init ==
  /\ version = 0 /\ asked = 0
  /\ data = None /\ stale = TRUE /\ failed = FALSE
  /\ fetch = "none" /\ watched = FALSE

(* The collection changes. *)
Write ==
  /\ version' = version + 1
  /\ UNCHANGED <<data, stale, failed, fetch, asked, watched>>

(* An operation is sent. *)
Ask ==
  /\ fetch' = "running" /\ asked' = version
  /\ failed' = (failed /\ data # None)
  /\ UNCHANGED <<version, data>>

(* The entry is not marked from here on, whatever becomes of it. *)
Start == Ask /\ stale' = FALSE

(* A view mounts.  One that failed is not asked for again. *)
Subscribe ==
  /\ watched' = TRUE
  /\ \/ stale /\ fetch = "none" /\ Start
     \/ ~(stale /\ fetch = "none") /\ UNCHANGED <<version, data, stale, failed, fetch, asked>>

(* The last view unmounts. *)
Unsubscribe ==
  /\ watched' = FALSE
  /\ UNCHANGED <<version, data, stale, failed, fetch, asked>>

(* The tag is invalidated: a watched entry asks again, but joins an        *)
(* operation that has not ended and is then marked.  When several          *)
(* consumers of an event invalidate in one go, all but the first join.     *)
Invalidate(several) ==
  /\ \/ watched /\ fetch = "none" /\ Ask /\ stale' = several
     \/ ~(watched /\ fetch = "none") /\ stale' = TRUE
        /\ UNCHANGED <<version, data, failed, fetch, asked>>
  /\ UNCHANGED watched

(* A view asks again, whatever is running. *)
Refetch ==
  /\ watched /\ Start
  /\ UNCHANGED watched

(* An answer is stored, read by the server since it was asked. *)
Answer ==
  /\ fetch = "running" /\ fetch' = "ending"
  /\ data' \in asked..version /\ failed' = FALSE
  /\ UNCHANGED <<version, stale, asked, watched>>

(* The request failed: what there was stays, and is not marked again. *)
Refuse ==
  /\ fetch = "running" /\ fetch' = "ending"
  /\ failed' = TRUE
  /\ UNCHANGED <<version, data, stale, asked, watched>>

(* The promise is cleared. *)
End ==
  /\ fetch = "ending" /\ fetch' = "none"
  /\ UNCHANGED <<version, data, stale, failed, asked, watched>>

(* The cache is cleared; a watched entry asks again. *)
Clear ==
  /\ data' = None /\ failed' = FALSE
  /\ \/ watched /\ stale' = FALSE /\ fetch' = "running" /\ asked' = version
     \/ ~watched /\ stale' = TRUE /\ fetch' = "none" /\ UNCHANGED asked
  /\ UNCHANGED <<version, watched>>

Next ==
  \/ Write \/ Subscribe \/ Unsubscribe \/ Refetch
  \/ \E several \in BOOLEAN : Invalidate(several)
  \/ Answer \/ Refuse \/ End \/ Clear

Spec == Init /\ [][Next]_vars

(* A view shows this data without a mark, an error or a request under way. *)
Shown == data # None /\ ~stale /\ ~failed /\ fetch # "running"

=============================================================================
