----------------------------- MODULE Contributions -----------------------------
(***************************************************************************)
(* How the browser fills its slots: the loading of contribution modules    *)
(* (core/frontend/discovery/discover-contributions.ts), the two registries *)
(* they fill (slots/slot-registry.ts, events/event-registry.ts) and the    *)
(* places that wait for them (slots/LazySlot.tsx).                         *)
(*                                                                         *)
(* Every mounted LazySlot asks for all modules.  A module that is being    *)
(* loaded is awaited, not loaded again; its promise is forgotten when it   *)
(* has registered everything, and kept for ever when it is rejected.       *)
(***************************************************************************)
EXTENDS Naturals, Sequences, FiniteSets

CONSTANTS
  Modules,  \* the entries of frontend-modules.ts
  Places,   \* the LazySlot elements of App.tsx
  Keys,     \* slots and event types
  Bundles   \* bundles[m]: what module m declares and exports

(* A slot contribution or an event consumer. *)
Item == [kind : {"contribution", "consumer"}, key : Keys, name : Modules]

(* exports: contribution, contributions and eventConsumers, in that order. *)
Bundle == [declared : SUBSET Item, exports : Seq(Item)]

ASSUME BundlesAssumption == Bundles \subseteq [Modules -> Bundle]

VARIABLES
  bundle,      \* the bundle that is served
  loaded,      \* modules that have registered everything
  pending,     \* pending[m]: the promise of module m
  registered,  \* the contents of both registries
  place,       \* place[p]: what the LazySlot p shows
  awaited      \* awaited[p]: the modules p's Promise.all still waits for

contributionVars == <<bundle, loaded, pending, registered, place, awaited>>

ContributionsType ==
  /\ bundle \in Bundles
  /\ loaded \subseteq Modules
  /\ pending \in [Modules -> {"none", "loading", "rejected"}]
  /\ registered \subseteq Item
  /\ place \in [Places -> {"unmounted", "waiting", "ready", "failed"}]
  /\ awaited \in [Places -> SUBSET Modules]

NothingLoaded ==
  /\ loaded = {}
  /\ pending = [m \in Modules |-> "none"]
  /\ registered = {}
  /\ place = [p \in Places |-> "unmounted"]
  /\ awaited = [p \in Places |-> {}]

ContributionsInit == bundle \in Bundles /\ NothingLoaded

(* The page is loaded anew: its memory is gone, the bundle is the same.    *)
Forget ==
  /\ loaded' = {}
  /\ pending' = [m \in Modules |-> "none"]
  /\ registered' = {}
  /\ place' = [p \in Places |-> "unmounted"]
  /\ awaited' = [p \in Places |-> {}]
  /\ UNCHANGED bundle

-----------------------------------------------------------------------------
(* Registering *)

Exports(m) == {bundle[m].exports[i] : i \in DOMAIN bundle[m].exports}

Consumers(m) == {x \in Exports(m) : x.kind = "consumer"}

(* register throws for an item whose key has one of that name. *)
Duplicates(m) ==
  {i \in DOMAIN bundle[m].exports :
     \/ bundle[m].exports[i] \in registered
     \/ \E j \in 1..(i - 1) : bundle[m].exports[j] = bundle[m].exports[i]}

(* The exports of m that are registered before one throws. *)
Accepted(m) ==
  {bundle[m].exports[i] : i \in {j \in DOMAIN bundle[m].exports :
                                   \A k \in Duplicates(m) : j < k}}

-----------------------------------------------------------------------------
(* Loading *)

(* Bug: a module that is being loaded is not awaited. *)
AwaitsOnlyNew == {m \in Modules \ loaded : pending[m] = "none"}

(* The promises of loadModule that are not settled yet, or rejected. *)
Awaits == Modules \ loaded

(* The effect of a LazySlot: ensureFrontendContributions. *)
Mount(p) ==
  /\ place[p] = "unmounted"
  /\ pending' = [m \in Modules |->
                   IF m \in Awaits /\ pending[m] = "none" THEN "loading" ELSE pending[m]]
  /\ awaited' = [awaited EXCEPT ![p] = Awaits]
  /\ place' = [place EXCEPT ![p] =
       IF Awaits = {} THEN "ready"
       ELSE IF \E m \in Awaits : pending[m] = "rejected" THEN "failed" ELSE "waiting"]
  /\ UNCHANGED <<bundle, loaded, registered>>

(* The cleanup of the effect: a promise that is fulfilled later shows      *)
(* nothing.                                                                *)
Unmount(p) ==
  /\ place[p] # "unmounted"
  /\ place' = [place EXCEPT ![p] = "unmounted"]
  /\ awaited' = [awaited EXCEPT ![p] = {}]
  /\ UNCHANGED <<bundle, loaded, pending, registered>>

Waits(p, m) == place[p] = "waiting" /\ m \in awaited[p]

(* The module has arrived: its consumers are the declared ones and all its *)
(* exports are registered.                                                 *)
Load(m) ==
  /\ pending[m] = "loading"
  /\ Consumers(m) = bundle[m].declared
  /\ Duplicates(m) = {}
  /\ registered' = registered \cup Accepted(m)
  /\ loaded' = loaded \cup {m}
  /\ pending' = [pending EXCEPT ![m] = "none"]
  /\ awaited' = [p \in Places |-> awaited[p] \ {m}]
  /\ place' = [p \in Places |->
                 IF Waits(p, m) /\ awaited[p] = {m} THEN "ready" ELSE place[p]]
  /\ UNCHANGED bundle

(* The rejected promise of m reaches every place that waits for it. *)
Reject(m) ==
  /\ pending' = [pending EXCEPT ![m] = "rejected"]
  /\ place' = [p \in Places |-> IF Waits(p, m) THEN "failed" ELSE place[p]]
  /\ UNCHANGED <<bundle, loaded, awaited>>

(* The import fails, or its consumers are not the declared ones. *)
LoadFails(m) ==
  /\ pending[m] = "loading"
  /\ Reject(m)
  /\ UNCHANGED registered

(* A duplicate throws; what was registered before it stays. *)
LoadCollides(m) ==
  /\ pending[m] = "loading"
  /\ Consumers(m) = bundle[m].declared
  /\ Duplicates(m) # {}
  /\ registered' = registered \cup Accepted(m)
  /\ Reject(m)

ContributionsNext ==
  \/ \E p \in Places : Mount(p) \/ Unmount(p)
  \/ \E m \in Modules : Load(m) \/ LoadFails(m) \/ LoadCollides(m)

-----------------------------------------------------------------------------
(* Safety *)

(* A place that shows its slot shows everything that was ever to be in it, *)
(* and every event has its consumers: no module is still on its way or has *)
(* failed, however many places asked for it and whenever they were mounted.*)
ShownIsComplete ==
  (\E p \in Places : place[p] = "ready") =>
    \A m \in Modules : pending[m] = "none" /\ Exports(m) \subseteq registered

(* The inductive invariant: a waiting place waits for whatever is missing, *)
(* all of it still on its way, and only what is loaded is complete.        *)
ContributionsInvariant ==
  /\ ContributionsType
  /\ ShownIsComplete
  /\ \A p \in Places :
       /\ place[p] = "waiting" => awaited[p] # {} /\ awaited[p] = Modules \ loaded
       /\ place[p] = "ready" => loaded = Modules
  /\ \A p \in Places, m \in Modules : Waits(p, m) => pending[m] = "loading"
  /\ \A m \in Modules :
       /\ m \in loaded => pending[m] = "none" /\ Exports(m) \subseteq registered
       /\ pending[m] # "none" => m \notin loaded

=============================================================================
