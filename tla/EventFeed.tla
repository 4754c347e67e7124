------------------------------ MODULE EventFeed ------------------------------
(***************************************************************************)
(* What a subscribed browser is promised of the domain events of its       *)
(* tenant: they are shown to its consumers in the order they were raised,  *)
(* each at most once, and none is left out but those that are missed.  An  *)
(* event is missed only if it was raised before the feed began, or if a    *)
(* later one was committed before it.  EventStream implements this         *)
(* specification.                                                          *)
(***************************************************************************)
EXTENDS Naturals, FiniteSets

CONSTANTS
  Events,
  MaxTogether,  \* events of one time that a feed can be taken up again after
  None

VARIABLES
  now,         \* the clock
  raisedAt,    \* raisedAt[e]: when e was raised
  committed,   \* the events that are there to be seen
  since,       \* when the feed last began
  subscribed,  \* the browser knows where the feed goes on
  missed,      \* the events the feed need not show
  shown        \* the events the consumers were given

vars == <<now, raisedAt, committed, since, subscribed, missed, shown>>

Init ==
  /\ now = 0
  /\ raisedAt = [e \in Events |-> None]
  /\ committed = {}
  /\ since = None /\ subscribed = FALSE
  /\ missed = {} /\ shown = {}

Tick ==
  /\ now' = now + 1
  /\ UNCHANGED <<raisedAt, committed, since, subscribed, missed, shown>>

Raise(e) ==
  /\ raisedAt[e] = None
  /\ raisedAt' = [raisedAt EXCEPT ![e] = now]
  /\ UNCHANGED <<now, committed, since, subscribed, missed, shown>>

(* The feed may have gone beyond the time of e.                            *)
Overtaken(e) ==
  /\ since # None
  /\ \/ raisedAt[e] < since
     \/ \E d \in committed : raisedAt[e] < raisedAt[d]

Commit(e) ==
  /\ raisedAt[e] # None /\ e \notin committed
  /\ committed' = committed \cup {e}
  /\ \/ missed' = missed
     \/ Overtaken(e) /\ missed' = missed \cup {e}
  /\ UNCHANGED <<now, raisedAt, since, subscribed, shown>>

(* More events of one time were shown than a cursor can name.              *)
TooManyTogether ==
  \E t \in 0..now : Cardinality({e \in shown : raisedAt[e] = t}) > MaxTogether

(* The feed begins with what is raised from now on: for a new subscriber,  *)
(* or for one whose cursor has become too long.                            *)
Begin ==
  /\ ~subscribed \/ TooManyTogether
  /\ since' = now
  /\ missed' = missed \cup {e \in committed : raisedAt[e] < now}
  /\ UNCHANGED <<now, raisedAt, committed, subscribed, shown>>

Subscribe ==
  /\ since # None
  /\ subscribed' = TRUE
  /\ UNCHANGED <<now, raisedAt, committed, since, missed, shown>>

(* e is the next one. *)
IsNext(e) ==
  /\ \A d \in shown : raisedAt[d] <= raisedAt[e]
  /\ \A d \in committed \ (shown \cup missed) : raisedAt[e] <= raisedAt[d]

Show(e) ==
  /\ subscribed
  /\ e \in committed \ shown
  /\ IsNext(e)
  /\ shown' = shown \cup {e}
  /\ UNCHANGED <<now, raisedAt, committed, since, subscribed, missed>>

Next ==
  \/ Tick \/ Begin \/ Subscribe
  \/ \E e \in Events : Raise(e) \/ Commit(e) \/ Show(e)

Spec == Init /\ [][Next]_vars

=============================================================================
