---------------------------- MODULE EventDelivery ----------------------------
(***************************************************************************)
(* What the outbox promises for every event that has been committed: it is *)
(* tried a limited number of times, it counts as delivered only when its   *)
(* handler has succeeded, it is given up only when every try is used, and  *)
(* either is final.  A handler may succeed more than once, and also after  *)
(* the event is settled: delivery is at least once.  Outbox implements     *)
(* this specification.                                                     *)
(***************************************************************************)
EXTENDS Naturals

CONSTANTS Events, MaxAttempts

VARIABLES
  standing,  \* standing[e]: not committed, open, delivered or given up
  tries,     \* tries[e]: how often e has been handed out
  handled    \* the events a handler has succeeded on

vars == <<standing, tries, handled>>

Init ==
  /\ standing = [e \in Events |-> "Absent"]
  /\ tries = [e \in Events |-> 0]
  /\ handled = {}

(* The event is committed, with the transaction that causes it. *)
Occur(e) ==
  /\ standing[e] = "Absent"
  /\ standing' = [standing EXCEPT ![e] = "Open"]
  /\ UNCHANGED <<tries, handled>>

(* Once more it is handed to a handler. *)
HandOut(e) ==
  /\ standing[e] = "Open"
  /\ tries[e] < MaxAttempts
  /\ tries' = [tries EXCEPT ![e] = @ + 1]
  /\ UNCHANGED <<standing, handled>>

Succeed(e) ==
  /\ tries[e] > 0
  /\ handled' = handled \cup {e}
  /\ UNCHANGED <<standing, tries>>

Deliver(e) ==
  /\ standing[e] = "Open"
  /\ e \in handled
  /\ standing' = [standing EXCEPT ![e] = "Delivered"]
  /\ UNCHANGED <<tries, handled>>

GiveUp(e) ==
  /\ standing[e] = "Open"
  /\ tries[e] = MaxAttempts
  /\ standing' = [standing EXCEPT ![e] = "DeadLetter"]
  /\ UNCHANGED <<tries, handled>>

Next ==
  \E e \in Events : Occur(e) \/ HandOut(e) \/ Succeed(e) \/ Deliver(e) \/ GiveUp(e)

Spec == Init /\ [][Next]_vars

=============================================================================
