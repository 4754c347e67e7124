-------------------------------- MODULE Outbox --------------------------------
(***************************************************************************)
(* The outbox of the Focusly backend: domain events are inserted by the    *)
(* transactions of the features (runtime/mongo-platform-capabilities.ts),  *)
(* and worker processes (outbox/worker.ts) claim them in batches, hand     *)
(* each to a handler and record the delivery (outbox/outbox-publisher.ts,  *)
(* outbox/mongo-outbox.ts).  Several workers run side by side, may be      *)
(* slow, crash, be stopped by a signal and be started again.               *)
(*                                                                         *)
(* A claim token is a random UUID; every claim also increments attempts,   *)
(* which never decreases, so here the number of the claim is its token.    *)
(***************************************************************************)
EXTENDS Integers, Sequences, FiniteSets

CONSTANTS
  Events,       \* events, numbered in the order of their occurredAt
  Workers,      \* worker processes
  BatchLimit,   \* events a worker claims at once (50)
  MaxAttempts,  \* claims after which a failure is final (8)
  LeaseMs,      \* lease of a claim, in clock ticks (60 s)
  BackoffCap,   \* longest wait before a retry, in clock ticks (300 s)
  MaxFaults     \* bound: crashes and failed markDelivered calls

ASSUME OutboxAssumption ==
  /\ Events \subseteq Nat
  /\ BatchLimit \in Nat \ {0} /\ MaxAttempts \in Nat \ {0}
  /\ LeaseMs \in Nat \ {0} /\ BackoffCap \in Nat \ {0}
  /\ MaxFaults \in Nat

VARIABLES
  delivery,  \* delivery[e]: the delivery part of e's outbox document
  now,       \* the clock
  wpc,       \* where each worker is
  running,   \* running[w]: no signal has arrived
  batch,     \* batch[w]: what w has claimed and not finished, in order
  handled,   \* the events a handler has succeeded on
  faults     \* crashes and failed markDelivered calls so far

vars == <<delivery, now, wpc, running, batch, handled, faults>>

Delivery ==
  [status : {"Absent", "Pending", "Processing", "Delivered", "Failed", "DeadLetter"},
   attempts : 0..MaxAttempts, availableAt : Int, leaseExpiresAt : Nat]

(* A claimed event: its number, its claim token and when it was claimed.   *)
Claimed == [event : Events, attempts : 1..MaxAttempts, claimedAt : Nat]

Places == {"loop", "claim", "handle", "mark", "fail", "sleep", "stopped", "crashed"}

(* Every variable has its type, and a batch never exceeds the limit. *)
TypeOK ==
  /\ delivery \in [Events -> Delivery]
  /\ now \in Nat
  /\ wpc \in [Workers -> Places]
  /\ running \in [Workers -> BOOLEAN]
  /\ batch \in [Workers -> Seq(Claimed)]
  /\ \A w \in Workers : Len(batch[w]) <= BatchLimit
  /\ handled \subseteq Events
  /\ faults \in 0..MaxFaults

Init ==
  /\ delivery = [e \in Events |-> [status |-> "Absent", attempts |-> 0,
                                   availableAt |-> 0, leaseExpiresAt |-> 0]]
  /\ now = 0
  /\ wpc = [w \in Workers |-> "loop"]
  /\ running = [w \in Workers |-> TRUE]
  /\ batch = [w \in Workers |-> <<>>]
  /\ handled = {}
  /\ faults = 0

GoTo(w, place) == wpc' = [wpc EXCEPT ![w] = place]

-----------------------------------------------------------------------------
(* Producing *)

(* A feature's transaction commits with the event in it.  Transactions     *)
(* need not commit in the order of occurredAt.                             *)
CommitEvent(e) ==
  /\ delivery[e].status = "Absent"
  /\ delivery' = [delivery EXCEPT ![e] =
       [status |-> "Pending", attempts |-> 0, availableAt |-> now, leaseExpiresAt |-> 0]]
  /\ UNCHANGED <<now, wpc, running, batch, handled, faults>>

-----------------------------------------------------------------------------
(* Claiming *)

(* Bug: a claim does not ask whether the previous one has expired. *)
ClaimableIgnoringLease(e) ==
  /\ delivery[e].attempts < MaxAttempts
  /\ delivery[e].availableAt <= now
  /\ delivery[e].status \in {"Pending", "Failed", "Processing"}

(* Bug: a claim that expired is not taken up again. *)
ClaimableOnlyUnclaimed(e) ==
  /\ delivery[e].attempts < MaxAttempts
  /\ delivery[e].availableAt <= now
  /\ delivery[e].status \in {"Pending", "Failed"}

(* The filter of findOneAndUpdate. *)
Claimable(e) ==
  /\ delivery[e].attempts < MaxAttempts
  /\ delivery[e].availableAt <= now
  /\ \/ delivery[e].status \in {"Pending", "Failed"}
     \/ delivery[e].status = "Processing" /\ delivery[e].leaseExpiresAt <= now

(* The loop of the worker: one more round, or, after a signal, the end.    *)
NextRound(w) ==
  /\ wpc[w] = "loop"
  /\ GoTo(w, IF running[w] THEN "claim" ELSE "stopped")
  /\ UNCHANGED <<delivery, now, running, batch, handled, faults>>

(* One iteration of claim: the oldest claimable event. *)
ClaimOne(w, e) ==
  /\ wpc[w] = "claim"
  /\ Len(batch[w]) < BatchLimit
  /\ Claimable(e)
  /\ \A f \in Events : Claimable(f) => e <= f
  /\ delivery' = [delivery EXCEPT ![e] =
       [status |-> "Processing", attempts |-> @.attempts + 1,
        availableAt |-> @.availableAt, leaseExpiresAt |-> now + LeaseMs]]
  /\ batch' = [batch EXCEPT ![w] = Append(@,
       [event |-> e, attempts |-> delivery[e].attempts + 1, claimedAt |-> now])]
  /\ UNCHANGED <<now, wpc, running, handled, faults>>

(* The batch is full or nothing is claimable; an empty batch sleeps. *)
EndClaim(w) ==
  /\ wpc[w] = "claim"
  /\ Len(batch[w]) = BatchLimit \/ \A e \in Events : ~Claimable(e)
  /\ GoTo(w, IF batch[w] = <<>> THEN "sleep" ELSE "handle")
  /\ UNCHANGED <<delivery, now, running, batch, handled, faults>>

Wake(w) ==
  /\ wpc[w] = "sleep"
  /\ GoTo(w, "loop")
  /\ UNCHANGED <<delivery, now, running, batch, handled, faults>>

-----------------------------------------------------------------------------
(* Delivering *)

current(w) == Head(batch[w])

(* Bug: an update is not fenced by the claim token. *)
AnyClaim(w) == TRUE

(* The filter of markDelivered and markFailed: still Processing, under     *)
(* this claim.                                                             *)
HoldsClaim(w) ==
  /\ delivery[current(w).event].status = "Processing"
  /\ delivery[current(w).event].attempts = current(w).attempts

(* On to the next event of the batch, or to the next round. *)
Advance(w) ==
  /\ batch' = [batch EXCEPT ![w] = Tail(@)]
  /\ GoTo(w, IF Len(batch[w]) = 1 THEN "loop" ELSE "handle")

(* Bug: what the handler throws is dropped. *)
HandleIgnoringErrors(w) ==
  /\ wpc[w] = "handle"
  /\ \/ handled' = handled \cup {current(w).event}
     \/ UNCHANGED handled
  /\ GoTo(w, "mark")
  /\ UNCHANGED <<delivery, now, running, batch, faults>>

(* The handler resolves, or throws. *)
Handle(w) ==
  /\ wpc[w] = "handle"
  /\ \/ /\ handled' = handled \cup {current(w).event}
        /\ GoTo(w, "mark")
     \/ /\ GoTo(w, "fail")
        /\ UNCHANGED handled
  /\ UNCHANGED <<delivery, now, running, batch, faults>>

(* An update that matches nothing is not an error: the batch goes on.      *)
MarkDelivered(w) ==
  /\ wpc[w] = "mark"
  /\ \/ /\ HoldsClaim(w)
        /\ delivery' = [delivery EXCEPT ![current(w).event].status = "Delivered"]
     \/ /\ ~HoldsClaim(w)
        /\ UNCHANGED delivery
  /\ Advance(w)
  /\ UNCHANGED <<now, running, handled, faults>>

(* markDelivered itself throws, the update made or not: the event is       *)
(* marked failed next, though its handler has run.                         *)
MarkDeliveredThrows(w) ==
  /\ wpc[w] = "mark"
  /\ faults < MaxFaults /\ faults' = faults + 1
  /\ GoTo(w, "fail")
  /\ \/ UNCHANGED delivery
     \/ /\ HoldsClaim(w)
        /\ delivery' = [delivery EXCEPT ![current(w).event].status = "Delivered"]
  /\ UNCHANGED <<now, running, batch, handled>>

Dead(n) == n >= MaxAttempts

(* min(300000, 1000 * 2 ^ (attempts - 1)), in units of the first wait. *)
Backoff(n) == IF 2 ^ (n - 1) < BackoffCap THEN 2 ^ (n - 1) ELSE BackoffCap

MarkFailed(w) ==
  /\ wpc[w] = "fail"
  /\ \/ /\ HoldsClaim(w)
        /\ delivery' = [delivery EXCEPT ![current(w).event] =
             [status |-> IF Dead(current(w).attempts) THEN "DeadLetter" ELSE "Failed",
              attempts |-> @.attempts, leaseExpiresAt |-> @.leaseExpiresAt,
              availableAt |-> now + Backoff(current(w).attempts)]]
     \/ /\ ~HoldsClaim(w)
        /\ UNCHANGED delivery
  /\ Advance(w)
  /\ UNCHANGED <<now, running, handled, faults>>

-----------------------------------------------------------------------------
(* Processes and time *)

(* The process dies, or markFailed throws out of the loop. *)
Crash(w) ==
  /\ wpc[w] \notin {"stopped", "crashed"}
  /\ faults < MaxFaults /\ faults' = faults + 1
  /\ GoTo(w, "crashed")
  /\ batch' = [batch EXCEPT ![w] = <<>>]
  /\ UNCHANGED <<delivery, now, running, handled>>

(* SIGTERM or SIGINT. *)
Signal(w) ==
  /\ wpc[w] \notin {"stopped", "crashed"} /\ running[w]
  /\ running' = [running EXCEPT ![w] = FALSE]
  /\ UNCHANGED <<delivery, now, wpc, batch, handled, faults>>

(* The supervisor starts the worker again. *)
Restart(w) ==
  /\ wpc[w] \in {"stopped", "crashed"}
  /\ GoTo(w, "loop")
  /\ running' = [running EXCEPT ![w] = TRUE]
  /\ UNCHANGED <<delivery, now, batch, handled, faults>>

(* Time matters while a lease or a wait is running. *)
Tick ==
  /\ \E e \in Events :
       \/ delivery[e].status = "Processing" /\ delivery[e].leaseExpiresAt > now
       \/ delivery[e].status = "Failed" /\ delivery[e].availableAt > now
  /\ now' = now + 1
  /\ UNCHANGED <<delivery, wpc, running, batch, handled, faults>>

-----------------------------------------------------------------------------

Work(w) ==
  \/ NextRound(w) \/ (\E e \in Events : ClaimOne(w, e)) \/ EndClaim(w) \/ Wake(w)
  \/ Handle(w) \/ MarkDelivered(w) \/ MarkFailed(w)

Next ==
  \/ \E e \in Events : CommitEvent(e)
  \/ \E w \in Workers :
       Work(w) \/ MarkDeliveredThrows(w) \/ Crash(w) \/ Signal(w) \/ Restart(w)
  \/ Tick

Spec == Init /\ [][Next]_vars

(* A worker process runs on, its handler settles, a stopped worker is      *)
(* started again, signals do not come before every single round, and the   *)
(* clock runs.  Events need not occur.                                     *)
FairSpec ==
  /\ Spec
  /\ \A w \in Workers :
       WF_vars(Work(w)) /\ WF_vars(Restart(w)) /\ SF_vars(running[w] /\ NextRound(w))
  /\ WF_vars(Tick)

-----------------------------------------------------------------------------
(* Safety *)

(* Only an event whose handler has succeeded is recorded as delivered,     *)
(* whichever of several claims recorded it.                                *)
DeliveredWasHandled ==
  \A e \in Events : delivery[e].status = "Delivered" => e \in handled

(* An event is given up after MaxAttempts claims and not before.           *)
DeadLetterIsExhausted ==
  \A e \in Events :
    delivery[e].status = "DeadLetter" => delivery[e].attempts = MaxAttempts

(* Two workers work on one event only when the lease of the older claim    *)
(* has run out.                                                            *)
OverlapOnlyAfterExpiry ==
  \A w \in Workers : \A i \in 1..Len(batch[w]) :
    LET c == batch[w][i] IN
      c.attempts < delivery[c.event].attempts => c.claimedAt + LeaseMs <= now

(* A worker that stopped on a signal holds no claim: every event it        *)
(* claimed was handled first.                                              *)
StoppedHoldsNothing ==
  \A w \in Workers : wpc[w] \in {"loop", "sleep", "stopped"} => batch[w] = <<>>

(* A claim is one worker's, and it counts: an older claim of the event     *)
(* has run out, the latest one holds the lease of the document, and an     *)
(* event that waits for a retry is claimed by nobody.                      *)
ClaimsAreApart ==
  \A v, w \in Workers : \A i \in 1..Len(batch[v]), j \in 1..Len(batch[w]) :
    batch[v][i].event = batch[w][j].event /\ batch[v][i].attempts = batch[w][j].attempts
    => v = w /\ i = j

ClaimsFitDeliveries ==
  \A w \in Workers : \A i \in 1..Len(batch[w]) :
    LET c == batch[w][i]
        d == delivery[c.event] IN
      /\ c.attempts <= d.attempts
      /\ c.attempts = d.attempts =>
           /\ d.status \in {"Processing", "Delivered"}
           /\ d.status = "Processing" => d.leaseExpiresAt = c.claimedAt + LeaseMs

(* An event that no transaction has committed has not been claimed. *)
AbsentIsUnclaimed ==
  \A e \in Events : delivery[e].status = "Absent" => delivery[e].attempts = 0

(* Where each worker is fits what it holds. *)
WorkersFit ==
  \A w \in Workers :
    /\ wpc[w] \in {"handle", "mark", "fail"} => batch[w] # <<>>
    /\ wpc[w] = "mark" => current(w).event \in handled
    /\ wpc[w] = "crashed" => batch[w] = <<>>

(* Which every step keeps. *)
InductiveInvariant ==
  /\ TypeOK
  /\ DeliveredWasHandled /\ DeadLetterIsExhausted
  /\ StoppedHoldsNothing /\ WorkersFit
  /\ ClaimsAreApart /\ ClaimsFitDeliveries /\ AbsentIsUnclaimed
  /\ OverlapOnlyAfterExpiry

(* Delivered and dead-lettered are final, also for a worker that finishes  *)
(* an event after another one has taken it over.                           *)
SettledIsFinal ==
  [][\A e \in Events :
       delivery[e].status \in {"Delivered", "DeadLetter"} =>
         delivery'[e] = delivery[e]]_vars

(* Refinement: an event that waits, is claimed or has failed is open.      *)
StandingOf(status) ==
  IF status \in {"Pending", "Processing", "Failed"} THEN "Open" ELSE status

Promise == INSTANCE EventDelivery WITH
  standing <- [e \in Events |-> StandingOf(delivery[e].status)],
  tries <- [e \in Events |-> delivery[e].attempts]

(* The workers together keep the promise of EventDelivery, however they    *)
(* overlap, crash and are late: every step is one of its steps or changes  *)
(* nothing it speaks of.                                                   *)
ImplementsDelivery == Promise!Spec

-----------------------------------------------------------------------------
(* Liveness *)

Settled(e) == delivery[e].status \in {"Delivered", "DeadLetter"}

HeldBySomeone(e) ==
  \E w \in Workers : \E i \in 1..Len(batch[w]) : batch[w][i].event = e

(* Processing with every attempt used, and nobody working on it. *)
Stranded(e) ==
  /\ delivery[e].status = "Processing"
  /\ delivery[e].attempts = MaxAttempts
  /\ ~HeldBySomeone(e)

(* Every event is delivered or dead-lettered in the end, however slow the  *)
(* workers are, however often leases run out and whether or not a worker   *)
(* crashes, except an event whose last claim was lost.                     *)
EveryEventSettlesOrIsStranded ==
  \A e \in Events : delivery[e].status = "Pending" ~> (Settled(e) \/ Stranded(e))

=============================================================================
