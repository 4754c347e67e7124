----------------------------- MODULE OutboxProofs -----------------------------
(***************************************************************************)
(* Proofs about Outbox, for any events, workers, batches, attempts, leases *)
(* and waits: the inductive invariant, two workers on one event only after *)
(* a lease has run out, and the finality of what is settled.               *)
(***************************************************************************)
EXTENDS Outbox, SequenceTheorems, TLAPS

(* What holds of one claim: it is not newer than its document, the latest  *)
(* one holds the lease of the document, an older one has run out.          *)
Fits(c) ==
  /\ c.attempts <= delivery[c.event].attempts
  /\ c.attempts = delivery[c.event].attempts =>
       /\ delivery[c.event].status \in {"Processing", "Delivered"}
       /\ delivery[c.event].status = "Processing" =>
            delivery[c.event].leaseExpiresAt = c.claimedAt + LeaseMs
  /\ c.attempts < delivery[c.event].attempts => c.claimedAt + LeaseMs <= now

AllFit == \A w \in Workers : \A i \in 1..Len(batch[w]) : Fits(batch[w][i])

LEMMA FitByClaim == AllFit <=> ClaimsFitDeliveries /\ OverlapOnlyAfterExpiry
BY DEF AllFit, Fits, ClaimsFitDeliveries, OverlapOnlyAfterExpiry

-----------------------------------------------------------------------------
(* Sequences of claims *)

LEMMA ClaimsOf ==
  ASSUME TypeOK, NEW w \in Workers
  PROVE  /\ batch[w] \in Seq(Claimed) /\ Len(batch[w]) \in Nat
         /\ \A i \in 1..Len(batch[w]) : batch[w][i] \in Claimed
BY LenProperties, ElementOfSeq DEF TypeOK

LEMMA HeadAndTail ==
  ASSUME NEW S, NEW s \in Seq(S), s # <<>>
  PROVE  /\ Len(s) \in Nat \ {0} /\ Head(s) = s[1] /\ s[1] \in S
         /\ Tail(s) \in Seq(S) /\ Len(Tail(s)) = Len(s) - 1
         /\ \A i \in 1..Len(Tail(s)) : i + 1 \in 1..Len(s) /\ Tail(s)[i] = s[i + 1]
BY HeadTailProperties, LenProperties, EmptySeq, ElementOfSeq

LEMMA OneLonger ==
  ASSUME NEW S, NEW s \in Seq(S), NEW x \in S
  PROVE  /\ Append(s, x) \in Seq(S) /\ Len(Append(s, x)) = Len(s) + 1
         /\ \A i \in 1..Len(s) : Append(s, x)[i] = s[i]
         /\ Append(s, x)[Len(s) + 1] = x
BY AppendProperties

LEMMA Current ==
  ASSUME TypeOK, NEW w \in Workers, batch[w] # <<>>
  PROVE  /\ current(w) \in Claimed /\ current(w) = batch[w][1] /\ 1 \in 1..Len(batch[w])
BY HeadAndTail, ClaimsOf DEF TypeOK, current

LEMMA Goes ==
  ASSUME TypeOK, NEW w \in Workers, NEW place \in Places, GoTo(w, place)
  PROVE  /\ wpc' \in [Workers -> Places]
         /\ \A v \in Workers : wpc'[v] = IF v = w THEN place ELSE wpc[v]
BY DEF TypeOK, GoTo

LEMMA Waits == ASSUME NEW n \in Nat PROVE Backoff(n) \in Int
<1>1. n - 1 \in Int OBVIOUS
<1>2. 2 ^ (n - 1) \in Int BY <1>1, Z3
<1> QED BY <1>2, OutboxAssumption DEF Backoff

-----------------------------------------------------------------------------
(* Steps that leave the documents and the batches alone *)

LEMMA QuietKeeps ==
  ASSUME InductiveInvariant, UNCHANGED <<delivery, batch, now>>, handled \subseteq handled'
  PROVE  /\ ClaimsAreApart' /\ ClaimsFitDeliveries' /\ OverlapOnlyAfterExpiry'
         /\ DeadLetterIsExhausted' /\ AbsentIsUnclaimed' /\ DeliveredWasHandled'
<1>1. ClaimsAreApart' BY DEF InductiveInvariant, ClaimsAreApart
<1>2. ClaimsFitDeliveries' BY DEF InductiveInvariant, ClaimsFitDeliveries
<1>3. OverlapOnlyAfterExpiry' BY DEF InductiveInvariant, OverlapOnlyAfterExpiry
<1>4. DeadLetterIsExhausted' /\ AbsentIsUnclaimed' /\ DeliveredWasHandled'
  BY DEF InductiveInvariant, DeadLetterIsExhausted, AbsentIsUnclaimed, DeliveredWasHandled
<1> QED BY <1>1, <1>2, <1>3, <1>4

LEMMA MoveKeeps ==
  ASSUME InductiveInvariant, NEW w \in Workers, NEW place \in Places, GoTo(w, place),
         UNCHANGED <<delivery, batch, now, handled, faults>>,
         running' \in [Workers -> BOOLEAN],
         place \in {"loop", "sleep", "stopped"} => batch[w] = <<>>,
         place = "handle" => batch[w] # <<>>,
         place \notin {"mark", "fail", "crashed"}
  PROVE  InductiveInvariant'
<1>1. /\ wpc' \in [Workers -> Places]
      /\ \A v \in Workers : wpc'[v] = IF v = w THEN place ELSE wpc[v]
  BY Goes DEF InductiveInvariant
<1>2. TypeOK' BY <1>1 DEF InductiveInvariant, TypeOK
<1>3. StoppedHoldsNothing' BY <1>1 DEF InductiveInvariant, StoppedHoldsNothing
<1>4. WorkersFit' BY <1>1 DEF InductiveInvariant, WorkersFit, current
<1> QED BY <1>2, <1>3, <1>4, QuietKeeps DEF InductiveInvariant

LEMMA RoundKeeps ==
  ASSUME InductiveInvariant, NEW w \in Workers, NextRound(w) \/ EndClaim(w) \/ Wake(w) \/ Restart(w)
  PROVE  InductiveInvariant'
<1> USE DEF Places
<1>1. running \in [Workers -> BOOLEAN] /\ StoppedHoldsNothing /\ WorkersFit
  BY DEF InductiveInvariant, TypeOK
<1>2. CASE NextRound(w)
  <2>1. batch[w] = <<>> BY <1>1, <1>2 DEF NextRound, StoppedHoldsNothing
  <2>2. CASE running[w]
    BY <1>1, <1>2, <2>1, <2>2, MoveKeeps DEF NextRound
  <2>3. CASE ~running[w]
    BY <1>1, <1>2, <2>1, <2>3, MoveKeeps DEF NextRound
  <2> QED BY <2>2, <2>3
<1>3. CASE EndClaim(w)
  <2>1. CASE batch[w] = <<>> BY <1>1, <1>3, <2>1, MoveKeeps DEF EndClaim
  <2>2. CASE batch[w] # <<>> BY <1>1, <1>3, <2>2, MoveKeeps DEF EndClaim
  <2> QED BY <2>1, <2>2
<1>4. CASE Wake(w)
  <2>1. batch[w] = <<>> BY <1>1, <1>4 DEF Wake, StoppedHoldsNothing
  <2> QED BY <1>1, <1>4, <2>1, MoveKeeps DEF Wake
<1>5. CASE Restart(w)
  <2>1. batch[w] = <<>> BY <1>1, <1>5 DEF Restart, StoppedHoldsNothing, WorkersFit
  <2>2. running' \in [Workers -> BOOLEAN] BY <1>1, <1>5 DEF Restart
  <2> QED BY <1>5, <2>1, <2>2, MoveKeeps DEF Restart
<1> QED BY <1>2, <1>3, <1>4, <1>5

LEMMA SignalKeeps ==
  ASSUME InductiveInvariant, NEW w \in Workers, Signal(w)
  PROVE  InductiveInvariant'
<1>1. TypeOK' BY DEF InductiveInvariant, TypeOK, Signal
<1>2. StoppedHoldsNothing' BY DEF InductiveInvariant, StoppedHoldsNothing, Signal
<1>3. WorkersFit' BY DEF InductiveInvariant, WorkersFit, current, Signal
<1> QED BY <1>1, <1>2, <1>3, QuietKeeps DEF InductiveInvariant, Signal

LEMMA StutterKeeps ==
  ASSUME InductiveInvariant, UNCHANGED vars
  PROVE  InductiveInvariant'
<1>1. TypeOK' BY DEF InductiveInvariant, TypeOK, vars
<1>2. StoppedHoldsNothing' BY DEF InductiveInvariant, StoppedHoldsNothing, vars
<1>3. WorkersFit' BY DEF InductiveInvariant, WorkersFit, current, vars
<1> QED BY <1>1, <1>2, <1>3, QuietKeeps DEF InductiveInvariant, vars

(* A handler settles: what is to be marked as delivered has been handled.  *)
LEMMA HandleKeeps ==
  ASSUME InductiveInvariant, NEW w \in Workers, Handle(w)
  PROVE  InductiveInvariant'
<1>1. batch[w] # <<>> /\ current(w).event \in Events /\ handled \subseteq Events
  BY Current DEF InductiveInvariant, WorkersFit, Handle, Claimed, TypeOK
<1>2. PICK place \in {"mark", "fail"} :
        GoTo(w, place) /\ (place = "mark" => current(w).event \in handled')
  BY DEF Handle
<1>3. /\ wpc' \in [Workers -> Places]
      /\ \A v \in Workers : wpc'[v] = IF v = w THEN place ELSE wpc[v]
  BY <1>2, Goes DEF InductiveInvariant, Places
<1>4. handled \subseteq handled' /\ handled' \subseteq Events BY <1>1 DEF Handle
<1>5. TypeOK' BY <1>3, <1>4 DEF InductiveInvariant, TypeOK, Handle
<1>6. StoppedHoldsNothing' BY <1>3 DEF InductiveInvariant, StoppedHoldsNothing, Handle
<1>7. WorkersFit' BY <1>1, <1>2, <1>3, <1>4 DEF InductiveInvariant, WorkersFit, current, Handle
<1> QED BY <1>4, <1>5, <1>6, <1>7, QuietKeeps DEF InductiveInvariant, Handle

-----------------------------------------------------------------------------
(* Steps of time, of the features and of processes *)

LEMMA TickKeeps ==
  ASSUME InductiveInvariant, Tick
  PROVE  InductiveInvariant'
<1> USE DEF InductiveInvariant, Tick
<1>1. TypeOK' BY DEF TypeOK
<1>2. DeliveredWasHandled' /\ DeadLetterIsExhausted' /\ AbsentIsUnclaimed'
  BY DEF DeliveredWasHandled, DeadLetterIsExhausted, AbsentIsUnclaimed
<1>3. StoppedHoldsNothing' /\ WorkersFit' BY DEF StoppedHoldsNothing, WorkersFit, current
<1>4. ClaimsAreApart' BY DEF ClaimsAreApart
<1>5. ClaimsFitDeliveries' BY DEF ClaimsFitDeliveries
<1>6. ASSUME NEW w \in Workers, NEW i \in 1..Len(batch[w]),
             batch[w][i].attempts < delivery[batch[w][i].event].attempts
      PROVE  batch[w][i].claimedAt + LeaseMs <= now + 1
  <2>1. batch[w][i].claimedAt + LeaseMs <= now BY <1>6 DEF OverlapOnlyAfterExpiry
  <2>2. batch[w][i].claimedAt \in Nat /\ now \in Nat
    BY ClaimsOf DEF Claimed, TypeOK
  <2> QED BY <2>1, <2>2, OutboxAssumption
<1>7. OverlapOnlyAfterExpiry' BY <1>6 DEF OverlapOnlyAfterExpiry
<1> QED BY <1>1, <1>2, <1>3, <1>4, <1>5, <1>7

(* No claim is of an event that is only now committed. *)
LEMMA CommitKeeps ==
  ASSUME InductiveInvariant, NEW e \in Events, CommitEvent(e)
  PROVE  InductiveInvariant'
<1> USE DEF InductiveInvariant, CommitEvent
<1>1. /\ delivery' \in [Events -> Delivery]
      /\ \A f \in Events : f # e => delivery'[f] = delivery[f]
      /\ delivery'[e].status = "Pending" /\ delivery'[e].attempts = 0
  BY OutboxAssumption DEF TypeOK, Delivery
<1>2. TypeOK' BY <1>1 DEF TypeOK
<1>3. DeliveredWasHandled' /\ DeadLetterIsExhausted' /\ AbsentIsUnclaimed'
  BY <1>1 DEF DeliveredWasHandled, DeadLetterIsExhausted, AbsentIsUnclaimed
<1>4. StoppedHoldsNothing' /\ WorkersFit' BY DEF StoppedHoldsNothing, WorkersFit, current
<1>5. ClaimsAreApart' BY DEF ClaimsAreApart
<1>6. ASSUME NEW w \in Workers, NEW i \in 1..Len(batch[w])
      PROVE  batch[w][i].event \in Events /\ batch[w][i].event # e
  <2>1. batch[w][i].event \in Events /\ batch[w][i].attempts \in 1..MaxAttempts
    BY ClaimsOf DEF Claimed
  <2>2. batch[w][i].attempts <= delivery[batch[w][i].event].attempts
    BY DEF ClaimsFitDeliveries
  <2>3. delivery[e].attempts = 0 BY DEF AbsentIsUnclaimed
  <2> QED BY <2>1, <2>2, <2>3, OutboxAssumption
<1>7. ClaimsFitDeliveries' BY <1>1, <1>6 DEF ClaimsFitDeliveries
<1>8. OverlapOnlyAfterExpiry' BY <1>1, <1>6 DEF OverlapOnlyAfterExpiry
<1> QED BY <1>2, <1>3, <1>4, <1>5, <1>7, <1>8

LEMMA CrashKeeps ==
  ASSUME InductiveInvariant, NEW w \in Workers, Crash(w)
  PROVE  InductiveInvariant'
<1> USE DEF InductiveInvariant
<1>1. /\ wpc' \in [Workers -> Places]
      /\ \A v \in Workers : wpc'[v] = IF v = w THEN "crashed" ELSE wpc[v]
  BY Goes DEF Places, Crash
<1>2. /\ batch' \in [Workers -> Seq(Claimed)]
      /\ Len(<<>>) = 0 /\ batch'[w] = <<>>
      /\ \A v \in Workers : v # w => batch'[v] = batch[v]
  BY EmptySeq DEF TypeOK, Crash
<1>3. faults' \in 0..MaxFaults BY OutboxAssumption DEF TypeOK, Crash
<1>4. \A v \in Workers : Len(batch'[v]) <= BatchLimit
  <2>1. Len(batch'[w]) = 0 BY <1>2
  <2>2. 0 <= BatchLimit BY OutboxAssumption
  <2>3. \A v \in Workers : v # w => Len(batch'[v]) <= BatchLimit BY <1>2 DEF TypeOK
  <2> QED BY <2>1, <2>2, <2>3
<1>5. TypeOK' BY <1>1, <1>2, <1>3, <1>4 DEF TypeOK, Crash
<1>6. DeliveredWasHandled' /\ DeadLetterIsExhausted' /\ AbsentIsUnclaimed'
  BY DEF DeliveredWasHandled, DeadLetterIsExhausted, AbsentIsUnclaimed, Crash
<1>7. StoppedHoldsNothing' BY <1>1, <1>2 DEF StoppedHoldsNothing
<1>8. WorkersFit' BY <1>1, <1>2 DEF WorkersFit, current, Crash
<1>9. \A v \in Workers : \A i \in 1..Len(batch'[v]) : v # w BY <1>2
<1>10. ClaimsAreApart'
  <2>1. ASSUME NEW u \in Workers, NEW v \in Workers, NEW i \in 1..Len(batch'[u]),
               NEW j \in 1..Len(batch'[v]), batch'[u][i].event = batch'[v][j].event,
               batch'[u][i].attempts = batch'[v][j].attempts
        PROVE  u = v /\ i = j
    <3>1. u # w /\ v # w BY <1>9
    <3>2. batch'[u] = batch[u] /\ batch'[v] = batch[v] BY <1>2, <3>1
    <3>3. ClaimsAreApart OBVIOUS
    <3> QED BY <2>1, <3>2, <3>3 DEF ClaimsAreApart
  <2> QED BY <2>1 DEF ClaimsAreApart
<1>11. ClaimsFitDeliveries' BY <1>2, <1>9 DEF ClaimsFitDeliveries, Crash
<1>12. OverlapOnlyAfterExpiry' BY <1>2, <1>9 DEF OverlapOnlyAfterExpiry, Crash
<1> QED BY <1>5, <1>6, <1>7, <1>8, <1>10, <1>11, <1>12

-----------------------------------------------------------------------------
(* Claiming *)

(* A claim is newer than every other claim of its event, and those have    *)
(* run out.                                                                *)
LEMMA ClaimKeeps ==
  ASSUME InductiveInvariant, NEW w \in Workers, NEW e \in Events, ClaimOne(w, e)
  PROVE  InductiveInvariant'
<1> USE DEF InductiveInvariant
<1> DEFINE new == [event |-> e, attempts |-> delivery[e].attempts + 1, claimedAt |-> now]
<1>1. /\ delivery \in [Events -> Delivery] /\ now \in Nat
      /\ delivery[e].attempts \in Nat /\ delivery[e].attempts < MaxAttempts
      /\ delivery[e].leaseExpiresAt \in Nat
      /\ delivery[e].status \in {"Pending", "Failed", "Processing"}
      /\ delivery[e].status = "Processing" => delivery[e].leaseExpiresAt <= now
  BY DEF TypeOK, Delivery, ClaimOne, Claimable
<1>2. new \in Claimed BY <1>1, OutboxAssumption DEF Claimed
<1>3. /\ delivery' \in [Events -> Delivery]
      /\ \A f \in Events : f # e => delivery'[f] = delivery[f]
      /\ delivery'[e].status = "Processing"
      /\ delivery'[e].attempts = delivery[e].attempts + 1
      /\ delivery'[e].leaseExpiresAt = now + LeaseMs
  BY SMTT(40), <1>1, OutboxAssumption DEF Delivery, ClaimOne
<1>4. PICK n \in Claimed : n = new BY <1>2
<1>5. n.event = e /\ n.attempts = delivery[e].attempts + 1 /\ n.claimedAt = now
  BY <1>4
<1> HIDE DEF new
<1>6. /\ batch' = [batch EXCEPT ![w] = Append(batch[w], n)]
      /\ batch[w] \in Seq(Claimed) /\ Len(batch[w]) \in Nat /\ Len(batch[w]) < BatchLimit
  BY <1>4, ClaimsOf DEF ClaimOne, new
<1>7. /\ Append(batch[w], n) \in Seq(Claimed)
      /\ Len(Append(batch[w], n)) = Len(batch[w]) + 1
      /\ \A i \in 1..Len(batch[w]) : Append(batch[w], n)[i] = batch[w][i]
      /\ Append(batch[w], n)[Len(batch[w]) + 1] = n
  BY <1>6, OneLonger
<1>8. /\ batch' \in [Workers -> Seq(Claimed)]
      /\ batch'[w] = Append(batch[w], n)
      /\ \A v \in Workers : v # w => batch'[v] = batch[v]
  BY <1>6, <1>7 DEF TypeOK
<1>9. TypeOK'
  <2>1. \A v \in Workers : Len(batch'[v]) <= BatchLimit
    BY <1>6, <1>7, <1>8, OutboxAssumption DEF TypeOK
  <2> QED BY <1>3, <1>8, <2>1 DEF TypeOK, ClaimOne
<1>10. ASSUME NEW v \in Workers, NEW i \in 1..Len(batch'[v])
       PROVE  \/ i \in 1..Len(batch[v]) /\ batch'[v][i] = batch[v][i]
              \/ v = w /\ i = Len(batch[w]) + 1 /\ batch'[v][i] = n
  BY <1>6, <1>7, <1>8, <1>10
<1>11. ASSUME NEW v \in Workers, NEW i \in 1..Len(batch[v])
       PROVE  /\ batch[v][i] \in Claimed
              /\ batch[v][i].event = e =>
                   /\ batch[v][i].attempts <= delivery[e].attempts
                   /\ batch[v][i].claimedAt + LeaseMs <= now
  <2>1. /\ batch[v][i] \in Claimed /\ batch[v][i].attempts \in Nat
        /\ batch[v][i].claimedAt \in Nat
    BY SMTT(40), ClaimsOf, OutboxAssumption DEF Claimed
  <2>2. ASSUME batch[v][i].event = e
        PROVE  /\ batch[v][i].attempts <= delivery[e].attempts
               /\ batch[v][i].claimedAt + LeaseMs <= now
    <3>1. batch[v][i].attempts <= delivery[e].attempts
      BY <2>2 DEF ClaimsFitDeliveries
    <3>2. CASE batch[v][i].attempts < delivery[e].attempts
      BY <2>2, <3>1, <3>2 DEF OverlapOnlyAfterExpiry
    <3>3. CASE batch[v][i].attempts = delivery[e].attempts
      <4>1. /\ delivery[e].status \in {"Processing", "Delivered"}
            /\ delivery[e].status = "Processing" =>
                 delivery[e].leaseExpiresAt = batch[v][i].claimedAt + LeaseMs
        BY <2>2, <3>3 DEF ClaimsFitDeliveries
      <4> QED BY <1>1, <3>1, <4>1
    <3> QED BY <1>1, <2>1, <3>1, <3>2, <3>3
  <2> QED BY <2>1, <2>2
<1>12. ClaimsAreApart'
  <2>1. ASSUME NEW v \in Workers, NEW i \in 1..Len(batch[v]), batch[v][i].event = n.event
        PROVE  batch[v][i].attempts # n.attempts
    <3>1. batch[v][i].attempts \in Nat BY <1>11, OutboxAssumption DEF Claimed
    <3> QED BY <1>1, <1>5, <1>11, <2>1, <3>1
  <2>2. ASSUME NEW u \in Workers, NEW v \in Workers,
               NEW i \in 1..Len(batch'[u]), NEW j \in 1..Len(batch'[v]),
               batch'[u][i].event = batch'[v][j].event,
               batch'[u][i].attempts = batch'[v][j].attempts
        PROVE  u = v /\ i = j
    <3>1. \/ i \in 1..Len(batch[u]) /\ batch'[u][i] = batch[u][i]
          \/ u = w /\ i = Len(batch[w]) + 1 /\ batch'[u][i] = n
      BY <1>10
    <3>2. \/ j \in 1..Len(batch[v]) /\ batch'[v][j] = batch[v][j]
          \/ v = w /\ j = Len(batch[w]) + 1 /\ batch'[v][j] = n
      BY <1>10
    <3>3. CASE /\ i \in 1..Len(batch[u]) /\ batch'[u][i] = batch[u][i]
               /\ j \in 1..Len(batch[v]) /\ batch'[v][j] = batch[v][j]
      BY <2>2, <3>3 DEF ClaimsAreApart
    <3> QED BY <2>1, <2>2, <3>1, <3>2, <3>3
  <2> QED BY <2>2 DEF ClaimsAreApart
<1>13. ASSUME NEW v \in Workers, NEW i \in 1..Len(batch'[v])
       PROVE  \E c \in Claimed : c = batch'[v][i] /\ Fits(c)'
  <2>1. CASE v = w /\ i = Len(batch[w]) + 1 /\ batch'[v][i] = n
    <3>1. Fits(n)' BY <1>1, <1>3, <1>5, OutboxAssumption DEF Fits
    <3> QED BY <2>1, <3>1
  <2>2. CASE i \in 1..Len(batch[v]) /\ batch'[v][i] = batch[v][i]
    <3>1. PICK c \in Claimed : c = batch[v][i] BY <1>11, <2>2
    <3>2. AllFit BY FitByClaim
    <3>3. Fits(c) BY <2>2, <3>1, <3>2 DEF AllFit, Fits
    <3>4. CASE c.event = e
      <4>1. c.attempts <= delivery[e].attempts /\ c.claimedAt + LeaseMs <= now
            /\ c.attempts \in Nat
        BY <1>11, <2>2, <3>1, <3>4, OutboxAssumption DEF Claimed
      <4>2. Fits(c)' BY <1>1, <1>3, <3>4, <4>1 DEF Fits, ClaimOne
      <4> QED BY <2>2, <3>1, <4>2
    <3>5. CASE c.event # e
      <4>1. Fits(c)' BY <1>3, <3>3, <3>5 DEF Fits, ClaimOne, Claimed
      <4> QED BY <2>2, <3>1, <4>1
    <3> QED BY <3>4, <3>5
  <2> QED BY <1>10, <1>13, <2>1, <2>2
<1>14. ClaimsFitDeliveries' BY <1>13 DEF ClaimsFitDeliveries, Fits
<1>15. OverlapOnlyAfterExpiry' BY <1>13 DEF OverlapOnlyAfterExpiry, Fits
<1>16. DeliveredWasHandled' /\ DeadLetterIsExhausted' /\ AbsentIsUnclaimed'
  BY <1>3 DEF DeliveredWasHandled, DeadLetterIsExhausted, AbsentIsUnclaimed, ClaimOne
<1>17. StoppedHoldsNothing' BY <1>8 DEF StoppedHoldsNothing, ClaimOne
<1>18. WorkersFit' BY <1>8 DEF WorkersFit, current, ClaimOne
<1> QED BY <1>9, <1>12, <1>14, <1>15, <1>16, <1>17, <1>18

-----------------------------------------------------------------------------
(* Recording *)

(* What is left of a batch when its first claim is finished. *)
LEMMA AdvanceLeaves ==
  ASSUME InductiveInvariant, NEW w \in Workers, wpc[w] \in {"mark", "fail"}, Advance(w),
         UNCHANGED handled
  PROVE  /\ batch' \in [Workers -> Seq(Claimed)] /\ wpc' \in [Workers -> Places]
         /\ \A v \in Workers : Len(batch'[v]) <= BatchLimit
         /\ \A v \in Workers : \A i \in 1..Len(batch'[v]) :
              IF v = w THEN i + 1 \in 1..Len(batch[v]) /\ batch'[v][i] = batch[v][i + 1]
                       ELSE i \in 1..Len(batch[v]) /\ batch'[v][i] = batch[v][i]
         /\ StoppedHoldsNothing' /\ WorkersFit'
<1> USE DEF InductiveInvariant
<1>1. batch[w] # <<>> /\ batch[w] \in Seq(Claimed) BY DEF WorkersFit, TypeOK
<1>2. /\ Len(batch[w]) \in Nat \ {0} /\ Tail(batch[w]) \in Seq(Claimed)
      /\ Len(Tail(batch[w])) = Len(batch[w]) - 1
      /\ \A i \in 1..Len(Tail(batch[w])) :
           i + 1 \in 1..Len(batch[w]) /\ Tail(batch[w])[i] = batch[w][i + 1]
  BY <1>1, HeadAndTail
<1>3. /\ batch' \in [Workers -> Seq(Claimed)]
      /\ batch'[w] = Tail(batch[w])
      /\ \A v \in Workers : v # w => batch'[v] = batch[v]
  BY <1>2 DEF TypeOK, Advance
<1>4. PICK place \in {"loop", "handle"} :
        /\ GoTo(w, place)
        /\ place = "loop" <=> Len(batch[w]) = 1
  <2>1. CASE Len(batch[w]) = 1 BY <2>1 DEF Advance
  <2>2. CASE Len(batch[w]) # 1 BY <2>2 DEF Advance
  <2> QED BY <2>1, <2>2
<1>5. /\ wpc' \in [Workers -> Places]
      /\ \A v \in Workers : wpc'[v] = IF v = w THEN place ELSE wpc[v]
  BY <1>4, Goes DEF Places
<1>6. \A v \in Workers : Len(batch'[v]) <= BatchLimit
  <2>1. Len(batch[w]) <= BatchLimit /\ Len(batch[w]) \in Nat /\ BatchLimit \in Nat
    BY <1>2, OutboxAssumption DEF TypeOK
  <2>2. Len(batch'[w]) <= BatchLimit BY <1>2, <1>3, <2>1
  <2>3. \A v \in Workers : v # w => Len(batch'[v]) <= BatchLimit BY <1>3 DEF TypeOK
  <2> QED BY <2>2, <2>3
<1>7. Tail(batch[w]) = <<>> <=> Len(batch[w]) = 1
  <2> DEFINE rest == Tail(batch[w])
  <2>1. rest \in Seq(Claimed) /\ Len(rest) = Len(batch[w]) - 1 /\ Len(batch[w]) \in Nat
    BY <1>2
  <2> HIDE DEF rest
  <2>2. rest = <<>> <=> Len(rest) = 0 BY <2>1, EmptySeq
  <2>3. rest = <<>> <=> Len(batch[w]) = 1 BY <2>1, <2>2
  <2> QED BY <2>3 DEF rest
<1>8. StoppedHoldsNothing' BY <1>3, <1>4, <1>5, <1>7 DEF StoppedHoldsNothing
<1>9. WorkersFit' BY <1>3, <1>4, <1>5, <1>7 DEF WorkersFit, current
<1> QED BY <1>2, <1>3, <1>5, <1>6, <1>8, <1>9

LEMMA ApartAfterAdvance ==
  ASSUME InductiveInvariant, NEW w \in Workers, wpc[w] \in {"mark", "fail"}, Advance(w),
         UNCHANGED handled
  PROVE  ClaimsAreApart'
<1>1. \A v \in Workers : \A i \in 1..Len(batch'[v]) :
        IF v = w THEN i + 1 \in 1..Len(batch[v]) /\ batch'[v][i] = batch[v][i + 1]
                 ELSE i \in 1..Len(batch[v]) /\ batch'[v][i] = batch[v][i]
  BY AdvanceLeaves
<1>2. ASSUME NEW u \in Workers, NEW v \in Workers,
             NEW i \in 1..Len(batch'[u]), NEW j \in 1..Len(batch'[v]),
             batch'[u][i].event = batch'[v][j].event,
             batch'[u][i].attempts = batch'[v][j].attempts
      PROVE  u = v /\ i = j
  <2>1. PICK a \in 1..Len(batch[u]) :
          batch'[u][i] = batch[u][a] /\ a = IF u = w THEN i + 1 ELSE i
    BY <1>1
  <2>2. PICK b \in 1..Len(batch[v]) :
          batch'[v][j] = batch[v][b] /\ b = IF v = w THEN j + 1 ELSE j
    BY <1>1
  <2>3. batch[u][a].event = batch[v][b].event /\ batch[u][a].attempts = batch[v][b].attempts
    BY <1>2, <2>1, <2>2
  <2>4. u = v /\ a = b BY <2>3 DEF InductiveInvariant, ClaimsAreApart
  <2> QED BY <2>1, <2>2, <2>4
<1> QED BY <1>2 DEF ClaimsAreApart

(* A claim that is left is not the one that was finished. *)
LEMMA LeftAreOthers ==
  ASSUME InductiveInvariant, NEW w \in Workers, wpc[w] \in {"mark", "fail"}, Advance(w),
         UNCHANGED handled, NEW v \in Workers, NEW i \in 1..Len(batch'[v])
  PROVE  \E c \in Claimed :
           /\ c = batch'[v][i] /\ Fits(c)
           /\ ~(c.event = current(w).event /\ c.attempts = current(w).attempts)
<1>1. PICK j \in 1..Len(batch[v]) : batch'[v][i] = batch[v][j] /\ (v = w => j # 1)
  <2>1. IF v = w THEN i + 1 \in 1..Len(batch[v]) /\ batch'[v][i] = batch[v][i + 1]
                 ELSE i \in 1..Len(batch[v]) /\ batch'[v][i] = batch[v][i]
    BY AdvanceLeaves
  <2> QED BY <2>1
<1>2. PICK c \in Claimed : c = batch[v][j] BY ClaimsOf DEF InductiveInvariant
<1>3. AllFit BY FitByClaim DEF InductiveInvariant
<1>4. Fits(c) BY <1>2, <1>3 DEF AllFit, Fits
<1>5. current(w) = batch[w][1] /\ 1 \in 1..Len(batch[w])
  BY Current DEF InductiveInvariant, WorkersFit
<1>6. ~(c.event = current(w).event /\ c.attempts = current(w).attempts)
  BY <1>1, <1>2, <1>5 DEF InductiveInvariant, ClaimsAreApart
<1> QED BY <1>1, <1>2, <1>4, <1>6

(* The updates of markDelivered and markFailed, under the claim or not at  *)
(* all: of the document they change, they keep the number of claims.       *)
Updates(w) ==
  \/ UNCHANGED delivery
  \/ /\ HoldsClaim(w)
     /\ \E d \in Delivery :
          /\ delivery' = [delivery EXCEPT ![current(w).event] = d]
          /\ d.attempts = delivery[current(w).event].attempts
          /\ d.status \in {"Delivered", "Failed", "DeadLetter"}
          /\ d.status = "Delivered" => current(w).event \in handled
          /\ d.status = "DeadLetter" => d.attempts = MaxAttempts

(* After an update the other claims still fit. *)
LEMMA OthersFit ==
  ASSUME InductiveInvariant, NEW w \in Workers, batch[w] # <<>>, Updates(w), now' = now,
         NEW c \in Claimed, Fits(c),
         ~(c.event = current(w).event /\ c.attempts = current(w).attempts)
  PROVE  Fits(c)'
<1>1. CASE UNCHANGED delivery BY <1>1 DEF Fits
<1>2. CASE /\ HoldsClaim(w)
           /\ \E d \in Delivery :
                /\ delivery' = [delivery EXCEPT ![current(w).event] = d]
                /\ d.attempts = delivery[current(w).event].attempts
  <2>1. PICK d \in Delivery :
          /\ delivery' = [delivery EXCEPT ![current(w).event] = d]
          /\ d.attempts = delivery[current(w).event].attempts
    BY <1>2
  <2>2. c.event \in Events /\ delivery \in [Events -> Delivery]
    BY DEF Claimed, InductiveInvariant, TypeOK
  <2>3. delivery'[c.event] = IF c.event = current(w).event THEN d ELSE delivery[c.event]
    BY <2>1, <2>2
  <2>4. CASE c.event # current(w).event BY <2>3, <2>4 DEF Fits
  <2>5. CASE c.event = current(w).event
    <3>1. c.attempts # d.attempts BY <1>2, <2>1, <2>5 DEF HoldsClaim
    <3> QED BY <2>1, <2>3, <2>5, <3>1 DEF Fits
  <2> QED BY <2>4, <2>5
<1> QED BY <1>1, <1>2 DEF Updates

LEMMA UpdateKeepsDocuments ==
  ASSUME InductiveInvariant, NEW w \in Workers, batch[w] # <<>>, Updates(w), UNCHANGED handled
  PROVE  /\ delivery' \in [Events -> Delivery]
         /\ DeliveredWasHandled' /\ DeadLetterIsExhausted' /\ AbsentIsUnclaimed'
<1> USE DEF InductiveInvariant
<1>1. current(w).event \in Events BY Current DEF Claimed
<1>2. CASE UNCHANGED delivery
  BY <1>2 DEF TypeOK, DeliveredWasHandled, DeadLetterIsExhausted, AbsentIsUnclaimed
<1>3. ASSUME NEW d \in Delivery,
             delivery' = [delivery EXCEPT ![current(w).event] = d],
             d.attempts = delivery[current(w).event].attempts,
             d.status \in {"Delivered", "Failed", "DeadLetter"},
             d.status = "Delivered" => current(w).event \in handled,
             d.status = "DeadLetter" => d.attempts = MaxAttempts
      PROVE  /\ delivery' \in [Events -> Delivery]
             /\ DeliveredWasHandled' /\ DeadLetterIsExhausted' /\ AbsentIsUnclaimed'
  <2>1. delivery' \in [Events -> Delivery] BY <1>1, <1>3 DEF TypeOK
  <2>2. \A e \in Events :
          delivery'[e] = IF e = current(w).event THEN d ELSE delivery[e]
    BY <1>3 DEF TypeOK
  <2> QED BY <1>3, <2>1, <2>2
          DEF DeliveredWasHandled, DeadLetterIsExhausted, AbsentIsUnclaimed
<1> QED BY <1>2, <1>3 DEF Updates

(* Every way to record an event is such an update. *)
LEMMA RecordingUpdates ==
  ASSUME InductiveInvariant, NEW w \in Workers,
         MarkDelivered(w) \/ MarkDeliveredThrows(w) \/ MarkFailed(w)
  PROVE  batch[w] # <<>> /\ Updates(w)
<1> USE DEF InductiveInvariant
<1>1. batch[w] # <<>>
  BY DEF WorkersFit, MarkDelivered, MarkDeliveredThrows, MarkFailed
<1>2. /\ current(w).event \in Events /\ current(w).attempts \in 1..MaxAttempts
      /\ delivery \in [Events -> Delivery] /\ delivery[current(w).event] \in Delivery
      /\ now \in Nat
  BY <1>1, Current DEF Claimed, TypeOK
<1> DEFINE old == delivery[current(w).event]
<1>3. ASSUME wpc[w] = "mark", HoldsClaim(w),
             delivery' = [delivery EXCEPT ![current(w).event].status = "Delivered"]
      PROVE  Updates(w)
  <2> DEFINE d == [status |-> "Delivered", attempts |-> old.attempts,
                   availableAt |-> old.availableAt, leaseExpiresAt |-> old.leaseExpiresAt]
  <2>1. d \in Delivery BY <1>2 DEF Delivery
  <2>2. [old EXCEPT !.status = "Delivered"] = d BY <1>2 DEF Delivery
  <2>3. delivery' = [delivery EXCEPT ![current(w).event] = d] BY <1>3, <2>2
  <2>4. current(w).event \in handled BY <1>3 DEF WorkersFit
  <2> QED BY <1>3, <2>1, <2>3, <2>4 DEF Updates
<1>4. ASSUME MarkFailed(w), HoldsClaim(w) PROVE Updates(w)
  <2> DEFINE end == IF Dead(current(w).attempts) THEN "DeadLetter" ELSE "Failed"
             d == [status |-> end, attempts |-> old.attempts, leaseExpiresAt |-> old.leaseExpiresAt,
                   availableAt |-> now + Backoff(current(w).attempts)]
  <2>1. now + Backoff(current(w).attempts) \in Int BY <1>2, Waits, OutboxAssumption
  <2>2. end \in {"DeadLetter", "Failed"} OBVIOUS
  <2>3. d \in Delivery
    <3> HIDE DEF end
    <3> QED BY <1>2, <2>1, <2>2 DEF Delivery
  <2>4. delivery' = [delivery EXCEPT ![current(w).event] = d] BY <1>4 DEF MarkFailed
  <2>5. end = "DeadLetter" => old.attempts = MaxAttempts
    BY <1>2, <1>4, OutboxAssumption DEF Dead, HoldsClaim
  <2> QED
    <3> HIDE DEF end
    <3> QED BY <1>4, <2>2, <2>3, <2>4, <2>5 DEF Updates
<1> QED BY <1>1, <1>3, <1>4 DEF MarkDelivered, MarkDeliveredThrows, MarkFailed, Updates

LEMMA MarkKeeps ==
  ASSUME InductiveInvariant, NEW w \in Workers, MarkDelivered(w) \/ MarkFailed(w)
  PROVE  InductiveInvariant'
<1>1. /\ wpc[w] \in {"mark", "fail"} /\ Advance(w)
      /\ UNCHANGED <<now, running, handled, faults>>
  BY DEF MarkDelivered, MarkFailed
<1>2. batch[w] # <<>> /\ Updates(w) BY RecordingUpdates
<1>3. /\ delivery' \in [Events -> Delivery]
      /\ DeliveredWasHandled' /\ DeadLetterIsExhausted' /\ AbsentIsUnclaimed'
  BY <1>1, <1>2, UpdateKeepsDocuments
<1>4. /\ batch' \in [Workers -> Seq(Claimed)] /\ wpc' \in [Workers -> Places]
      /\ \A v \in Workers : Len(batch'[v]) <= BatchLimit
      /\ StoppedHoldsNothing' /\ WorkersFit'
  BY <1>1, AdvanceLeaves
<1>5. TypeOK' BY <1>1, <1>3, <1>4 DEF InductiveInvariant, TypeOK
<1>6. ClaimsAreApart' BY <1>1, ApartAfterAdvance
<1>7. ASSUME NEW v \in Workers, NEW i \in 1..Len(batch'[v])
      PROVE  \E c \in Claimed : c = batch'[v][i] /\ Fits(c)'
  <2>1. PICK c \in Claimed :
          /\ c = batch'[v][i] /\ Fits(c)
          /\ ~(c.event = current(w).event /\ c.attempts = current(w).attempts)
    BY <1>1, LeftAreOthers
  <2>2. now' = now BY <1>1
  <2>3. Fits(c)' BY <1>2, <2>1, <2>2, OthersFit
  <2> QED BY <2>1, <2>3
<1>8. ClaimsFitDeliveries' BY <1>7 DEF ClaimsFitDeliveries, Fits
<1>9. OverlapOnlyAfterExpiry' BY <1>7 DEF OverlapOnlyAfterExpiry, Fits
<1> QED BY <1>3, <1>4, <1>5, <1>6, <1>8, <1>9 DEF InductiveInvariant

(* Here the claim is still held, and is about to be marked as failed.      *)
LEMMA MarkThrowsKeeps ==
  ASSUME InductiveInvariant, NEW w \in Workers, MarkDeliveredThrows(w)
  PROVE  InductiveInvariant'
<1> USE DEF MarkDeliveredThrows
<1>1. batch[w] # <<>> /\ Updates(w) BY RecordingUpdates
<1>2. /\ delivery' \in [Events -> Delivery]
      /\ DeliveredWasHandled' /\ DeadLetterIsExhausted' /\ AbsentIsUnclaimed'
  BY <1>1, UpdateKeepsDocuments
<1>3. /\ wpc' \in [Workers -> Places]
      /\ \A v \in Workers : wpc'[v] = IF v = w THEN "fail" ELSE wpc[v]
  BY Goes DEF InductiveInvariant, Places
<1>4. TypeOK' BY <1>2, <1>3, OutboxAssumption DEF InductiveInvariant, TypeOK
<1>5. StoppedHoldsNothing' BY <1>3 DEF InductiveInvariant, StoppedHoldsNothing
<1>6. WorkersFit' BY <1>1, <1>3 DEF InductiveInvariant, WorkersFit, current
<1>7. ClaimsAreApart' BY DEF InductiveInvariant, ClaimsAreApart
<1>8. ASSUME NEW v \in Workers, NEW i \in 1..Len(batch'[v])
      PROVE  \E c \in Claimed : c = batch'[v][i] /\ Fits(c)'
  <2>1. batch' = batch /\ now' = now OBVIOUS
  <2>2. PICK c \in Claimed : c = batch[v][i]
    BY <2>1, ClaimsOf DEF InductiveInvariant
  <2>3. AllFit BY FitByClaim DEF InductiveInvariant
  <2>4. Fits(c) BY <2>1, <2>2, <2>3 DEF AllFit, Fits
  <2>5. CASE c.event = current(w).event /\ c.attempts = current(w).attempts
    <3>1. CASE UNCHANGED delivery
      <4>1. Fits(c)' BY <2>1, <2>4, <3>1 DEF Fits
      <4> QED BY <2>1, <2>2, <4>1
    <3>2. CASE delivery' = [delivery EXCEPT ![current(w).event].status = "Delivered"]
      <4>1. c.event \in Events /\ delivery \in [Events -> Delivery]
        BY DEF Claimed, InductiveInvariant, TypeOK
      <4>2. /\ delivery'[c.event].status = "Delivered"
            /\ delivery'[c.event].attempts = delivery[c.event].attempts
        BY <2>5, <3>2, <4>1 DEF Delivery
      <4>3. Fits(c)' BY <2>1, <2>4, <4>2 DEF Fits
      <4> QED BY <2>1, <2>2, <4>3
    <3> QED BY <3>1, <3>2
  <2>6. CASE ~(c.event = current(w).event /\ c.attempts = current(w).attempts)
    <3>1. Fits(c)' BY <1>1, <2>1, <2>4, <2>6, OthersFit
    <3> QED BY <2>1, <2>2, <3>1
  <2> QED BY <2>5, <2>6
<1>9. ClaimsFitDeliveries' BY <1>8 DEF ClaimsFitDeliveries, Fits
<1>10. OverlapOnlyAfterExpiry' BY <1>8 DEF OverlapOnlyAfterExpiry, Fits
<1> QED BY <1>2, <1>4, <1>5, <1>6, <1>7, <1>9, <1>10 DEF InductiveInvariant

-----------------------------------------------------------------------------
(* The theorems *)

LEMMA Initially == Init => InductiveInvariant
<1> SUFFICES ASSUME Init PROVE InductiveInvariant OBVIOUS
<1>1. <<>> \in Seq(Claimed) /\ Len(<<>>) = 0 BY EmptySeq
<1>2. TypeOK BY <1>1, OutboxAssumption DEF Init, TypeOK, Delivery, Places
<1>3. DeliveredWasHandled /\ DeadLetterIsExhausted /\ AbsentIsUnclaimed
  BY DEF Init, DeliveredWasHandled, DeadLetterIsExhausted, AbsentIsUnclaimed
<1>4. StoppedHoldsNothing /\ WorkersFit BY DEF Init, StoppedHoldsNothing, WorkersFit
<1>5. \A w \in Workers : ~\E i \in 1..Len(batch[w]) : TRUE BY <1>1 DEF Init
<1>6. ClaimsAreApart /\ ClaimsFitDeliveries /\ OverlapOnlyAfterExpiry
  BY <1>5 DEF ClaimsAreApart, ClaimsFitDeliveries, OverlapOnlyAfterExpiry
<1> QED BY <1>2, <1>3, <1>4, <1>6 DEF InductiveInvariant

(* Whatever workers crash, are slow or are stopped, in every state: what   *)
(* is delivered was handled, what is dead-lettered was claimed MaxAttempts *)
(* times, a stopped worker holds nothing, no claim is held twice, and the  *)
(* latest claim holds the lease of its document.                           *)
THEOREM InductiveInvariantHolds == Spec => []InductiveInvariant
<1>1. ASSUME InductiveInvariant, [Next]_vars PROVE InductiveInvariant'
  <2>1. ASSUME NEW e \in Events, CommitEvent(e) PROVE InductiveInvariant'
    BY <1>1, <2>1, CommitKeeps
  <2>2. ASSUME NEW w \in Workers, Work(w) PROVE InductiveInvariant'
    BY <1>1, <2>2, RoundKeeps, ClaimKeeps, HandleKeeps, MarkKeeps DEF Work
  <2>3. ASSUME NEW w \in Workers,
               MarkDeliveredThrows(w) \/ Crash(w) \/ Signal(w) \/ Restart(w)
        PROVE  InductiveInvariant'
    BY <1>1, <2>3, MarkThrowsKeeps, CrashKeeps, SignalKeeps, RoundKeeps
  <2>4. CASE Tick BY <1>1, <2>4, TickKeeps
  <2>5. CASE UNCHANGED vars BY <1>1, <2>5, StutterKeeps
  <2> QED BY <1>1, <2>1, <2>2, <2>3, <2>4, <2>5 DEF Next
<1> QED BY Initially, <1>1, PTL DEF Spec

(* Two workers work on one event only after the lease of the older claim   *)
(* has run out, however many workers there are.                            *)
THEOREM OverlapOnlyAfterExpiryHolds == Spec => []OverlapOnlyAfterExpiry
<1>1. InductiveInvariant => OverlapOnlyAfterExpiry BY DEF InductiveInvariant
<1> QED BY <1>1, InductiveInvariantHolds, PTL

(* A late worker never changes what is delivered or dead-lettered.         *)
THEOREM SettledIsFinalHolds == Spec => SettledIsFinal
<1> DEFINE Final == \A e \in Events :
             delivery[e].status \in {"Delivered", "DeadLetter"} => delivery'[e] = delivery[e]
<1>1. ASSUME InductiveInvariant, [Next]_vars PROVE Final
  <2>1. ASSUME NEW f \in Events, CommitEvent(f) PROVE Final
    BY <2>1 DEF CommitEvent, InductiveInvariant, TypeOK
  <2>2. ASSUME NEW w \in Workers, NEW f \in Events, ClaimOne(w, f) PROVE Final
    BY <2>2 DEF ClaimOne, Claimable, InductiveInvariant, TypeOK
  <2>3. ASSUME NEW w \in Workers,
               MarkDelivered(w) \/ MarkDeliveredThrows(w) \/ MarkFailed(w)
        PROVE  Final
    BY <1>1, <2>3, RecordingUpdates DEF Updates, HoldsClaim, InductiveInvariant, TypeOK
  <2>4. CASE UNCHANGED delivery BY <2>4
  <2>5. ASSUME NEW w \in Workers,
               NextRound(w) \/ EndClaim(w) \/ Wake(w) \/ Handle(w)
               \/ Crash(w) \/ Signal(w) \/ Restart(w)
        PROVE  UNCHANGED delivery
    BY <2>5 DEF NextRound, EndClaim, Wake, Handle, Crash, Signal, Restart
  <2>6. Tick \/ UNCHANGED vars => UNCHANGED delivery BY DEF Tick, vars
  <2> HIDE DEF Final
  <2> QED BY <1>1, <2>1, <2>2, <2>3, <2>4, <2>5, <2>6 DEF Next, Work
<1>2. ASSUME InductiveInvariant, [Next]_vars PROVE [Final]_vars BY <1>1, <1>2
<1> QED BY <1>2, InductiveInvariantHolds, PTL DEF Spec, SettledIsFinal

-----------------------------------------------------------------------------
(* The promise *)

standing == [e \in Events |-> StandingOf(delivery[e].status)]
tries == [e \in Events |-> delivery[e].attempts]

(* An update of one document updates its standing and its tries.           *)
LEMMA OneDocument ==
  ASSUME TypeOK, NEW e \in Events, NEW d \in Delivery, delivery' = [delivery EXCEPT ![e] = d]
  PROVE  /\ d.attempts = delivery[e].attempts => tries' = tries
         /\ tries' = [tries EXCEPT ![e] = d.attempts]
         /\ StandingOf(d.status) = StandingOf(delivery[e].status) => standing' = standing
         /\ standing' = [standing EXCEPT ![e] = StandingOf(d.status)]
<1>1. \A f \in Events : delivery'[f] = IF f = e THEN d ELSE delivery[f] BY DEF TypeOK
<1>2. /\ \A f \in Events : tries'[f] = IF f = e THEN d.attempts ELSE tries[f]
      /\ \A f \in Events : tries[f] = delivery[f].attempts
  BY <1>1 DEF tries
<1>3. /\ \A f \in Events : standing'[f] = IF f = e THEN StandingOf(d.status) ELSE standing[f]
      /\ \A f \in Events : standing[f] = StandingOf(delivery[f].status)
  BY <1>1 DEF standing
<1>4. tries' = [f \in Events |-> tries'[f]] /\ tries = [f \in Events |-> tries[f]] BY DEF tries
<1>5. standing' = [f \in Events |-> standing'[f]] /\ standing = [f \in Events |-> standing[f]]
  BY DEF standing
<1>6. tries' = [tries EXCEPT ![e] = d.attempts]
  <2>1. tries' \in [Events -> {tries'[f] : f \in Events}] BY <1>4
  <2> QED BY <1>2, <1>4
<1>7. standing' = [standing EXCEPT ![e] = StandingOf(d.status)] BY <1>3, <1>5
<1> QED BY <1>2, <1>3, <1>4, <1>5, <1>6, <1>7

Untouched == standing' = standing /\ tries' = tries /\ handled' = handled

LEMMA UntouchedStutters ==
  ASSUME Untouched PROVE [Promise!Next]_(Promise!vars)
BY DEF Untouched, standing, tries, Promise!vars

LEMMA CommitEventOccurs ==
  ASSUME InductiveInvariant, NEW e \in Events, CommitEvent(e)
  PROVE  Promise!Occur(e)
<1> DEFINE d == [status |-> "Pending", attempts |-> 0, availableAt |-> now, leaseExpiresAt |-> 0]
<1>1. /\ d \in Delivery /\ delivery' = [delivery EXCEPT ![e] = d]
      /\ delivery[e].status = "Absent" /\ delivery[e].attempts = 0 /\ handled' = handled
  BY OutboxAssumption DEF InductiveInvariant, TypeOK, CommitEvent, AbsentIsUnclaimed, Delivery
<1>2. d.attempts = 0 /\ StandingOf(d.status) = "Open" BY DEF StandingOf
<1> HIDE DEF d
<1>3. tries' = tries /\ standing' = [standing EXCEPT ![e] = "Open"]
  BY <1>1, <1>2, OneDocument DEF InductiveInvariant
<1>4. standing[e] = "Absent" BY <1>1 DEF standing, StandingOf
<1> QED BY <1>1, <1>3, <1>4 DEF Promise!Occur, standing, tries

LEMMA ClaimHandsOut ==
  ASSUME InductiveInvariant, NEW w \in Workers, NEW e \in Events, ClaimOne(w, e)
  PROVE  Promise!HandOut(e)
<1> DEFINE old == delivery[e]
           d == [status |-> "Processing", attempts |-> old.attempts + 1,
                 availableAt |-> old.availableAt, leaseExpiresAt |-> now + LeaseMs]
<1>1. /\ old \in Delivery /\ old.attempts \in Nat /\ old.attempts < MaxAttempts
      /\ old.status \in {"Pending", "Failed", "Processing"}
      /\ now \in Nat /\ handled' = handled
  BY OutboxAssumption DEF InductiveInvariant, TypeOK, ClaimOne, Claimable, Delivery
<1>2. delivery' = [delivery EXCEPT ![e] = d] BY DEF ClaimOne
<1>3. d \in Delivery
  <2>1. old.attempts + 1 \in 0..MaxAttempts /\ now + LeaseMs \in Nat BY <1>1, OutboxAssumption
  <2> QED BY <1>1, <2>1 DEF Delivery
<1>4. d.attempts = old.attempts + 1 /\ StandingOf(d.status) = "Open" BY DEF StandingOf
<1>5. StandingOf(old.status) = "Open" BY <1>1 DEF StandingOf
<1> HIDE DEF d
<1>6. tries' = [tries EXCEPT ![e] = d.attempts] /\ standing' = standing
  BY <1>2, <1>3, <1>4, <1>5, OneDocument DEF InductiveInvariant
<1>7. tries[e] = old.attempts /\ standing[e] = "Open" BY <1>5 DEF tries, standing
<1>8. tries' = [tries EXCEPT ![e] = @ + 1] BY <1>4, <1>6, <1>7
<1> QED BY <1>1, <1>6, <1>7, <1>8 DEF Promise!HandOut, standing, tries

LEMMA HandleSucceeds ==
  ASSUME InductiveInvariant, NEW w \in Workers, Handle(w)
  PROVE  Untouched \/ \E e \in Events : Promise!Succeed(e)
<1>1. delivery' = delivery BY DEF Handle
<1>2. standing' = standing /\ tries' = tries BY <1>1 DEF standing, tries
<1>3. CASE handled' = handled BY <1>2, <1>3 DEF Untouched
<1>4. CASE handled' = handled \cup {current(w).event}
  <2>1. batch[w] # <<>> BY DEF InductiveInvariant, WorkersFit, Handle
  <2>2. /\ current(w) \in Claimed /\ current(w) = batch[w][1] /\ 1 \in 1..Len(batch[w])
    BY <2>1, Current DEF InductiveInvariant
  <2>3. current(w).event \in Events /\ current(w).attempts \in 1..MaxAttempts BY <2>2 DEF Claimed
  <2>4. current(w).attempts <= delivery[current(w).event].attempts
    BY <2>2 DEF InductiveInvariant, ClaimsFitDeliveries
  <2>5. delivery[current(w).event].attempts \in Nat
    <3>1. delivery[current(w).event] \in Delivery BY <2>3 DEF InductiveInvariant, TypeOK
    <3> QED BY <3>1, OutboxAssumption DEF Delivery
  <2>6. delivery[current(w).event].attempts > 0 BY <2>3, <2>4, <2>5, OutboxAssumption
  <2>7. tries[current(w).event] > 0 BY <2>3, <2>6 DEF tries
  <2>8. Promise!Succeed(current(w).event) BY <1>2, <1>4, <2>7 DEF Promise!Succeed, standing, tries
  <2> QED BY <2>3, <2>8
<1> QED BY <1>3, <1>4 DEF Handle

(* Recording an event settles it, leaves it open or matches nothing.       *)
LEMMA RecordingSettles ==
  ASSUME InductiveInvariant, NEW w \in Workers,
         MarkDelivered(w) \/ MarkDeliveredThrows(w) \/ MarkFailed(w)
  PROVE  Untouched \/ \E e \in Events : Promise!Deliver(e) \/ Promise!GiveUp(e)
<1>1. batch[w] # <<>> /\ Updates(w) BY RecordingUpdates
<1>2. handled' = handled BY DEF MarkDelivered, MarkDeliveredThrows, MarkFailed
<1>3. CASE UNCHANGED delivery BY <1>2, <1>3 DEF Untouched, standing, tries
<1>4. CASE ~UNCHANGED delivery
  <2>1. PICK e \in Events : e = current(w).event
    BY <1>1, Current DEF InductiveInvariant, Claimed
  <2>2. PICK d \in Delivery :
          /\ delivery[e].status = "Processing"
          /\ delivery' = [delivery EXCEPT ![e] = d]
          /\ d.attempts = delivery[e].attempts
          /\ d.status \in {"Delivered", "Failed", "DeadLetter"}
          /\ d.status = "Delivered" => e \in handled
          /\ d.status = "DeadLetter" => d.attempts = MaxAttempts
    BY <1>1, <1>4, <2>1 DEF Updates, HoldsClaim
  <2>3. /\ tries' = tries /\ standing' = [standing EXCEPT ![e] = StandingOf(d.status)]
        /\ StandingOf(d.status) = StandingOf(delivery[e].status) => standing' = standing
    BY <2>2, OneDocument DEF InductiveInvariant
  <2>4. standing[e] = "Open" /\ tries[e] = delivery[e].attempts
    BY <2>2 DEF standing, tries, StandingOf
  <2>5. CASE d.status = "Delivered"
    <3>1. StandingOf(d.status) = "Delivered" BY <2>5 DEF StandingOf
    <3> QED BY <1>2, <2>2, <2>3, <2>4, <2>5, <3>1 DEF Promise!Deliver, standing, tries
  <2>6. CASE d.status = "DeadLetter"
    <3>1. StandingOf(d.status) = "DeadLetter" BY <2>6 DEF StandingOf
    <3> QED BY <1>2, <2>2, <2>3, <2>4, <2>6, <3>1 DEF Promise!GiveUp, standing, tries
  <2>7. CASE d.status = "Failed"
    <3>1. StandingOf(d.status) = StandingOf(delivery[e].status) BY <2>2, <2>7 DEF StandingOf
    <3> QED BY <1>2, <2>3, <3>1 DEF Untouched
  <2> QED BY <2>2, <2>5, <2>6, <2>7
<1> QED BY <1>3, <1>4

(* The workers keep the promise of EventDelivery: at least once, at most   *)
(* MaxAttempts tries, nothing delivered that was not handled, nothing      *)
(* given up early, nothing taken back.                                     *)
THEOREM OutboxKeepsItsPromise == Spec => ImplementsDelivery
<1>1. Init => Promise!Init
  BY DEF Init, Promise!Init, StandingOf
<1>2. ASSUME InductiveInvariant, [Next]_vars PROVE [Promise!Next]_(Promise!vars)
  <2>1. ASSUME NEW e \in Events, CommitEvent(e) PROVE [Promise!Next]_(Promise!vars)
    BY <1>2, <2>1, CommitEventOccurs DEF Promise!Next
  <2>2. ASSUME NEW w \in Workers, NEW e \in Events, ClaimOne(w, e)
        PROVE  [Promise!Next]_(Promise!vars)
    BY <1>2, <2>2, ClaimHandsOut DEF Promise!Next
  <2>3. ASSUME NEW w \in Workers, Handle(w) PROVE [Promise!Next]_(Promise!vars)
    BY <1>2, <2>3, HandleSucceeds, UntouchedStutters DEF Promise!Next
  <2>4. ASSUME NEW w \in Workers,
               MarkDelivered(w) \/ MarkDeliveredThrows(w) \/ MarkFailed(w)
        PROVE  [Promise!Next]_(Promise!vars)
    BY <1>2, <2>4, RecordingSettles, UntouchedStutters DEF Promise!Next
  <2>5. ASSUME NEW w \in Workers,
               NextRound(w) \/ EndClaim(w) \/ Wake(w) \/ Crash(w) \/ Signal(w) \/ Restart(w)
        PROVE  UNCHANGED <<delivery, handled>>
    BY <2>5 DEF NextRound, EndClaim, Wake, Crash, Signal, Restart
  <2>6. Tick \/ UNCHANGED vars => UNCHANGED <<delivery, handled>> BY DEF Tick, vars
  <2>7. ASSUME UNCHANGED <<delivery, handled>> PROVE [Promise!Next]_(Promise!vars)
    <3>1. Untouched BY <2>7 DEF Untouched, standing, tries
    <3> QED BY <3>1, UntouchedStutters
  <2> QED BY <1>2, <2>1, <2>2, <2>3, <2>4, <2>5, <2>6, <2>7 DEF Next, Work
<1> QED BY <1>1, <1>2, InductiveInvariantHolds, PTL DEF Spec, ImplementsDelivery, Promise!Spec

=============================================================================
