--------------------------- MODULE TaskPlannerProofs ---------------------------
(***************************************************************************)
(* Proofs about TaskPlanner, for any calls, limits, window and times: the  *)
(* inductive invariant, the rate limit of every window and the circuit.    *)
(***************************************************************************)
EXTENDS TaskPlanner, FiniteSetTheorems, TLAPS

(* What the steps tell apart is finite: sets of calls. *)
LEMMA CallsAreFinite ==
  ASSUME NEW S \in SUBSET Calls
  PROVE  IsFiniteSet(S) /\ Cardinality(S) \in Nat
BY FS_Subset, FS_CardinalityType, PlannerAssumption

LEMMA OneMore ==
  ASSUME NEW S \in SUBSET Calls, NEW c \in Calls \ S
  PROVE  Cardinality(S \cup {c}) = Cardinality(S) + 1
BY CallsAreFinite, FS_AddElement

LEMMA OneLess ==
  ASSUME NEW S \in SUBSET Calls, NEW c \in S
  PROVE  Cardinality(S \ {c}) = Cardinality(S) - 1
BY CallsAreFinite, FS_RemoveElement

LEMMA FewerOrAsMany ==
  ASSUME NEW S \in SUBSET Calls, NEW T \in SUBSET S
  PROVE  Cardinality(T) <= Cardinality(S)
BY CallsAreFinite, FS_Subset

-----------------------------------------------------------------------------
(* The inductive invariant *)

LEMMA PlannerInitially == PlannerInit => PlannerInvariant
<1> SUFFICES ASSUME PlannerInit PROVE PlannerInvariant OBVIOUS
<1>1. Trying = {} /\ Started = {} BY DEF PlannerInit, Trying, Ended, Started
<1>2. Cardinality(Trying) = 0 BY <1>1, FS_EmptySet
<1>3. PlannerTypes BY <1>1 DEF PlannerInit, PlannerTypes
<1>4. RecentIsKnown BY <1>1 DEF PlannerInit, RecentIsKnown
<1>5. TrippedIsOpen BY DEF PlannerInit, TrippedIsOpen
<1>6. ActiveIsCounted BY <1>2, PlannerAssumption DEF PlannerInit, ActiveIsCounted
<1> QED BY <1>3, <1>4, <1>5, <1>6 DEF PlannerInvariant

LEMMA RejectKeeps ==
  ASSUME PlannerInvariant, NEW c \in Calls, Reject(c)
  PROVE  PlannerInvariant' /\ Started' = Started
<1> USE DEF PlannerInvariant, PlannerTypes, Reject, Comes
<1>1. Trying' = Trying /\ Ended' = Ended /\ Started' = Started
  BY DEF Trying, Ended, Started
<1>2. PlannerTypes' BY <1>1 DEF WithinWindow
<1>3. RecentIsKnown' BY <1>1 DEF RecentIsKnown, WithinWindow
<1>4. TrippedIsOpen' BY DEF TrippedIsOpen
<1>5. ActiveIsCounted' BY <1>1 DEF ActiveIsCounted
<1> QED BY <1>1, <1>2, <1>3, <1>4, <1>5

LEMMA StartKeeps ==
  ASSUME PlannerInvariant, NEW c \in Calls, Start(c)
  PROVE  /\ PlannerInvariant'
         /\ Started' = Started \cup {c} /\ c \notin Started
<1> USE DEF PlannerInvariant, PlannerTypes, Start, Comes
<1>1. /\ Trying' = Trying \cup {c} /\ c \notin Trying
      /\ Ended' = Ended /\ c \notin Ended
      /\ Started' = Started \cup {c}
  BY DEF Trying, Ended, Started
<1>2. PlannerTypes'
  <2>1. planning' \in [Calls -> {"idle", "rejected", "first", "second", "planned", "invalid", "unavailable"}]
        /\ startedAt' \in [Calls -> Nat]
    OBVIOUS
  <2>2. recent' \subseteq Started' BY <1>1 DEF WithinWindow
  <2> QED BY <2>1, <2>2
<1>3. RecentIsKnown'
  <2>1. \A d \in Calls : startedAt'[d] = IF d = c THEN now ELSE startedAt[d]
    OBVIOUS
  <2>2. lastTrip' <= now' /\ \A d \in Calls : startedAt'[d] <= now'
    BY <2>1 DEF RecentIsKnown
  <2>3. ASSUME NEW d \in Started', now' <= startedAt'[d] + Window
        PROVE  d \in recent'
    BY <1>1, <2>1, <2>3 DEF RecentIsKnown, WithinWindow, Started, Trying, Ended
  <2> QED BY <2>2, <2>3 DEF RecentIsKnown
<1>4. TrippedIsOpen' BY DEF TrippedIsOpen
<1>5. ActiveIsCounted'
  <2>1. Cardinality(Trying') = Cardinality(Trying) + 1
    BY <1>1, OneMore DEF Trying
  <2> QED BY <2>1, PlannerAssumption DEF ActiveIsCounted, Admits
<1> QED BY <1>1, <1>2, <1>3, <1>4, <1>5 DEF Started

LEMMA RetryKeeps ==
  ASSUME PlannerInvariant, NEW c \in Calls, Retry(c)
  PROVE  PlannerInvariant' /\ Started' = Started
<1> USE DEF PlannerInvariant, PlannerTypes, Retry
<1>1. Trying' = Trying /\ Ended' = Ended /\ Started' = Started
  BY DEF Trying, Ended, Started
<1>2. PlannerTypes' BY <1>1
<1>3. RecentIsKnown' BY <1>1 DEF RecentIsKnown
<1>4. TrippedIsOpen' BY DEF TrippedIsOpen
<1>5. ActiveIsCounted' BY <1>1 DEF ActiveIsCounted
<1> QED BY <1>1, <1>2, <1>3, <1>4, <1>5

(* A call that ends is given back, and is still one that started.          *)
LEMMA EndCounts ==
  ASSUME PlannerInvariant, NEW c \in Trying,
         NEW result \in {"planned", "invalid", "unavailable"}, End(c, result),
         now' = now
  PROVE  /\ Started' = Started
         /\ planning' \in [Calls -> {"idle", "rejected", "first", "second", "planned", "invalid", "unavailable"}]
         /\ active' \in Nat
         /\ ActiveIsCounted'
<1> USE DEF PlannerInvariant, PlannerTypes, End
<1>1. c \in Calls BY DEF Trying
<1>2. /\ Trying' = Trying \ {c} /\ Ended' = Ended \cup {c}
      /\ Started' = Started
  BY <1>1 DEF Trying, Ended, Started
<1>3. Cardinality(Trying') = Cardinality(Trying) - 1 /\ Cardinality(Trying') \in Nat
  BY <1>2, OneLess, CallsAreFinite DEF Trying
<1>4. ActiveIsCounted' /\ active' \in Nat
  BY <1>3, PlannerAssumption DEF ActiveIsCounted
<1> QED BY <1>1, <1>2, <1>4

LEMMA SucceedKeeps ==
  ASSUME PlannerInvariant, NEW c \in Calls, Succeed(c)
  PROVE  PlannerInvariant' /\ Started' = Started
<1>1. c \in Trying /\ End(c, "planned") /\ now' = now /\ recent' = recent /\ startedAt' = startedAt
  BY DEF Succeed, End
<1>2. /\ Started' = Started /\ active' \in Nat /\ ActiveIsCounted'
      /\ planning' \in [Calls -> {"idle", "rejected", "first", "second", "planned", "invalid", "unavailable"}]
  BY <1>1, EndCounts
<1>3. PlannerTypes' BY <1>1, <1>2 DEF PlannerInvariant, PlannerTypes, Succeed
<1>4. RecentIsKnown' BY <1>1, <1>2 DEF PlannerInvariant, RecentIsKnown, Succeed
<1>5. TrippedIsOpen' BY DEF Succeed, TrippedIsOpen
<1> QED BY <1>2, <1>3, <1>4, <1>5 DEF PlannerInvariant

LEMMA FailKeeps ==
  ASSUME PlannerInvariant, NEW c \in Calls, NEW result \in {"invalid", "unavailable"},
         Fail(c, result)
  PROVE  PlannerInvariant' /\ Started' = Started
<1>1. c \in Trying /\ End(c, result) /\ now' = now /\ recent' = recent /\ startedAt' = startedAt
  BY DEF Fail, End
<1>2. /\ Started' = Started /\ active' \in Nat /\ ActiveIsCounted'
      /\ planning' \in [Calls -> {"idle", "rejected", "first", "second", "planned", "invalid", "unavailable"}]
  BY <1>1, EndCounts
<1>3. PlannerTypes'
  <2>1. now \in Nat /\ streak \in Nat /\ openUntil \in Nat /\ lastTrip \in Nat
        /\ now + OpenFor \in Nat /\ quiet \in BOOLEAN
    BY PlannerAssumption DEF PlannerInvariant, PlannerTypes
  <2>2. now' \in Nat /\ streak' \in Nat BY <1>1, <2>1 DEF Fail
  <2>3. openUntil' \in Nat /\ lastTrip' \in Nat
    BY <2>1 DEF Fail, OpenFromNow
  <2>4. quiet' \in BOOLEAN
    <3>1. quiet' = TRUE \/ quiet' = quiet BY DEF Fail
    <3> QED BY <2>1, <3>1, Zenon
  <2>5. recent' \subseteq Started' /\ startedAt' \in [Calls -> Nat]
    BY <1>1, <1>2 DEF PlannerInvariant, PlannerTypes
  <2> QED BY <1>2, <2>2, <2>3, <2>4, <2>5, Zenon DEF PlannerTypes
<1>4. RecentIsKnown'
  BY <1>1, <1>2 DEF PlannerInvariant, PlannerTypes, RecentIsKnown, Fail
<1>5. TrippedIsOpen' BY DEF PlannerInvariant, Fail, TrippedIsOpen, OpenFromNow
<1> QED BY <1>2, <1>3, <1>4, <1>5 DEF PlannerInvariant

LEMMA TickKeeps ==
  ASSUME PlannerInvariant, PlannerTick
  PROVE  PlannerInvariant' /\ Started' = Started
<1> USE DEF PlannerInvariant, PlannerTypes, PlannerTick
<1>1. Trying' = Trying /\ Started' = Started BY DEF Trying, Ended, Started
<1>2. PlannerTypes' BY <1>1
<1>3. RecentIsKnown'
  <2>1. now \in Nat /\ now' = now + 1 /\ lastTrip \in Nat /\ lastTrip' = lastTrip
        /\ lastTrip <= now /\ startedAt' = startedAt /\ recent' = recent
    BY DEF RecentIsKnown
  <2>2. lastTrip' <= now' BY <2>1
  <2>3. ASSUME NEW d \in Calls PROVE startedAt'[d] <= now'
    BY <2>1 DEF RecentIsKnown
  <2>4. ASSUME NEW d \in Started', now' <= startedAt'[d] + Window PROVE d \in recent'
    <3>1. d \in Started /\ d \in Calls BY <1>1 DEF Started, Trying, Ended
    <3>2. startedAt[d] + Window \in Nat BY <3>1, PlannerAssumption
    <3>3. now <= startedAt[d] + Window BY <2>1, <2>4, <3>2
    <3> QED BY <2>1, <3>1, <3>3 DEF RecentIsKnown
  <2> QED BY <2>2, <2>3, <2>4 DEF RecentIsKnown
<1>4. TrippedIsOpen' BY DEF TrippedIsOpen
<1>5. ActiveIsCounted' BY <1>1 DEF ActiveIsCounted
<1> QED BY <1>1, <1>2, <1>3, <1>4, <1>5

LEMMA StutterKeeps ==
  ASSUME PlannerInvariant, UNCHANGED plannerVars
  PROVE  PlannerInvariant' /\ Started' = Started
<1>1. Trying' = Trying /\ Started' = Started BY DEF plannerVars, Trying, Ended, Started
<1> QED
  BY <1>1 DEF plannerVars, PlannerInvariant, PlannerTypes, RecentIsKnown, TrippedIsOpen, ActiveIsCounted

(* The types of the planner, what it remembers, its open circuit and its   *)
(* active calls hold in every state, for every limit and every window.     *)
THEOREM PlannerInvariantHolds == PlannerSpec => []PlannerInvariant
<1>1. ASSUME PlannerInvariant, [PlannerNext]_plannerVars PROVE PlannerInvariant'
  <2>1. ASSUME NEW c \in Calls, Reject(c) PROVE PlannerInvariant' BY <1>1, <2>1, RejectKeeps
  <2>2. ASSUME NEW c \in Calls, Start(c) PROVE PlannerInvariant' BY <1>1, <2>2, StartKeeps
  <2>3. ASSUME NEW c \in Calls, Attempt(c) PROVE PlannerInvariant'
    BY <1>1, <2>3, RetryKeeps, SucceedKeeps, FailKeeps DEF Attempt
  <2>4. CASE PlannerTick BY <1>1, <2>4, TickKeeps
  <2>5. CASE UNCHANGED plannerVars BY <1>1, <2>5, StutterKeeps
  <2> QED BY <1>1, <2>1, <2>2, <2>3, <2>4, <2>5 DEF PlannerNext
<1> QED BY PlannerInitially, <1>1, PTL DEF PlannerSpec

-----------------------------------------------------------------------------
(* The rate limit *)

(* The calls of the window that begins with the start of a. *)
InWindow(a) == {c \in Started : /\ startedAt[a] <= startedAt[c]
                                /\ startedAt[c] <= startedAt[a] + Window}

LEMMA LimitByWindow == WindowLimit <=> \A a \in Started : Cardinality(InWindow(a)) <= MaxRecent
BY DEF WindowLimit, InWindow

(* A call that starts now joins only windows all of whose calls the        *)
(* planner still remembers.                                                *)
LEMMA StartKeepsLimit ==
  ASSUME PlannerInvariant, WindowLimit, NEW c \in Calls, Start(c)
  PROVE  WindowLimit'
<1> USE DEF PlannerInvariant, PlannerTypes
<1>1. Started' = Started \cup {c} /\ c \notin Started /\ PlannerInvariant'
  BY StartKeeps
<1>2. Started \subseteq Calls /\ recent \subseteq Calls /\ WithinWindow \in SUBSET Calls
      /\ Started' \subseteq Calls
  BY <1>1 DEF Started, Trying, Ended, WithinWindow
<1>3. \A d \in Calls : startedAt'[d] = IF d = c THEN now ELSE startedAt[d]
  BY DEF Start
<1>4. c \notin WithinWindow BY <1>1 DEF WithinWindow
<1>5. Cardinality(WithinWindow \cup {c}) <= MaxRecent
  <2>1. Cardinality(WithinWindow) \in Nat BY <1>2, CallsAreFinite
  <2>2. Cardinality(WithinWindow \cup {c}) = Cardinality(WithinWindow) + 1
    BY <1>2, <1>4, OneMore
  <2> QED BY <2>1, <2>2, PlannerAssumption DEF Start, Admits
<1>6. ASSUME NEW a \in Started' PROVE Cardinality(InWindow(a)') <= MaxRecent
  <2>1. CASE c \in InWindow(a)'
    <3>1. now <= startedAt'[a] + Window BY <1>2, <1>3, <2>1 DEF InWindow
    <3>2. ASSUME NEW d \in InWindow(a)' PROVE d \in WithinWindow \cup {c}
      <4>1. CASE d = c BY <4>1
      <4>2. CASE d # c
        <5>1. d \in Started /\ startedAt'[d] = startedAt[d] /\ startedAt'[a] <= startedAt[d]
          BY <1>1, <1>2, <1>3, <3>2, <4>2 DEF InWindow
        <5>2. startedAt[d] \in Nat /\ startedAt'[a] \in Nat /\ Window \in Nat /\ now \in Nat
          BY <1>1, <1>2, <5>1, PlannerAssumption
        <5>3. now <= startedAt[d] + Window BY <3>1, <5>1, <5>2
        <5> QED BY <5>1, <5>3 DEF RecentIsKnown, WithinWindow
      <4> QED BY <4>1, <4>2
    <3>3. Cardinality(InWindow(a)') <= Cardinality(WithinWindow \cup {c})
      BY <1>2, <3>2, FewerOrAsMany
    <3>4. Cardinality(InWindow(a)') \in Nat /\ Cardinality(WithinWindow \cup {c}) \in Nat
      BY <1>2, CallsAreFinite DEF InWindow
    <3> QED BY <1>5, <3>3, <3>4, PlannerAssumption
  <2>2. CASE c \notin InWindow(a)'
    <3>1. a # c
      <4>1. c \in Started' /\ startedAt'[c] = now /\ now \in Nat BY <1>1, <1>3
      <4>2. startedAt'[c] <= startedAt'[c] + Window BY <4>1, PlannerAssumption
      <4> QED BY <2>2, <4>1, <4>2 DEF InWindow
    <3>2. InWindow(a)' = InWindow(a)
      BY <1>1, <1>2, <1>3, <2>2, <3>1 DEF InWindow
    <3> QED BY <1>1, <3>1, <3>2, LimitByWindow
  <2> QED BY <2>1, <2>2
<1> QED BY <1>6 DEF WindowLimit, InWindow

LEMMA OthersKeepLimit ==
  ASSUME WindowLimit, Started' = Started, startedAt' = startedAt
  PROVE  WindowLimit'
BY DEF WindowLimit

(* No window of any length, wherever it begins, holds more admitted calls  *)
(* than the limit: forgetting the calls that are too old to count          *)
(* (recentRequests.shift) never forgets one that still does.               *)
THEOREM WindowLimitHolds == PlannerSpec => []WindowLimit
<1>1. PlannerInit => WindowLimit
  BY DEF PlannerInit, WindowLimit, Started, Trying, Ended
<1>2. ASSUME PlannerInvariant, WindowLimit, [PlannerNext]_plannerVars PROVE WindowLimit'
  <2>1. ASSUME NEW c \in Calls, Reject(c) PROVE WindowLimit'
    BY <1>2, <2>1, RejectKeeps, OthersKeepLimit DEF Reject
  <2>2. ASSUME NEW c \in Calls, Start(c) PROVE WindowLimit' BY <1>2, <2>2, StartKeepsLimit
  <2>3. ASSUME NEW c \in Calls, Attempt(c) PROVE WindowLimit'
    <3>1. Started' = Started BY <1>2, <2>3, RetryKeeps, SucceedKeeps, FailKeeps DEF Attempt
    <3>2. startedAt' = startedAt BY <2>3 DEF Attempt, Retry, Succeed, Fail, End
    <3> QED BY <1>2, <3>1, <3>2, OthersKeepLimit
  <2>4. CASE PlannerTick BY <1>2, <2>4, TickKeeps, OthersKeepLimit DEF PlannerTick
  <2>5. CASE UNCHANGED plannerVars
    BY <1>2, <2>5, StutterKeeps, OthersKeepLimit DEF plannerVars
  <2> QED BY <1>2, <2>1, <2>2, <2>3, <2>4, <2>5 DEF PlannerNext
<1> QED BY <1>1, <1>2, PlannerInvariantHolds, PTL DEF PlannerSpec

-----------------------------------------------------------------------------
(* The circuit *)

LEMMA OthersKeepCircuit ==
  ASSUME CircuitHolds, Started' = Started, startedAt' = startedAt,
         quiet' = quiet, lastTrip' = lastTrip
  PROVE  CircuitHolds'
BY DEF CircuitHolds

(* While no call has succeeded since the last failure at the threshold, no *)
(* call has started before the circuit it opened was over, whichever       *)
(* failures, early or late, opened it.                                     *)
THEOREM CircuitAlwaysHolds == PlannerSpec => []CircuitHolds
<1>1. PlannerInit => CircuitHolds BY DEF PlannerInit, CircuitHolds
<1>2. ASSUME PlannerInvariant, CircuitHolds, [PlannerNext]_plannerVars PROVE CircuitHolds'
  <2> USE DEF PlannerInvariant, PlannerTypes
  <2>1. ASSUME NEW c \in Calls, Reject(c) PROVE CircuitHolds'
    BY <1>2, <2>1, RejectKeeps, OthersKeepCircuit DEF Reject
  <2>2. ASSUME NEW c \in Calls, Start(c) PROVE CircuitHolds'
    <3>1. Started' = Started \cup {c} /\ \A d \in Started : d \in Calls
      BY <1>2, <2>2, StartKeeps DEF Started, Trying, Ended
    <3>2. \A d \in Calls : startedAt'[d] = IF d = c THEN now ELSE startedAt[d]
      BY <1>2, <2>2 DEF Start
    <3>3. quiet' = quiet /\ lastTrip' = lastTrip /\ openUntil <= now
      BY <2>2 DEF Start, Admits
    <3>4. ASSUME quiet, NEW d \in Started'
          PROVE  ~(lastTrip < startedAt'[d] /\ startedAt'[d] < lastTrip + OpenFor)
      <4>1. CASE d = c
        <5>1. lastTrip + OpenFor <= now BY <1>2, <3>3, <3>4 DEF TrippedIsOpen
        <5>2. now \in Nat /\ lastTrip + OpenFor \in Nat BY <1>2, PlannerAssumption
        <5> QED BY <3>2, <4>1, <5>1, <5>2
      <4>2. CASE d # c
        <5>1. d \in Started /\ startedAt'[d] = startedAt[d] BY <3>1, <3>2, <3>4, <4>2
        <5> QED BY <1>2, <3>4, <5>1 DEF CircuitHolds
      <4> QED BY <4>1, <4>2
    <3> QED BY <3>3, <3>4 DEF CircuitHolds
  <2>3. ASSUME NEW c \in Calls, Retry(c) PROVE CircuitHolds'
    BY <1>2, <2>3, RetryKeeps, OthersKeepCircuit DEF Retry
  <2>4. ASSUME NEW c \in Calls, Succeed(c) PROVE CircuitHolds'
    BY <2>4 DEF Succeed, CircuitHolds
  <2>5. ASSUME NEW c \in Calls, NEW result \in {"invalid", "unavailable"}, Fail(c, result)
        PROVE  CircuitHolds'
    <3>1. Started' = Started /\ startedAt' = startedAt
      BY <1>2, <2>5, FailKeeps DEF Fail, End
    <3>2. CASE lastTrip' = now
      <4>1. \A d \in Started : d \in Calls BY DEF Started, Trying, Ended
      <4>2. \A d \in Started : ~(now < startedAt[d])
        BY <1>2, <4>1 DEF RecentIsKnown
      <4> QED BY <3>1, <3>2, <4>2 DEF CircuitHolds
    <3>3. CASE quiet' = quiet /\ lastTrip' = lastTrip
      BY <1>2, <3>1, <3>3, OthersKeepCircuit
    <3> QED BY <2>5, <3>2, <3>3 DEF Fail
  <2>6. CASE PlannerTick BY <1>2, <2>6, TickKeeps, OthersKeepCircuit DEF PlannerTick
  <2>7. CASE UNCHANGED plannerVars
    BY <1>2, <2>7, StutterKeeps, OthersKeepCircuit DEF plannerVars
  <2> QED BY <1>2, <2>1, <2>2, <2>3, <2>4, <2>5, <2>6, <2>7 DEF PlannerNext, Attempt
<1> QED BY <1>1, <1>2, PlannerInvariantHolds, PTL DEF PlannerSpec

=============================================================================
