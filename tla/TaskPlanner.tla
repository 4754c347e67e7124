------------------------------ MODULE TaskPlanner ------------------------------
(***************************************************************************)
(* The adapter of the AI provider of the Focusly backend                   *)
(* (contexts/ai-planning/infrastructure/ollama-task-planner.ts): one       *)
(* object per provider and process, shared by all requests.  It admits a   *)
(* call unless its circuit is open, too many calls are active or too many  *)
(* have started within a minute; an admitted call makes up to two attempts *)
(* and reports a success or a failure to the circuit.                      *)
(***************************************************************************)
EXTENDS Naturals, FiniteSets

CONSTANTS
  Calls,      \* calls of the planner, numbered in the order they are made
  MaxActive,  \* calls at a time (4)
  MaxRecent,  \* calls within a window (30)
  Window,     \* the window, in clock ticks (60 s)
  Threshold,  \* failures in a row that open the circuit (3)
  OpenFor     \* how long it stays open, in clock ticks (30 s)

ASSUME PlannerAssumption ==
  /\ Calls \subseteq Nat /\ IsFiniteSet(Calls)
  /\ MaxActive \in Nat \ {0} /\ MaxRecent \in Nat \ {0}
  /\ Window \in Nat /\ Threshold \in Nat \ {0} /\ OpenFor \in Nat

VARIABLES
  now,        \* the clock
  planning,   \* planning[c]: where the call of c is, or how it ended
  startedAt,  \* startedAt[c]: when c was admitted
  recent,     \* recentRequests: the admitted calls it still remembers
  active,     \* health.active
  streak,     \* consecutiveFailures
  openUntil,  \* circuitOpenUntil
  lastTrip,   \* when a failure last opened the circuit or kept it open
  quiet       \* no call has succeeded since

plannerVars == <<now, planning, startedAt, recent, active, streak, openUntil, lastTrip, quiet>>

Trying == {c \in Calls : planning[c] \in {"first", "second"}}
Ended == {c \in Calls : planning[c] \in {"planned", "invalid", "unavailable"}}
Started == Trying \cup Ended

PlannerInit ==
  /\ now = 0
  /\ planning = [c \in Calls |-> "idle"]
  /\ startedAt = [c \in Calls |-> 0]
  /\ recent = {} /\ active = 0 /\ streak = 0 /\ openUntil = 0
  /\ lastTrip = 0 /\ quiet = FALSE

-----------------------------------------------------------------------------
(* Admission *)

(* Bug: calls are forgotten when they end. *)
OnlyTrying == {c \in recent : c \in Trying}

(* The calls that are not older than the window: recentRequests is in *)
(* the order of time, so dropping the old ones at its front drops all. *)
WithinWindow == {c \in recent : now <= startedAt[c] + Window}

(* Bug: a call that is still running counts as one of the limit.           *)
AdmitsOneMore ==
  /\ openUntil <= now
  /\ active <= MaxActive
  /\ Cardinality(WithinWindow) < MaxRecent

Admits ==
  /\ openUntil <= now
  /\ active < MaxActive
  /\ Cardinality(WithinWindow) < MaxRecent

(* The next call that a request makes. *)
Comes(c) == planning[c] = "idle" /\ \A d \in Calls : d < c => planning[d] # "idle"

Reject(c) ==
  /\ Comes(c)
  /\ ~Admits
  /\ recent' = WithinWindow
  /\ planning' = [planning EXCEPT ![c] = "rejected"]
  /\ UNCHANGED <<now, startedAt, active, streak, openUntil, lastTrip, quiet>>

Start(c) ==
  /\ Comes(c)
  /\ Admits
  /\ recent' = WithinWindow \cup {c}
  /\ active' = active + 1
  /\ planning' = [planning EXCEPT ![c] = "first"]
  /\ startedAt' = [startedAt EXCEPT ![c] = now]
  /\ UNCHANGED <<now, streak, openUntil, lastTrip, quiet>>

-----------------------------------------------------------------------------
(* Attempts.  Each ends: AbortSignal.timeout ends what the provider does   *)
(* not answer.                                                             *)

(* A 429, a 5xx, an exception or a timeout on the first attempt.           *)
Retry(c) ==
  /\ planning[c] = "first"
  /\ planning' = [planning EXCEPT ![c] = "second"]
  /\ UNCHANGED <<now, startedAt, recent, active, streak, openUntil, lastTrip, quiet>>

(* Bug: a call that ends is not taken off the active ones. *)
EndLeaking(c, result) ==
  /\ planning' = [planning EXCEPT ![c] = result]
  /\ active' = IF result = "planned" THEN active - 1 ELSE active
  /\ UNCHANGED <<now, startedAt, recent>>

End(c, result) ==
  /\ planning' = [planning EXCEPT ![c] = result]
  /\ active' = active - 1
  /\ UNCHANGED <<now, startedAt, recent>>

(* A valid plan, which also closes a circuit that opened in the meantime.  *)
Succeed(c) ==
  /\ c \in Trying
  /\ End(c, "planned")
  /\ streak' = 0 /\ openUntil' = 0
  /\ quiet' = FALSE /\ UNCHANGED lastTrip

(* Bug: the circuit is opened from the start of the call that failed. *)
OpenFromStart(c) == startedAt[c] + OpenFor

OpenFromNow(c) == now + OpenFor

(* failure(): an answer that is too large or not a plan ("invalid"), a     *)
(* refusal (4xx) or a second attempt that failed ("unavailable").          *)
Fail(c, result) ==
  /\ c \in Trying
  /\ End(c, result)
  /\ streak' = streak + 1
  /\ \/ /\ streak + 1 >= Threshold
        /\ openUntil' = OpenFromNow(c)
        /\ lastTrip' = now /\ quiet' = TRUE
     \/ /\ streak + 1 < Threshold
        /\ UNCHANGED <<openUntil, lastTrip, quiet>>

(* Time matters while the circuit is open or a call is within its window.  *)
PlannerTick ==
  /\ openUntil > now \/ \E c \in Started : now <= startedAt[c] + Window
  /\ now' = now + 1
  /\ UNCHANGED <<planning, startedAt, recent, active, streak, openUntil, lastTrip, quiet>>

Attempt(c) == Retry(c) \/ Succeed(c) \/ \E result \in {"invalid", "unavailable"} : Fail(c, result)

PlannerNext ==
  \/ \E c \in Calls : Reject(c) \/ Start(c) \/ Attempt(c)
  \/ PlannerTick

PlannerSpec == PlannerInit /\ [][PlannerNext]_plannerVars

(* Attempts end, at the latest by their timeout, and the clock runs.       *)
FairPlanner ==
  /\ PlannerSpec
  /\ WF_plannerVars(PlannerTick)
  /\ \A c \in Calls : WF_plannerVars(Attempt(c))

-----------------------------------------------------------------------------
(* Properties *)

PlannerTypes ==
  /\ now \in Nat /\ active \in Nat /\ streak \in Nat /\ openUntil \in Nat /\ lastTrip \in Nat
  /\ quiet \in BOOLEAN
  /\ planning \in [Calls ->
       {"idle", "rejected", "first", "second", "planned", "invalid", "unavailable"}]
  /\ startedAt \in [Calls -> Nat]
  /\ recent \subseteq Started

(* Nothing happens in the future, and no call is forgotten before its time. *)
RecentIsKnown ==
  /\ lastTrip <= now /\ \A c \in Calls : startedAt[c] <= now
  /\ \A c \in Started : now <= startedAt[c] + Window => c \in recent

(* Until a call succeeds, the circuit is open as long as the last failure asked. *)
TrippedIsOpen == quiet => openUntil = lastTrip + OpenFor

(* health.active counts the calls under way; each is given back, however   *)
(* it ends, and there are never more than the limit.                       *)
ActiveIsCounted == active = Cardinality(Trying) /\ active <= MaxActive

(* The inductive invariant: types, what the planner remembers, the open    *)
(* circuit and the number of active calls (health.active).                 *)
PlannerInvariant == PlannerTypes /\ RecentIsKnown /\ TrippedIsOpen /\ ActiveIsCounted

(* The rate limit: no window, wherever it begins, holds more admitted      *)
(* calls than the limit, although the planner forgets the older ones.      *)
WindowLimit ==
  \A a \in Started :
    Cardinality({c \in Started : /\ startedAt[a] <= startedAt[c]
                                 /\ startedAt[c] <= startedAt[a] + Window}) <= MaxRecent

(* The circuit: after a failure at the threshold or beyond it no call has  *)
(* started within OpenFor, unless a call has succeeded since, be it one    *)
(* that was already running when the circuit opened.                       *)
CircuitHolds ==
  quiet => \A c \in Started :
    ~(lastTrip < startedAt[c] /\ startedAt[c] < lastTrip + OpenFor)

(* Whatever filled the planner up, an open circuit, active calls or recent *)
(* ones, it admits a call again later; late failures only put it off.      *)
PlannerRecovers == ~Admits ~> Admits

=============================================================================
