----------------------------- MODULE OnceCommand -----------------------------
(***************************************************************************)
(* What the durable command protocol promises to its callers: the command  *)
(* named by an idempotency key takes effect at most once, with one input,  *)
(* and everybody who is answered is answered with that one outcome.        *)
(* DurableCommand implements this specification.                           *)
(***************************************************************************)
EXTENDS Naturals

CONSTANTS Keys,      \* idempotency keys (with tenant, actor and feature)
          Inputs,    \* canonical fingerprints of command inputs
          Requests,  \* requests that may be answered
          Results,   \* results a feature execution may return
          None       \* no outcome, no answer

VARIABLES outcome,   \* outcome[k]: the input and result of the one execution
          effects,   \* effects[k]: how many executions of k took effect
          answered   \* answered[r]: what request r was told

vars == <<outcome, effects, answered>>

Init ==
  /\ outcome = [k \in Keys |-> None]
  /\ effects = [k \in Keys |-> 0]
  /\ answered = [r \in Requests |-> None]

(* The command takes effect and its outcome is fixed, in one step. *)
Execute(k) ==
  /\ outcome[k] = None
  /\ \E i \in Inputs, v \in Results :
       outcome' = [outcome EXCEPT ![k] = [input |-> i, result |-> v]]
  /\ effects' = [effects EXCEPT ![k] = @ + 1]
  /\ UNCHANGED answered

(* A request learns the outcome of its own command, and only if it asked   *)
(* with the input that was executed.                                       *)
Answer(r, k) ==
  /\ answered[r] = None
  /\ outcome[k] # None
  /\ answered' = [answered EXCEPT ![r] = [key |-> k,
                                          input |-> outcome[k].input,
                                          result |-> outcome[k].result]]
  /\ UNCHANGED <<outcome, effects>>

(* The caller moves on to another request. *)
Forget(r) ==
  /\ answered[r] # None
  /\ answered' = [answered EXCEPT ![r] = None]
  /\ UNCHANGED <<outcome, effects>>

Next ==
  \/ \E k \in Keys : Execute(k)
  \/ \E r \in Requests : (\E k \in Keys : Answer(r, k)) \/ Forget(r)

Spec == Init /\ [][Next]_vars

=============================================================================
