---------------------------- MODULE CommandService ----------------------------
(***************************************************************************)
(* The mutation endpoint of the Focusly server as its callers see it: what *)
(* happens to a request that carries an idempotency key (run in server.ts  *)
(* with the claim it makes).  It is the interface between two other        *)
(* specifications: DurableCommand implements it, and the browser commands  *)
(* of CommandMutation are built on it.                                     *)
(***************************************************************************)

CONSTANTS
  Keys,      \* idempotency keys (with tenant, actor and feature)
  Requests,  \* requests that may be sent
  Results,   \* results that a command may have
  None       \* no key, no result, no holder

VARIABLES
  keyOf,    \* keyOf[r]: the key r was sent with, or None
  records,  \* records[k]: status and result of the command
  holder,   \* holder[k]: the request that may complete it
  replies   \* replies[r]: where r is, or what it was answered

serviceVars == <<keyOf, records, holder, replies>>

Say(kind) == [kind |-> kind, result |-> None]
Tell(result) == [kind |-> "result", result |-> result]

(* A request that is not over, or its answer: a recorded result, a refusal *)
(* (4xx), "busy" (409 RequestInProgress) or "failed" (500).                *)
Reply ==
  [kind : {"none", "running", "refused", "busy", "failed"}, result : {None}]
    \cup [kind : {"result"}, result : Results]

Absent == [status |-> "Absent", result |-> None]
Pending == [status |-> "Pending", result |-> None]
Completed(result) == [status |-> "Completed", result |-> result]

Record == {Absent, Pending} \cup {Completed(result) : result \in Results}

ServiceTypes ==
  /\ keyOf \in [Requests -> Keys \cup {None}]
  /\ records \in [Keys -> Record]
  /\ holder \in [Keys -> Requests \cup {None}]
  /\ replies \in [Requests -> Reply]

ServiceInit ==
  /\ keyOf = [r \in Requests |-> None]
  /\ records = [k \in Keys |-> Absent]
  /\ holder = [k \in Keys |-> None]
  /\ replies = [r \in Requests |-> Say("none")]

(* r arrives, or has arrived, with the key k and nothing was decided yet.  *)
Asks(r, k) ==
  /\ keyOf[r] \in {None, k} /\ replies[r].kind = "none"
  /\ keyOf' = [keyOf EXCEPT ![r] = k]

Answer(r, reply) == replies' = [replies EXCEPT ![r] = reply]

Arrive(r, k) ==
  /\ Asks(r, k)
  /\ UNCHANGED <<records, holder, replies>>

(* r is refused before it runs anything: by the pipeline (400, 401, 403),  *)
(* or since its key was used with another input.                           *)
Refuse(r, k) ==
  /\ Asks(r, k)
  /\ Answer(r, Say("refused"))
  /\ UNCHANGED <<records, holder>>

(* Bug: a completed command is run again. *)
RunnableAlways(k) == TRUE

(* Nobody has claimed the command, or its execution is taken over.         *)
Runnable(k) == records[k].status \in {"Absent", "Pending"}

(* claim, and the recovery of a pending record. *)
Run(r, k) ==
  /\ Asks(r, k)
  /\ Runnable(k)
  /\ records' = [records EXCEPT ![k] = Pending]
  /\ holder' = [holder EXCEPT ![k] = r]
  /\ Answer(r, Say("running"))

(* Another request is running the command; it may have completed it by the *)
(* time r finds that it cannot take it over.                               *)
Busy(r, k) ==
  /\ Asks(r, k)
  /\ records[k].status # "Absent"
  /\ Answer(r, Say("busy"))
  /\ UNCHANGED <<records, holder>>

(* The command has been completed. *)
Replay(r, k) ==
  /\ Asks(r, k)
  /\ records[k].status = "Completed"
  /\ Answer(r, Tell(records[k].result))
  /\ UNCHANGED <<records, holder>>

(* The execution commits; its answer is the result, unless the commit was  *)
(* not acknowledged or the result does not fit its contract.               *)
Complete(r, result) ==
  LET k == keyOf[r] IN
  /\ replies[r].kind = "running"
  /\ holder[k] = r /\ records[k].status = "Pending"
  /\ records' = [records EXCEPT ![k] = Completed(result)]
  /\ Answer(r, Tell(result)) \/ Answer(r, Say("failed"))
  /\ UNCHANGED <<keyOf, holder>>

(* The execution, or the claim before it, throws or dies, or finds that it *)
(* was superseded.                                                         *)
Fail(r) ==
  /\ keyOf[r] # None /\ replies[r].kind \in {"none", "running"}
  /\ Answer(r, Say("failed"))
  /\ UNCHANGED <<keyOf, records, holder>>

(* A caller whose request left no trace goes on to another request.        *)
Forget(r) ==
  /\ replies[r].kind \in {"result", "refused", "busy"}
  /\ \A k \in Keys : holder[k] # r
  /\ keyOf' = [keyOf EXCEPT ![r] = None]
  /\ Answer(r, Say("none"))
  /\ UNCHANGED <<records, holder>>

ServiceNext ==
  \E r \in Requests :
    \/ \E k \in Keys : Arrive(r, k) \/ Refuse(r, k) \/ Run(r, k) \/ Busy(r, k) \/ Replay(r, k)
    \/ \E result \in Results : Complete(r, result)
    \/ Fail(r) \/ Forget(r)

ServiceSpec == ServiceInit /\ [][ServiceNext]_serviceVars

=============================================================================
