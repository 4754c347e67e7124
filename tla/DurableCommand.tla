--------------------------- MODULE DurableCommand ---------------------------
(***************************************************************************)
(* The durable command protocol of the Focusly backend: the idempotency    *)
(* store (core/backend/idempotency/mongo-idempotency.ts) and the mutation  *)
(* path of the request runner (core/backend/server.ts), over a replica-set *)
(* MongoDB (core/backend/database/mongo.ts).                               *)
(*                                                                         *)
(* A mutation request claims the record of its idempotency key, calls the  *)
(* external capabilities its feature declares and saves each answer on the *)
(* record, then runs the feature and completes the record in one MongoDB   *)
(* transaction.  A claim carries a fresh executionId, the fence, and a     *)
(* lease; when the lease has expired another request may take the record   *)
(* over.  Requests run concurrently, in one server process or several, and *)
(* any of them may be slow, throw or die between two steps.                *)
(*                                                                         *)
(* A request stands for the executionId (a random UUID) it draws; a        *)
(* provider's answer is named by the execution that obtained it.           *)
(***************************************************************************)
EXTENDS Naturals, Sequences

CONSTANTS
  Keys,              \* tenant, actor, feature and idempotency key
  Inputs,            \* canonical fingerprints of command inputs
  Requests,          \* mutation requests, each with its executionId
  Externals,         \* external capabilities the feature declares
  LeaseMs,           \* the lease, in clock ticks
  MaxInterruptions,  \* bound: how many requests die or throw
  None

ASSUME ConstantsAssumption ==
  /\ LeaseMs \in Nat \ {0}
  /\ MaxInterruptions \in Nat
  /\ None \notin Requests \cup Inputs \cup Keys

VARIABLES
  records,        \* idempotency_records, one document per key
  staged,         \* staged[k]: the request whose open transaction wrote k
  now,            \* the clock
  pc,             \* where each request is
  cmd,            \* cmd[r]: the key and input of request r
  prepared,       \* prepared[r]: the external answers r holds in memory
  snapshot,       \* snapshot[r]: the record as r's transaction sees it
  reply,          \* reply[r]: what the server answers to r
  commits,        \* commits[k]: executions whose transaction took effect
  interruptions   \* how many requests died or threw so far

dbVars == <<records, staged, commits>>
reqVars == <<cmd, prepared, snapshot, reply>>
vars == <<records, staged, now, pc, cmd, prepared, snapshot, reply, commits,
          interruptions>>

-----------------------------------------------------------------------------
(* Data *)

Answers == [Externals -> Requests \cup {None}]
NoAnswers == [e \in Externals |-> None]

(* A feature result: the execution that computed it and the answers it     *)
(* used.  Success and business failure are both completed results.         *)
Result == [by : Requests, answers : Answers]

(* What OnceCommand speaks of: the outcome of a command and what a request *)
(* was told of it.                                                         *)
Outcome == [input : Inputs, result : Result]
Told == [key : Keys, input : Inputs, result : Result]

ASSUME NoneAssumption == None \notin Outcome \cup Told

(* No document of the key yet. *)
Absent ==
  [status |-> "Absent", input |-> None, executionId |-> None,
   leaseExpiresAt |-> 0, preparedCapabilities |-> NoAnswers, result |-> None]

RecordsWith(status, results) ==
  [status : {status}, input : Inputs, executionId : Requests,
   leaseExpiresAt : Nat, preparedCapabilities : Answers, result : results]

(* A record has a result exactly when it is completed. *)
Record ==
  {Absent} \cup RecordsWith("Pending", {None})
           \cup RecordsWith("Completed", Result)

Reply ==
  [kind : {"none", "in-progress", "key-reused", "thrown"}, result : {None}]
  \cup [kind : {"value"}, result : Result]

Say(kind) == [kind |-> kind, result |-> None]
Tell(result) == [kind |-> "value", result |-> result]

Command == [key : Keys \cup {None}, input : Inputs \cup {None}]

Stages == {"idle", "existing", "recover", "prepare", "provider", "execute",
           "commit", "reply", "done", "dead"}

TypeOK ==
  /\ records \in [Keys -> Record]
  /\ staged \in [Keys -> Requests \cup {None}]
  /\ now \in Nat
  /\ pc \in [Requests -> Stages]
  /\ cmd \in [Requests -> Command]
  /\ prepared \in [Requests -> Answers]
  /\ snapshot \in [Requests -> Record]
  /\ reply \in [Requests -> Reply]
  /\ commits \in [Keys -> Seq(Requests)]
  /\ interruptions \in Nat

-----------------------------------------------------------------------------
(* Helpers *)

record(r) == records[cmd[r].key]

(* Bugs this code could have had.  No action uses them: a run in which one *)
(* replaces the definition that follows it must fail.                      *)
FencedByStatusOnly(doc, r) == doc.status = "Pending"
NotFenced(doc, r) == doc.status # "Absent"

(* The filter of every update an execution makes to its record:            *)
(* { ...record, status: Pending, executionId }.                            *)
HoldsFence(doc, r) == doc.status = "Pending" /\ doc.executionId = r

(* A write outside a transaction waits while a transaction has the         *)
(* document staged.                                                        *)
Writable(k) == staged[k] = None

(* `leaseExpiresAt: { $lte: claimedAt }` *)
LeaseExpired(doc) == doc.leaseExpiresAt <= now

(* What insertOne, the recovering updateOne, heartbeat and                 *)
(* savePreparedCapability leave: a pending record with a lease from now.   *)
Leased(input, executionId, answers) ==
  [status |-> "Pending", input |-> input, executionId |-> executionId,
   leaseExpiresAt |-> now + LeaseMs, preparedCapabilities |-> answers,
   result |-> None]

(* Bug: complete sets the status and forgets the result. *)
CompletedWithoutResult(doc, result) == [doc EXCEPT !.status = "Completed"]

(* What complete leaves: the same document with its status and result set. *)
Completed(doc, result) ==
  [status |-> "Completed", input |-> doc.input,
   executionId |-> doc.executionId, leaseExpiresAt |-> doc.leaseExpiresAt,
   preparedCapabilities |-> doc.preparedCapabilities, result |-> result]

ResultOf(r) == [by |-> r, answers |-> prepared[r]]

GoTo(r, stage) == pc' = [pc EXCEPT ![r] = stage]
Finish(r, answer) ==
  /\ GoTo(r, "reply")
  /\ reply' = [reply EXCEPT ![r] = answer]

(* The open transaction of r, if any, is rolled back. *)
Rollback(r) ==
  staged' = [k \in Keys |-> IF staged[k] = r THEN None ELSE staged[k]]

Init ==
  /\ records = [k \in Keys |-> Absent]
  /\ staged = [k \in Keys |-> None]
  /\ now = 0
  /\ pc = [r \in Requests |-> "idle"]
  /\ cmd = [r \in Requests |-> [key |-> None, input |-> None]]
  /\ prepared = [r \in Requests |-> NoAnswers]
  /\ snapshot = [r \in Requests |-> Absent]
  /\ reply = [r \in Requests |-> Say("none")]
  /\ commits = [k \in Keys |-> <<>>]
  /\ interruptions = 0

-----------------------------------------------------------------------------
(* claim *)

(* A request arrives and claim tries to insert a Pending record under the  *)
(* unique index: it owns the key, or the insert fails with code 11000.     *)
Claim(r, k, i) ==
  /\ pc[r] = "idle"
  /\ cmd' = [cmd EXCEPT ![r] = [key |-> k, input |-> i]]
  /\ prepared' = [prepared EXCEPT ![r] = NoAnswers]
  /\ \/ /\ records[k].status = "Absent"
        /\ records' = [records EXCEPT ![k] = Leased(i, r, NoAnswers)]
        /\ GoTo(r, "prepare")
     \/ /\ records[k].status # "Absent"
        /\ GoTo(r, "existing")
        /\ UNCHANGED records
  /\ UNCHANGED <<staged, now, snapshot, reply, commits, interruptions>>

(* Bug: a duplicate is answered without comparing the fingerprints. *)
AnyInput(r) == TRUE

SameInput(r) == record(r).input = cmd[r].input

(* findOne, after the duplicate: another input, a completed result, or a   *)
(* pending record whose lease may have run out.  The prepared answers are  *)
(* those of this read.  (The record cannot be missing: none is deleted.)   *)
ReadExisting(r) ==
  /\ pc[r] = "existing"
  /\ \/ /\ ~SameInput(r)
        /\ Finish(r, Say("key-reused"))
        /\ UNCHANGED prepared
     \/ /\ SameInput(r)
        /\ record(r).status = "Completed"
        /\ Finish(r, Tell(record(r).result))
        /\ UNCHANGED prepared
     \/ /\ SameInput(r)
        /\ record(r).status = "Pending"
        /\ prepared' = [prepared EXCEPT ![r] = record(r).preparedCapabilities]
        /\ GoTo(r, "recover")
        /\ UNCHANGED reply
  /\ UNCHANGED <<dbVars, now, cmd, snapshot, interruptions>>

(* Bugs: a completed record is taken over; the comparison is reversed. *)
ExpiredInAnyStatus(doc) == LeaseExpired(doc)
UnexpiredLease(doc) == doc.status = "Pending" /\ ~LeaseExpired(doc)

(* updateOne with a new executionId, if the lease has expired by now.      *)
Recoverable(doc) == doc.status = "Pending" /\ LeaseExpired(doc)

Recover(r) ==
  /\ pc[r] = "recover"
  /\ Writable(cmd[r].key)
  /\ \/ /\ Recoverable(record(r))
        /\ records' = [records EXCEPT ![cmd[r].key] =
             Leased(@.input, r, @.preparedCapabilities)]
        /\ GoTo(r, "prepare")
        /\ UNCHANGED reply
     \/ /\ ~Recoverable(record(r))
        /\ Finish(r, Say("in-progress"))
        /\ UNCHANGED records
  /\ UNCHANGED <<staged, now, cmd, prepared, snapshot, commits, interruptions>>

-----------------------------------------------------------------------------
(* prepareExternalCapabilities *)

(* Whether heartbeat's updateOne modifies the document: MongoDB counts a   *)
(* document as modified only when a value changes, and the lease set in    *)
(* the clock tick of the previous one is the same value.                   *)
HeartbeatModifies(r) ==
  /\ HoldsFence(record(r), r)
  /\ record(r).leaseExpiresAt # now + LeaseMs

(* Before each provider call the lease is renewed; modifiedCount # 1       *)
(* throws "lost its execution fence".                                      *)
Heartbeat(r) ==
  /\ pc[r] = "prepare"
  /\ \E e \in Externals : prepared[r][e] = None
  /\ Writable(cmd[r].key)
  /\ \/ /\ HeartbeatModifies(r)
        /\ records' = [records EXCEPT ![cmd[r].key] =
             Leased(@.input, r, @.preparedCapabilities)]
        /\ GoTo(r, "provider")
        /\ UNCHANGED reply
     \/ /\ ~HeartbeatModifies(r)
        /\ Finish(r, Say("thrown"))
        /\ UNCHANGED records
  /\ UNCHANGED <<staged, now, cmd, prepared, snapshot, commits, interruptions>>

(* The provider has answered: savePreparedCapability stores the answer and *)
(* renews the lease under the fence, and r keeps the answer in memory.     *)
SavePrepared(r) ==
  /\ pc[r] = "provider"
  /\ Writable(cmd[r].key)
  /\ \/ /\ HoldsFence(record(r), r)
        /\ \E e \in Externals :
             /\ prepared[r][e] = None
             /\ prepared' = [prepared EXCEPT ![r] = [@ EXCEPT ![e] = r]]
             /\ records' = [records EXCEPT ![cmd[r].key] =
                  Leased(@.input, r, [@.preparedCapabilities EXCEPT ![e] = r])]
        /\ GoTo(r, "prepare")
        /\ UNCHANGED reply
     \/ /\ ~HoldsFence(record(r), r)
        /\ Finish(r, Say("thrown"))
        /\ UNCHANGED <<records, prepared>>
  /\ UNCHANGED <<staged, now, cmd, snapshot, commits, interruptions>>

-----------------------------------------------------------------------------
(* withTransaction *)

(* The callback runs the feature on the snapshot of its transaction.       *)
BeginTransaction(r) ==
  /\ pc[r] = "prepare"
  /\ \A e \in Externals : prepared[r][e] # None
  /\ snapshot' = [snapshot EXCEPT ![r] = record(r)]
  /\ GoTo(r, "execute")
  /\ UNCHANGED <<dbVars, now, cmd, prepared, reply, interruptions>>

(* The document complete writes was written since the snapshot, or another *)
(* open transaction has it staged.                                         *)
WriteConflict(r) == record(r) # snapshot[r] \/ ~Writable(cmd[r].key)

(* Bug: a lost fence is retried like a conflict. *)
CompleteRetriesLostFence(r) ==
  /\ pc[r] = "execute"
  /\ \/ /\ HoldsFence(snapshot[r], r) /\ ~WriteConflict(r)
        /\ staged' = [staged EXCEPT ![cmd[r].key] = r]
        /\ GoTo(r, "commit")
     \/ /\ ~HoldsFence(snapshot[r], r) \/ WriteConflict(r)
        /\ GoTo(r, "prepare")
        /\ UNCHANGED staged
  /\ UNCHANGED <<records, now, cmd, prepared, snapshot, reply, commits, interruptions>>

(* idempotency.complete in the session: the filter is evaluated on the     *)
(* snapshot; a match is staged, or conflicts and the driver runs the       *)
(* callback again; no match throws out of the transaction.                 *)
Complete(r) ==
  /\ pc[r] = "execute"
  /\ \/ /\ HoldsFence(snapshot[r], r)
        /\ ~WriteConflict(r)
        /\ staged' = [staged EXCEPT ![cmd[r].key] = r]
        /\ GoTo(r, "commit")
        /\ UNCHANGED reply
     \/ /\ HoldsFence(snapshot[r], r)
        /\ WriteConflict(r)
        /\ GoTo(r, "prepare")
        /\ UNCHANGED <<staged, reply>>
     \/ /\ ~HoldsFence(snapshot[r], r)
        /\ Finish(r, Say("thrown"))
        /\ UNCHANGED staged
  /\ UNCHANGED <<records, now, cmd, prepared, snapshot, commits, interruptions>>

(* The commit makes the feature's writes and the completed record visible  *)
(* together.                                                               *)
ApplyCommit(r) ==
  /\ records' = [records EXCEPT ![cmd[r].key] = Completed(@, ResultOf(r))]
  /\ commits' = [commits EXCEPT ![cmd[r].key] = Append(@, r)]
  /\ Rollback(r)

Commit(r) ==
  /\ pc[r] = "commit"
  /\ ApplyCommit(r)
  /\ Finish(r, Tell(ResultOf(r)))
  /\ UNCHANGED <<now, cmd, prepared, snapshot, interruptions>>

-----------------------------------------------------------------------------
(* Answers, failures and time *)

(* The answer reaches the client. *)
Respond(r) ==
  /\ pc[r] = "reply"
  /\ GoTo(r, "done")
  /\ UNCHANGED <<dbVars, now, reqVars, interruptions>>

(* The client sends its next request: the slot of a request whose          *)
(* executionId was stored nowhere stands for a new request with a new one. *)
SendAnother(r) ==
  /\ pc[r] = "done"
  /\ \/ reply[r].kind \in {"in-progress", "key-reused"}
     \/ reply[r].kind = "value" /\ reply[r].result.by # r
  /\ GoTo(r, "idle")
  /\ reply' = [reply EXCEPT ![r] = Say("none")]
  /\ UNCHANGED <<dbVars, now, cmd, prepared, snapshot, interruptions>>

Running(r) == pc[r] \notin {"idle", "done", "dead"}

Interrupted == interruptions < MaxInterruptions /\ interruptions' = interruptions + 1

(* The process running r dies; MongoDB aborts its open transaction.  Until *)
(* it does the others only wait, as if they were slow.                     *)
Die(r) ==
  /\ Running(r)
  /\ Interrupted
  /\ GoTo(r, "dead")
  /\ Rollback(r)
  /\ UNCHANGED <<records, now, cmd, prepared, snapshot, reply, commits>>

(* A database or provider call rejects, or the feature throws: the         *)
(* transaction aborts and the error reaches the request handler.           *)
Throw(r) ==
  /\ Running(r) /\ pc[r] # "reply"
  /\ Interrupted
  /\ Finish(r, Say("thrown"))
  /\ Rollback(r)
  /\ UNCHANGED <<records, now, cmd, prepared, snapshot, commits>>

(* The commit took effect but its acknowledgement never arrived.           *)
CommitUnacknowledged(r) ==
  /\ pc[r] = "commit"
  /\ Interrupted
  /\ ApplyCommit(r)
  /\ Finish(r, Say("thrown"))
  /\ UNCHANGED <<now, cmd, prepared, snapshot>>

(* Time matters while some lease is running; it passes between any steps.  *)
Tick ==
  /\ \E k \in Keys : records[k].status = "Pending" /\ ~LeaseExpired(records[k])
  /\ now' = now + 1
  /\ UNCHANGED <<dbVars, pc, reqVars, interruptions>>

-----------------------------------------------------------------------------

Step(r) ==
  \/ ReadExisting(r) \/ Recover(r)
  \/ Heartbeat(r) \/ SavePrepared(r)
  \/ BeginTransaction(r) \/ Complete(r) \/ Commit(r)
  \/ Respond(r)

Next ==
  \/ \E r \in Requests, k \in Keys, i \in Inputs : Claim(r, k, i)
  \/ \E r \in Requests : Step(r)
  \/ \E r \in Requests : SendAnother(r)
  \/ \E r \in Requests : Die(r) \/ Throw(r) \/ CommitUnacknowledged(r)
  \/ Tick

Spec == Init /\ [][Next]_vars

(* The event loop runs every started request on, a provider call answers   *)
(* (its client has a deadline) and clocks run.                             *)
ServerFairness == (\A r \in Requests : WF_vars(Step(r))) /\ WF_vars(Tick)

(* The caller repeats a command that is not completed.                     *)
Repeat(k) ==
  \E r \in Requests, i \in Inputs : i = records[k].input /\ Claim(r, k, i)
CallerFairness ==
  /\ \A r \in Requests : WF_vars(SendAnother(r))
  /\ \A k \in Keys : SF_vars(Repeat(k))

FairSpec == Spec /\ ServerFairness /\ CallerFairness

-----------------------------------------------------------------------------
(* Safety *)

(* A command takes effect at most once, however many requests carry its    *)
(* key and however often it is taken over: the fenced completion in        *)
(* server.ts run and mongo-idempotency.ts complete.                        *)
AtMostOneEffect == \A k \in Keys : Len(commits[k]) <= 1

(* The feature's writes are committed exactly when the record is           *)
(* completed, and by the execution whose result the record holds: complete *)
(* shares the feature's session.                                           *)
EffectMatchesRecord ==
  \A k \in Keys :
    commits[k] = IF records[k].status = "Completed"
                   THEN <<records[k].result.by>> ELSE <<>>

(* Whoever is answered with a result is answered with the recorded result  *)
(* of its own key, computed from its own input: the first execution and    *)
(* every replay agree (claim, and the value withTransaction returns).      *)
RepliesAgree ==
  \A r \in Requests :
    reply[r].kind = "value" =>
      /\ record(r).status = "Completed"
      /\ record(r).result = reply[r].result
      /\ record(r).input = cmd[r].input

(* Nobody takes a record over while its completion is staged: between      *)
(* complete and the commit the staging execution, and only it, is at its   *)
(* commit and still holds the fence.                                       *)
StagedHolderKeepsFence ==
  /\ \A k \in Keys :
       staged[k] # None =>
         /\ pc[staged[k]] = "commit"
         /\ cmd[staged[k]].key = k
         /\ records[k].status = "Pending"
         /\ records[k].executionId = staged[k]
  /\ \A r \in Requests : pc[r] = "commit" => staged[cmd[r].key] = r

(* A completed record never changes again, not even its lease or fence.    *)
CompletedIsFinal ==
  [][\A k \in Keys :
       records[k].status = "Completed" => records'[k] = records[k]]_vars

Superseded(r) ==
  pc[r] \in {"prepare", "provider", "execute", "commit"} /\ record(r).executionId # r

(* An execution that another one has superseded can only fail: whatever it *)
(* has done meanwhile, it is never answered with a result.                 *)
SupersededOnlyFails ==
  [][\A r \in Requests :
       Superseded(r) /\ pc'[r] = "reply" => reply'[r].kind = "thrown"]_vars

(* The bookkeeping the invariants above rest on: a request past its claim   *)
(* has a command whose record exists, an executing one was matched with    *)
(* the record's input, and only a request that is over has a reply.        *)
Executing == {"recover", "prepare", "provider", "execute", "commit"}

CommandKnown ==
  \A r \in Requests :
    /\ pc[r] # "idle" =>
         /\ cmd[r] \in [key : Keys, input : Inputs]
         /\ record(r).status # "Absent"
    /\ pc[r] \in Executing => record(r).input = cmd[r].input
    /\ pc[r] \in Executing \cup {"idle", "existing"} => reply[r] = Say("none")

(* An execution id names one claim: who it is stored under has claimed     *)
(* that key, and has not been answered as if it had not; a completed       *)
(* record keeps the id of the execution that completed it.                 *)
ClaimsKeepTheirIds ==
  \A k \in Keys : records[k].status # "Absent" =>
    LET r == records[k].executionId IN
    /\ cmd[r].key = k
    /\ pc[r] \notin {"idle", "existing", "recover"}
    /\ reply[r].kind \notin {"in-progress", "key-reused"}
    /\ reply[r].kind = "value" => reply[r].result.by = r
    /\ records[k].status = "Completed" => records[k].result.by = r

ProtocolInvariant ==
  /\ TypeOK
  /\ CommandKnown
  /\ StagedHolderKeepsFence
  /\ EffectMatchesRecord
  /\ RepliesAgree

InductiveInvariant == ProtocolInvariant /\ ClaimsKeepTheirIds

-----------------------------------------------------------------------------
(* Liveness *)

(* Every request is answered or dies with its process: a transaction that  *)
(* conflicts is not retried for ever.                                      *)
EveryRequestEnds ==
  \A r \in Requests : Running(r) ~> pc[r] \in {"done", "dead"}

(* A slot that will send no further request. *)
Spent(r) == pc[r] = "dead" \/ (pc[r] = "done" /\ reply[r].kind = "thrown")

(* A pending command is completed, whoever dies holding it, as long as     *)
(* requests keep coming: the lease expires and a repeat takes it over.     *)
PendingIsRecovered ==
  \A k \in Keys :
    records[k].status = "Pending" ~>
      (records[k].status = "Completed" \/ \A r \in Requests : Spent(r))

-----------------------------------------------------------------------------
(* Refinement: OnceCommand, of which a request is answered when the result *)
(* has reached it.                                                         *)
onceOutcome ==
  [k \in Keys |->
     IF records[k].status = "Completed"
       THEN [input |-> records[k].input, result |-> records[k].result]
       ELSE None]

onceAnswered ==
  [r \in Requests |->
     IF pc[r] = "done" /\ reply[r].kind = "value"
       THEN [key |-> cmd[r].key, input |-> cmd[r].input, result |-> reply[r].result]
       ELSE None]

Once == INSTANCE OnceCommand WITH
  Results <- Result, outcome <- onceOutcome, answered <- onceAnswered,
  effects <- [k \in Keys |-> Len(commits[k])]

ImplementsOnce == Once!Spec

(* Refinement: CommandService, of which a request that has claimed its     *)
(* record is running and one that is over was answered.                    *)
serviceKey == [r \in Requests |-> IF pc[r] = "idle" THEN None ELSE cmd[r].key]

serviceRecords ==
  [k \in Keys |-> [status |-> records[k].status, result |-> records[k].result]]

serviceHolder == [k \in Keys |-> records[k].executionId]

serviceAnswer(answer) ==
  CASE answer.kind = "value" -> [kind |-> "result", result |-> answer.result]
    [] answer.kind = "in-progress" -> Say("busy")
    [] answer.kind = "key-reused" -> Say("refused")
    [] OTHER -> Say("failed")

serviceReply(r) ==
  CASE pc[r] \in {"idle", "existing", "recover"} -> Say("none")
    [] pc[r] \in {"prepare", "provider", "execute", "commit"} -> Say("running")
    [] OTHER -> serviceAnswer(reply[r])

serviceReplies == [r \in Requests |-> serviceReply(r)]

Service == INSTANCE CommandService WITH
  Results <- Result, keyOf <- serviceKey, records <- serviceRecords,
  holder <- serviceHolder, replies <- serviceReplies

ImplementsService == Service!ServiceSpec

=============================================================================
