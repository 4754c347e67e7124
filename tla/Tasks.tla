-------------------------------- MODULE Tasks --------------------------------
(***************************************************************************)
(* The task features of Focusly: create a task (create-task and            *)
(* accept-task-suggestion), change its status, delete it, each run by the  *)
(* mutation runner inside one MongoDB transaction that also carries the    *)
(* event (runtime/mongo-platform-capabilities.ts).  Commands run side by   *)
(* side.  A transaction reads the snapshot of its first read, its writes   *)
(* are seen by others when it commits, and writing a document another      *)
(* transaction has written since that snapshot is a write conflict: the    *)
(* driver runs the feature again from the start.                           *)
(*                                                                         *)
(* Titles, categories and priorities are not modelled: no command depends  *)
(* on them but for the title of a new task being blank or not.             *)
(***************************************************************************)
EXTENDS Naturals, Sequences

CONSTANTS
  Commands,  \* executions of commands
  Ids,       \* task ids the runtime may draw
  Tenants,
  Inputs,    \* what clients may send, with the tenant of the actor
  MaxTime,   \* bound: last reading of the clock
  None

Statuses == {"Todo", "InProgress", "Completed"}

AllInputs ==
  [kind : {"create"}, tenant : Tenants, valid : BOOLEAN]
    \cup [kind : {"change"}, tenant : Tenants, taskId : Ids, status : Statuses, expectedVersion : Nat]
    \cup [kind : {"delete"}, tenant : Tenants, taskId : Ids, expectedVersion : Nat, confirmed : BOOLEAN]

Task ==
  [tenant : Tenants, status : Statuses, version : Nat \ {0},
   createdAt : Nat, updatedAt : Nat, completedAt : Nat \cup {None}]

Event ==
  [type : {"TaskCreatedV1", "TaskStatusChangedV1", "TaskDeletedV1"},
   tenant : Tenants, taskId : Ids, previousStatus : Statuses \cup {None},
   status : Statuses \cup {None}, version : Nat \cup {None}, occurredAt : Nat]

ASSUME TasksAssumption ==
  /\ Inputs \subseteq AllInputs
  /\ MaxTime \in Nat
  /\ None \notin AllInputs /\ None \notin Task /\ None \notin Event
  /\ None \notin Ids /\ None \notin Nat /\ None \notin Statuses
  /\ None \notin [tenant : Tenants, status : Statuses, version : Nat]

VARIABLES
  tasks,   \* the committed documents: tasks[i], or None
  events,  \* the committed events, in the order of the commits
  now,     \* the clock of the server
  input,   \* input[c]: the input of c, or None before it arrives
  stage,   \* stage[c]: where c is
  target,  \* target[c]: the task c is about
  read,    \* read[c]: the task in c's snapshot, or None
  next,    \* next[c]: what c's transaction makes of it, or None
  event,   \* event[c]: the event c's transaction has inserted, or None
  answer   \* answer[c]: the result, or None

txnVars == <<target, read, next, event>>
vars == <<tasks, events, now, input, stage, txnVars, answer>>

Errors == {"InvalidInput", "NotFound", "VersionConflict", "InvalidStatusTransition",
           "ConfirmationRequired", "Failed"}

Stages == {"new", "begin", "write", "emit", "commit", "done"}

TypeOK ==
  /\ tasks \in [Ids -> Task \cup {None}]
  /\ events \in Seq(Event)
  /\ now \in Nat
  /\ input \in [Commands -> Inputs \cup {None}]
  /\ stage \in [Commands -> Stages]
  /\ target \in [Commands -> Ids \cup {None}]
  /\ read \in [Commands -> Task \cup {None}]
  /\ next \in [Commands -> Task \cup {None}]
  /\ event \in [Commands -> Event \cup {None}]
  /\ answer \in [Commands -> Errors \cup {"ok", None}]

Init ==
  /\ tasks = [i \in Ids |-> None]
  /\ events = <<>>
  /\ now = 0
  /\ input = [c \in Commands |-> None]
  /\ stage = [c \in Commands |-> "new"]
  /\ target = [c \in Commands |-> None]
  /\ read = [c \in Commands |-> None]
  /\ next = [c \in Commands |-> None]
  /\ event = [c \in Commands |-> None]
  /\ answer = [c \in Commands |-> None]

GoTo(c, s) == stage' = [stage EXCEPT ![c] = s]

(* A command arrives and its transaction begins. *)
Call(c, i) ==
  /\ stage[c] = "new"
  /\ input' = [input EXCEPT ![c] = i]
  /\ GoTo(c, "begin")
  /\ UNCHANGED <<tasks, events, now, txnVars, answer>>

-----------------------------------------------------------------------------
(* The domain: domain/task.ts *)

createTaskDraft(tenant) ==
  [tenant |-> tenant, status |-> "Todo", version |-> 1,
   createdAt |-> now, updatedAt |-> now, completedAt |-> None]

allowedTransitions ==
  [Todo |-> {"InProgress", "Completed"}, InProgress |-> {"Todo", "Completed"},
   Completed |-> {"Todo"}]

(* Bug: the version stays. *)
KeepVersion(task, status) ==
  [tenant |-> task.tenant, status |-> status, version |-> task.version,
   createdAt |-> task.createdAt, updatedAt |-> now,
   completedAt |-> IF status = "Completed" THEN now ELSE None]

(* The result of a transition that is allowed. *)
transitionTaskStatus(task, status) ==
  [tenant |-> task.tenant, status |-> status, version |-> task.version + 1,
   createdAt |-> task.createdAt, updatedAt |-> now,
   completedAt |-> IF status = "Completed" THEN now ELSE None]

-----------------------------------------------------------------------------
(* Deciding: what a feature does up to its first write.  All of its reads  *)
(* see the snapshot of the first one.                                      *)

(* TaskLoad: the tenant is part of the filter. *)
TaskLoad(tenant, i) ==
  IF tasks[i] # None /\ tasks[i].tenant = tenant THEN tasks[i] ELSE None

(* The feature fails: nothing is written, the failure is the result.       *)
Refuse(c, error) ==
  /\ answer' = [answer EXCEPT ![c] = error]
  /\ GoTo(c, "commit")
  /\ UNCHANGED <<tasks, events, now, input, txnVars>>

(* The feature goes on to write task as i, which it has read as old.       *)
Propose(c, i, old, task) ==
  /\ target' = [target EXCEPT ![c] = i]
  /\ read' = [read EXCEPT ![c] = old]
  /\ next' = [next EXCEPT ![c] = task]
  /\ GoTo(c, "write")
  /\ UNCHANGED <<tasks, events, now, input, event, answer>>

(* IdCreate draws a random UUID: no task has or had it, no other command   *)
(* has drawn it.                                                           *)
Fresh(i) ==
  /\ tasks[i] = None
  /\ \A n \in 1..Len(events) : events[n].taskId # i
  /\ \A c \in Commands : target[c] # i

DecideCreate(c) ==
  /\ stage[c] = "begin" /\ input[c].kind = "create"
  /\ \/ ~input[c].valid /\ Refuse(c, "InvalidInput")
     \/ /\ input[c].valid
        /\ \E i \in Ids : Fresh(i) /\ Propose(c, i, None, createTaskDraft(input[c].tenant))

(* Bug: the version the client has seen is not compared. *)
AnyVersion(c, task) == TRUE

SeenVersion(c, task) == task.version = input[c].expectedVersion

DecideChange(c) ==
  /\ stage[c] = "begin" /\ input[c].kind = "change"
  /\ LET i == input[c].taskId
         task == TaskLoad(input[c].tenant, i)
         status == input[c].status
     IN \/ task = None /\ Refuse(c, "NotFound")
        \/ task # None /\ ~SeenVersion(c, task) /\ Refuse(c, "VersionConflict")
        \/ /\ task # None /\ SeenVersion(c, task)
           /\ \/ status = task.status /\ Refuse(c, "ok")  \* nothing to do
              \/ /\ status # task.status /\ status \notin allowedTransitions[task.status]
                 /\ Refuse(c, "InvalidStatusTransition")
              \/ /\ status \in allowedTransitions[task.status]
                 /\ Propose(c, i, task, transitionTaskStatus(task, status))

DecideDelete(c) ==
  /\ stage[c] = "begin" /\ input[c].kind = "delete"
  /\ LET i == input[c].taskId
         task == TaskLoad(input[c].tenant, i)
     IN \/ ~input[c].confirmed /\ Refuse(c, "ConfirmationRequired")
        \/ input[c].confirmed /\ task = None /\ Refuse(c, "NotFound")
        \/ /\ input[c].confirmed /\ task # None
           /\ \/ ~SeenVersion(c, task) /\ Refuse(c, "VersionConflict")
              \/ SeenVersion(c, task) /\ Propose(c, i, task, None)

-----------------------------------------------------------------------------
(* Writing *)

(* Bug: a write does not care what was written since the snapshot. *)
LastWriterWins(c) == TRUE

(* Bug: a finished transaction keeps its hold on the document. *)
NeverReleased(c) ==
  /\ tasks[target[c]] = read[c]
  /\ \A d \in Commands \ {c} : target[d] = target[c] => stage[d] \notin {"emit", "commit", "done"}

(* MongoDB: nobody has written the document since the snapshot, committed  *)
(* or not.                                                                 *)
Writable(c) ==
  /\ tasks[target[c]] = read[c]
  /\ \A d \in Commands \ {c} : target[d] = target[c] => stage[d] \notin {"emit", "commit"}

(* Bug: the write goes to the database without the session. *)
WriteOutsideSession(c) ==
  /\ stage[c] = "write"
  /\ Writable(c)
  /\ GoTo(c, "emit")
  /\ tasks' = [tasks EXCEPT ![target[c]] = next[c]]
  /\ read' = [read EXCEPT ![c] = next[c]]
  /\ UNCHANGED <<events, now, input, target, next, event, answer>>

(* TaskCreate, TaskSave and TaskDelete.  Their filter asks for the version *)
(* the feature has just read; inside the transaction it always matches, so *)
(* the branches for a save that found nothing are never taken.             *)
Write(c) ==
  /\ stage[c] = "write"
  /\ Writable(c)
  /\ GoTo(c, "emit")
  /\ UNCHANGED <<tasks, events, now, input, txnVars, answer>>

(* The transaction is rolled back. *)
Rollback(c) ==
  /\ target' = [target EXCEPT ![c] = None]
  /\ read' = [read EXCEPT ![c] = None]
  /\ next' = [next EXCEPT ![c] = None]
  /\ event' = [event EXCEPT ![c] = None]

(* The driver starts over, with a new snapshot. *)
WriteConflict(c) ==
  /\ stage[c] = "write"
  /\ ~Writable(c)
  /\ Rollback(c)
  /\ GoTo(c, "begin")
  /\ UNCHANGED <<tasks, events, now, input, answer>>

EventOf(c) ==
  LET i == target[c] IN
  IF read[c] = None
  THEN [type |-> "TaskCreatedV1", tenant |-> input[c].tenant, taskId |-> i,
        previousStatus |-> None, status |-> None, version |-> None, occurredAt |-> now]
  ELSE IF next[c] = None
  THEN [type |-> "TaskDeletedV1", tenant |-> input[c].tenant, taskId |-> i,
        previousStatus |-> None, status |-> None, version |-> None, occurredAt |-> now]
  ELSE [type |-> "TaskStatusChangedV1", tenant |-> input[c].tenant, taskId |-> i,
        previousStatus |-> read[c].status, status |-> next[c].status,
        version |-> next[c].version, occurredAt |-> now]

(* DomainEventEmit: the event is inserted in the same transaction. *)
Emit(c) ==
  /\ stage[c] = "emit"
  /\ event' = [event EXCEPT ![c] = EventOf(c)]
  /\ answer' = [answer EXCEPT ![c] = "ok"]
  /\ GoTo(c, "commit")
  /\ UNCHANGED <<tasks, events, now, input, target, read, next>>

(* The transaction commits, with what it wrote if it wrote anything, and   *)
(* the result is recorded and sent.                                        *)
Commit(c) ==
  /\ stage[c] = "commit"
  /\ \/ /\ event[c] # None
        /\ tasks' = [tasks EXCEPT ![target[c]] = next[c]]
        /\ events' = Append(events, event[c])
     \/ /\ event[c] = None
        /\ UNCHANGED <<tasks, events>>
  /\ GoTo(c, "done")
  /\ UNCHANGED <<now, input, txnVars, answer>>

(* Anything throws, or the process dies: the transaction is aborted.       *)
Fail(c) ==
  /\ stage[c] \in {"begin", "write", "emit", "commit"}
  /\ Rollback(c)
  /\ answer' = [answer EXCEPT ![c] = "Failed"]
  /\ GoTo(c, "done")
  /\ UNCHANGED <<tasks, events, now, input>>

Tick ==
  /\ now < MaxTime
  /\ now' = now + 1
  /\ UNCHANGED <<tasks, events, input, stage, txnVars, answer>>

-----------------------------------------------------------------------------

Advance(c) ==
  \/ DecideCreate(c) \/ DecideChange(c) \/ DecideDelete(c)
  \/ Write(c) \/ WriteConflict(c) \/ Emit(c) \/ Commit(c)

Next ==
  \/ \E c \in Commands : (\E i \in Inputs : Call(c, i)) \/ Advance(c) \/ Fail(c)
  \/ Tick

Spec == Init /\ [][Next]_vars

(* A transaction that can go on does. *)
FairSpec == Spec /\ \A c \in Commands : WF_vars(Advance(c))

-----------------------------------------------------------------------------
(* The inductive invariant *)

(* c's transaction has written its task and is neither committed nor       *)
(* rolled back.                                                            *)
Writing(c) == stage[c] = "emit" \/ (stage[c] = "commit" /\ event[c] # None)

(* A transaction that has written nothing knows of no task. *)
NothingBeforeDeciding ==
  \A c \in Commands :
    /\ stage[c] # "new" => input[c] # None
    /\ stage[c] \in {"new", "begin"} => target[c] = None
    /\ target[c] = None => event[c] = None /\ stage[c] \notin {"write", "emit"}
    /\ stage[c] \in {"write", "emit"} => event[c] = None

(* What a transaction proposes and announces fits what it has read and its *)
(* input.                                                                  *)
ProposalsFit ==
  \A c \in Commands : target[c] # None =>
    /\ read[c] = None => /\ input[c].kind = "create" /\ next[c] # None
                         /\ next[c] = [tenant |-> input[c].tenant, status |-> "Todo", version |-> 1,
                                       createdAt |-> next[c].createdAt,
                                       updatedAt |-> next[c].createdAt, completedAt |-> None]
    /\ read[c] # None => /\ input[c].kind # "create"
                         /\ read[c].tenant = input[c].tenant
                         /\ read[c].version = input[c].expectedVersion
    /\ read[c] # None /\ next[c] # None =>
         /\ next[c].tenant = read[c].tenant /\ next[c].createdAt = read[c].createdAt
         /\ next[c].version = read[c].version + 1
         /\ next[c].status \in allowedTransitions[read[c].status]
    /\ event[c] # None =>
         /\ event[c].tenant = input[c].tenant
         /\ read[c] = None => event[c].type = "TaskCreatedV1"
         /\ read[c] # None /\ next[c] = None => event[c].type = "TaskDeletedV1"
         /\ read[c] # None /\ next[c] # None =>
              /\ event[c].type = "TaskStatusChangedV1"
              /\ event[c].previousStatus = read[c].status
              /\ event[c].status = next[c].status /\ event[c].version = next[c].version

(* What a transaction has written is still as it was read, and nobody      *)
(* else is writing it.                                                     *)
WritersAreAlone ==
  \A c \in Commands : Writing(c) =>
    /\ tasks[target[c]] = read[c]
    /\ \A d \in Commands \ {c} : target[d] = target[c] => ~Writing(d)

(* Every stored task was announced. *)
StoredIsAnnounced ==
  \A i \in Ids : tasks[i] # None => \E n \in 1..Len(events) : events[n].taskId = i

(* The id of a new task is its own. *)
NewIdsAreNew ==
  \A c \in Commands : target[c] # None /\ read[c] = None /\ stage[c] # "done" =>
    /\ \A n \in 1..Len(events) : events[n].taskId # target[c]
    /\ \A d \in Commands \ {c} : target[d] # target[c]

(* What has taken effect has moved the version past the one it named.      *)
VersionsMove ==
  \A c \in Commands : stage[c] = "done" /\ event[c] # None =>
    /\ \E n \in 1..Len(events) : events[n].taskId = target[c]
    /\ tasks[target[c]] # None /\ read[c] # None =>
         tasks[target[c]].version > input[c].expectedVersion

(* Whatever happened has happened by now, and what a transaction announces *)
(* happens after what was committed about its task.                        *)
NothingFromTheFuture ==
  /\ \A n \in 1..Len(events) : events[n].occurredAt <= now
  /\ \A c \in Commands : event[c] # None =>
       /\ event[c].occurredAt <= now
       /\ event[c].taskId = target[c]
       /\ stage[c] = "commit" =>
            \A n \in 1..Len(events) :
              events[n].taskId = target[c] => events[n].occurredAt <= event[c].occurredAt

(* All of it. *)
InductiveInvariant ==
  /\ TypeOK /\ NothingBeforeDeciding /\ ProposalsFit /\ WritersAreAlone
  /\ StoredIsAnnounced /\ NewIdsAreNew /\ VersionsMove /\ NothingFromTheFuture

-----------------------------------------------------------------------------
(* Safety *)

Effective(c) == stage[c] = "done" /\ event[c] # None

(* A version is consumed once: of the commands that name one version of    *)
(* one task at most one takes effect, the others are refused or fail.      *)
NoLostUpdate ==
  \A c, d \in Commands :
    c # d /\ Effective(c) /\ Effective(d) /\ target[c] = target[d] =>
      IF input[c].kind = "create" THEN input[d].kind # "create"
      ELSE input[d].kind # "create" => input[c].expectedVersion # input[d].expectedVersion

(* The events about the task i, by their places in the order of commits.   *)
HistoryOf(i) == {n \in 1..Len(events) : events[n].taskId = i}

First(i, n) == \A m \in HistoryOf(i) : n <= m
Last(i, n) == \A m \in HistoryOf(i) : m <= n

Follows(i, n, m) ==
  m < n /\ \A k \in HistoryOf(i) : k <= m \/ n <= k

StatusAfter(e) == IF e.type = "TaskCreatedV1" THEN "Todo" ELSE e.status
VersionAfter(e) == IF e.type = "TaskCreatedV1" THEN 1 ELSE e.version

(* What is stored is what the event e says. *)
Leaves(e, task) ==
  IF e.type = "TaskDeletedV1" THEN task = None
  ELSE /\ task # None
       /\ task.tenant = e.tenant
       /\ task.status = StatusAfter(e) /\ task.version = VersionAfter(e)

(* The change e starts from what the event before it left. *)
Continues(e, before) ==
  /\ e.tenant = before.tenant
  /\ e.previousStatus = StatusAfter(before)
  /\ e.version = VersionAfter(before) + 1
  /\ e.status \in allowedTransitions[e.previousStatus]

(* The events alone tell the whole life of every task: it is created once, *)
(* each change starts from the status and version the last one left,       *)
(* nothing follows the deletion, and what the last event says is what is   *)
(* stored.                                                                 *)
EventsTellTheTasks ==
  \A i \in Ids :
    /\ HistoryOf(i) = {} => tasks[i] = None
    /\ \A n \in HistoryOf(i) :
         /\ First(i, n) <=> events[n].type = "TaskCreatedV1"
         /\ events[n].type = "TaskDeletedV1" => Last(i, n)
         /\ Last(i, n) => Leaves(events[n], tasks[i])
         /\ \A m \in HistoryOf(i) :
              events[n].type = "TaskStatusChangedV1" /\ Follows(i, n, m) =>
                Continues(events[n], events[m])

(* The events about one task occur in the order in which they commit, so   *)
(* a reader that sorts by occurredAt sees its life in order (events of     *)
(* different tasks may commit the other way round).                        *)
OneTaskInOrder ==
  \A m, n \in 1..Len(events) :
    m < n /\ events[m].taskId = events[n].taskId => events[m].occurredAt <= events[n].occurredAt

(* No step changes or removes a task unless a command of its own tenant    *)
(* commits.                                                                *)
TenantsAreApart ==
  [][\A i \in Ids : tasks[i] # None /\ tasks'[i] # tasks[i] =>
       \E c \in Commands : /\ stage[c] = "commit" /\ stage'[c] = "done"
                           /\ target[c] = i /\ input[c].tenant = tasks[i].tenant]_vars

(* Refinement: owners, statuses and versions change as the ledger says.    *)
LedgerTask(t) ==
  IF t = None THEN None ELSE [tenant |-> t.tenant, status |-> t.status, version |-> t.version]

LedgerEntry(e) == <<e.type, e.taskId>>

Ledger == INSTANCE TaskLedger WITH
  tasks <- [i \in Ids |-> LedgerTask(tasks[i])],
  log <- [n \in 1..Len(events) |-> LedgerEntry(events[n])]

ImplementsLedger == Ledger!Spec

(* Liveness: a command is answered, whatever conflicts it meets.           *)
EveryCommandIsAnswered == \A c \in Commands : stage[c] = "begin" ~> stage[c] = "done"

=============================================================================
