----------------------------- MODULE TasksProofs -----------------------------
(***************************************************************************)
(* Proofs about Tasks: the inductive invariant, that no update is lost,    *)
(* that the events of a task are in order, that tenants are apart, and     *)
(* that the concurrent transactions implement the sequential TaskLedger.   *)
(***************************************************************************)
EXTENDS TaskPages, FiniteSetTheorems, SequenceTheorems, WellFoundedInduction, TLAPS

-----------------------------------------------------------------------------
(* Operators *)

(* A new task is a task, of the actor's tenant. *)
LEMMA DraftFits ==
  ASSUME now \in Nat, NEW tenant \in Tenants
  PROVE  /\ createTaskDraft(tenant) \in Task
         /\ createTaskDraft(tenant) = [tenant |-> tenant, status |-> "Todo", version |-> 1,
                                       createdAt |-> now, updatedAt |-> now, completedAt |-> None]
  BY DEF createTaskDraft, Task, Statuses

(* A transition keeps the owner and moves status and version. *)
LEMMA TransitionFits ==
  ASSUME now \in Nat, NEW task \in Task, NEW status \in Statuses
  PROVE  /\ transitionTaskStatus(task, status) \in Task
         /\ transitionTaskStatus(task, status).tenant = task.tenant
         /\ transitionTaskStatus(task, status).createdAt = task.createdAt
         /\ transitionTaskStatus(task, status).status = status
         /\ transitionTaskStatus(task, status).version = task.version + 1
<1> DEFINE done == IF status = "Completed" THEN now ELSE None
<1>1. done \in Nat \cup {None} OBVIOUS
<1>2. transitionTaskStatus(task, status) =
        [tenant |-> task.tenant, status |-> status, version |-> task.version + 1,
         createdAt |-> task.createdAt, updatedAt |-> now, completedAt |-> done]
  BY DEF transitionTaskStatus
<1> HIDE DEF done
<1>3. task.version + 1 \in Nat \ {0} BY DEF Task
<1> QED BY <1>1, <1>2, <1>3 DEF Task

(* What TaskLoad finds is the stored task, and it is the tenant's. *)
LEMMA LoadFits ==
  ASSUME NEW tenant, NEW i, TaskLoad(tenant, i) # None
  PROVE  TaskLoad(tenant, i) = tasks[i] /\ tasks[i].tenant = tenant
  BY DEF TaskLoad

(* The event of a transaction is one, is about its task and happens now.   *)
LEMMA EventFits ==
  ASSUME TypeOK, NEW c \in Commands, target[c] \in Ids, input[c] \in Inputs
  PROVE  /\ EventOf(c) \in Event
         /\ EventOf(c).taskId = target[c]
         /\ EventOf(c).occurredAt = now /\ EventOf(c).tenant = input[c].tenant
         /\ read[c] = None => EventOf(c).type = "TaskCreatedV1"
         /\ read[c] # None /\ next[c] = None => EventOf(c).type = "TaskDeletedV1"
         /\ read[c] # None /\ next[c] # None =>
              /\ EventOf(c).type = "TaskStatusChangedV1"
              /\ EventOf(c).previousStatus = read[c].status
              /\ EventOf(c).status = next[c].status /\ EventOf(c).version = next[c].version
<1>1. input[c].tenant \in Tenants BY TasksAssumption DEF AllInputs
<1>2. read[c] \in Task \cup {None} /\ next[c] \in Task \cup {None} /\ now \in Nat
  BY DEF TypeOK
<1>3. CASE read[c] = None BY <1>1, <1>2, <1>3 DEF EventOf, Event
<1>4. CASE read[c] # None /\ next[c] = None BY <1>1, <1>2, <1>4 DEF EventOf, Event
<1>5. CASE read[c] # None /\ next[c] # None
  <2>1. read[c].status \in Statuses /\ next[c].status \in Statuses /\ next[c].version \in Nat
    BY <1>2, <1>5 DEF Task
  <2> QED BY <1>1, <1>2, <1>5, <2>1 DEF EventOf, Event
<1> QED BY <1>3, <1>4, <1>5

-----------------------------------------------------------------------------
(* The inductive invariant *)

LEMMA InitInvariant == Init => InductiveInvariant
<1> SUFFICES ASSUME Init PROVE InductiveInvariant OBVIOUS
<1> USE DEF Init
<1>1. TypeOK BY DEF TypeOK, Stages
<1>2. NothingBeforeDeciding BY DEF NothingBeforeDeciding
<1>3. ProposalsFit BY DEF ProposalsFit
<1>4. WritersAreAlone BY DEF WritersAreAlone, Writing
<1>5. NewIdsAreNew BY DEF NewIdsAreNew
<1>8. StoredIsAnnounced BY DEF StoredIsAnnounced
<1>6. VersionsMove BY DEF VersionsMove
<1>7. NothingFromTheFuture BY DEF NothingFromTheFuture
<1> QED BY <1>1, <1>2, <1>3, <1>4, <1>5, <1>6, <1>7, <1>8 DEF InductiveInvariant

LEMMA CallKeeps ==
  ASSUME InductiveInvariant, NEW c \in Commands, NEW i \in Inputs, Call(c, i)
  PROVE  InductiveInvariant'
<1> USE DEF InductiveInvariant, Call, GoTo, txnVars
<1>1. TypeOK' BY DEF TypeOK, Stages
<1>2. i # None BY TasksAssumption
<1>3. NothingBeforeDeciding' BY <1>2 DEF NothingBeforeDeciding, TypeOK
<1>4. target[c] = None /\ event[c] = None BY DEF NothingBeforeDeciding
<1>5. ProposalsFit' BY <1>4 DEF ProposalsFit, TypeOK
<1>6. WritersAreAlone' BY <1>4 DEF WritersAreAlone, Writing, TypeOK
<1>7. NewIdsAreNew' BY <1>4 DEF NewIdsAreNew, TypeOK
<1>8. VersionsMove' BY <1>4 DEF VersionsMove, TypeOK
<1>9. NothingFromTheFuture' BY <1>4 DEF NothingFromTheFuture, TypeOK
<1>10. StoredIsAnnounced' BY DEF StoredIsAnnounced
<1> QED BY <1>1, <1>3, <1>5, <1>6, <1>7, <1>8, <1>9, <1>10

LEMMA RefuseKeeps ==
  ASSUME InductiveInvariant, NEW c \in Commands, NEW error \in Errors \cup {"ok"},
         stage[c] = "begin", Refuse(c, error)
  PROVE  InductiveInvariant'
<1> USE DEF InductiveInvariant, Refuse, GoTo, txnVars
<1>1. TypeOK' BY DEF TypeOK, Stages
<1>2. target[c] = None /\ event[c] = None /\ input[c] # None BY DEF NothingBeforeDeciding
<1>3. NothingBeforeDeciding' BY <1>2 DEF NothingBeforeDeciding, TypeOK
<1>4. ProposalsFit' BY <1>2 DEF ProposalsFit, TypeOK
<1>5. WritersAreAlone' BY <1>2 DEF WritersAreAlone, Writing, TypeOK
<1>6. NewIdsAreNew' BY <1>2 DEF NewIdsAreNew, TypeOK
<1>7. VersionsMove' BY <1>2 DEF VersionsMove, TypeOK
<1>8. NothingFromTheFuture' BY <1>2 DEF NothingFromTheFuture, TypeOK
<1>9. StoredIsAnnounced' BY DEF StoredIsAnnounced
<1> QED BY <1>1, <1>3, <1>4, <1>5, <1>6, <1>7, <1>8, <1>9

(* A proposal is either a new task under a fresh id or a successor of the  *)
(* stored task, of the same tenant and from the version the input names.   *)
LEMMA ProposeKeeps ==
  ASSUME InductiveInvariant, NEW c \in Commands, stage[c] = "begin",
         NEW i \in Ids, NEW old \in Task \cup {None}, NEW task \in Task \cup {None},
         Propose(c, i, old, task),
         old = None => /\ input[c].kind = "create" /\ Fresh(i)
                       /\ task = createTaskDraft(input[c].tenant) /\ task # None,
         old # None => /\ input[c].kind # "create" /\ tasks[i] = old
                       /\ old.tenant = input[c].tenant
                       /\ old.version = input[c].expectedVersion,
         old # None /\ task # None => /\ task.tenant = old.tenant /\ task.createdAt = old.createdAt
                                      /\ task.version = old.version + 1
                                      /\ task.status \in allowedTransitions[old.status]
  PROVE  InductiveInvariant'
<1> USE DEF InductiveInvariant, Propose, GoTo, txnVars
<1>1. TypeOK' BY DEF TypeOK, Stages
<1>2. event[c] = None /\ input[c] # None BY DEF NothingBeforeDeciding
<1>3. i # None BY TasksAssumption
<1>4. NothingBeforeDeciding' BY <1>2, <1>3 DEF NothingBeforeDeciding, TypeOK
<1>5. ProposalsFit'
  <2>1. old = None => task # None /\
          task = [tenant |-> input[c].tenant, status |-> "Todo", version |-> 1,
                  createdAt |-> task.createdAt, updatedAt |-> task.createdAt,
                  completedAt |-> None]
    BY DEF createTaskDraft
  <2> QED BY <1>2, <2>1 DEF ProposalsFit, TypeOK
<1>6. WritersAreAlone' BY <1>2 DEF WritersAreAlone, Writing, TypeOK
<1>7. NewIdsAreNew'
  <2> SUFFICES ASSUME NEW d \in Commands,
                      target'[d] # None, read'[d] = None, stage'[d] # "done"
               PROVE  /\ \A n \in 1..Len(events) : events[n].taskId # target'[d]
                      /\ \A e \in Commands \ {d} : target'[e] # target'[d]
    BY DEF NewIdsAreNew
  <2>1. CASE d = c BY <2>1 DEF Fresh, TypeOK
  <2>2. CASE d # c
    <3>1. target[d] # None /\ read[d] = None /\ stage[d] # "done" BY <2>2 DEF TypeOK
    <3>2. target[d] # i
      <4>1. CASE old = None BY <4>1, <2>2, <3>1 DEF Fresh
      <4>2. CASE old # None
        <5>1. PICK n \in 1..Len(events) : events[n].taskId = i
          BY <4>2 DEF StoredIsAnnounced
        <5> QED BY <5>1, <3>1 DEF NewIdsAreNew
      <4> QED BY <4>1, <4>2
    <3> QED BY <2>2, <3>1, <3>2 DEF NewIdsAreNew, TypeOK
  <2> QED BY <2>1, <2>2
<1>8. VersionsMove' BY <1>2 DEF VersionsMove, TypeOK
<1>9. NothingFromTheFuture' BY <1>2 DEF NothingFromTheFuture, TypeOK
<1>10. StoredIsAnnounced' BY DEF StoredIsAnnounced
<1> QED BY <1>1, <1>4, <1>5, <1>6, <1>7, <1>8, <1>9, <1>10

(* The features decide: each refuses, or proposes what ProposeKeeps asks.  *)
LEMMA DecideKeeps ==
  ASSUME InductiveInvariant, NEW c \in Commands,
         DecideCreate(c) \/ DecideChange(c) \/ DecideDelete(c)
  PROVE  InductiveInvariant'
<1>1. stage[c] = "begin" BY DEF DecideCreate, DecideChange, DecideDelete
<1>2. TypeOK /\ input[c] \in Inputs /\ now \in Nat
  BY <1>1 DEF InductiveInvariant, NothingBeforeDeciding, TypeOK
<1>3. input[c].tenant \in Tenants BY <1>2, TasksAssumption DEF AllInputs
<1>4. CASE DecideCreate(c)
  <2>1. CASE Refuse(c, "InvalidInput") BY <1>1, <2>1, RefuseKeeps DEF Errors
  <2>2. CASE ~Refuse(c, "InvalidInput")
    <3>1. PICK i \in Ids : Fresh(i) /\ Propose(c, i, None, createTaskDraft(input[c].tenant))
      BY <1>4, <2>2 DEF DecideCreate
    <3>2. createTaskDraft(input[c].tenant) \in Task BY <1>2, <1>3, DraftFits
    <3>3. input[c].kind = "create" BY <1>4 DEF DecideCreate
    <3> DEFINE task == createTaskDraft(input[c].tenant)
    <3>4. task = createTaskDraft(input[c].tenant) /\ task # None BY <3>2, TasksAssumption
    <3> HIDE DEF task
    <3> QED BY <1>1, <3>1, <3>2, <3>3, <3>4, ProposeKeeps
  <2> QED BY <2>1, <2>2
<1>5. CASE DecideChange(c)
  <2> DEFINE i == input[c].taskId
             old == TaskLoad(input[c].tenant, i)
             status == input[c].status
             task == transitionTaskStatus(old, status)
  <2>1. input[c].kind = "change" BY <1>5 DEF DecideChange
  <2>2. i \in Ids /\ status \in Statuses BY <1>2, <2>1, TasksAssumption DEF AllInputs
  <2>3. CASE \E e \in Errors \cup {"ok"} : Refuse(c, e) BY <1>1, <2>3, RefuseKeeps
  <2>4. CASE ~\E e \in Errors \cup {"ok"} : Refuse(c, e)
    <3>1. /\ old # None /\ SeenVersion(c, old)
          /\ status \in allowedTransitions[old.status]
          /\ Propose(c, i, old, task)
      BY <1>5, <2>4 DEF DecideChange, Errors
    <3>2. old = tasks[i] /\ old.tenant = input[c].tenant BY <3>1, LoadFits
    <3>3. old \in Task BY <1>2, <2>2, <3>1, <3>2 DEF TypeOK
    <3>4. /\ task \in Task /\ task.tenant = old.tenant /\ task.createdAt = old.createdAt /\ task.status = status
          /\ task.version = old.version + 1
      BY <1>2, <2>2, <3>3, TransitionFits
    <3>5. old.version = input[c].expectedVersion BY <3>1 DEF SeenVersion
    <3> HIDE DEF i, old, status, task
    <3> QED BY <1>1, <2>1, <2>2, <3>1, <3>2, <3>3, <3>4, <3>5, ProposeKeeps
  <2> QED BY <2>3, <2>4
<1>6. CASE DecideDelete(c)
  <2> DEFINE i == input[c].taskId
             old == TaskLoad(input[c].tenant, i)
  <2>1. input[c].kind = "delete" BY <1>6 DEF DecideDelete
  <2>2. i \in Ids BY <1>2, <2>1, TasksAssumption DEF AllInputs
  <2>3. CASE \E e \in Errors \cup {"ok"} : Refuse(c, e) BY <1>1, <2>3, RefuseKeeps
  <2>4. CASE ~\E e \in Errors \cup {"ok"} : Refuse(c, e)
    <3>1. old # None /\ SeenVersion(c, old) /\ Propose(c, i, old, None)
      BY <1>6, <2>4 DEF DecideDelete, Errors
    <3>2. old = tasks[i] /\ old.tenant = input[c].tenant BY <3>1, LoadFits
    <3>3. old \in Task BY <1>2, <2>2, <3>1, <3>2 DEF TypeOK
    <3>4. old.version = input[c].expectedVersion BY <3>1 DEF SeenVersion
    <3> HIDE DEF i, old
    <3> QED BY <1>1, <2>1, <2>2, <3>1, <3>2, <3>3, <3>4, ProposeKeeps
  <2> QED BY <2>3, <2>4
<1> QED BY <1>4, <1>5, <1>6

LEMMA WriteKeeps ==
  ASSUME InductiveInvariant, NEW c \in Commands, Write(c)
  PROVE  InductiveInvariant'
<1> USE DEF InductiveInvariant, Write, GoTo, txnVars
<1>1. TypeOK' BY DEF TypeOK, Stages
<1>2. event[c] = None BY DEF NothingBeforeDeciding
<1>3. NothingBeforeDeciding' BY <1>2 DEF NothingBeforeDeciding, TypeOK
<1>4. ProposalsFit' BY DEF ProposalsFit, TypeOK
<1>5. WritersAreAlone' BY DEF WritersAreAlone, Writing, Writable, TypeOK
<1>6. NewIdsAreNew' BY DEF NewIdsAreNew, TypeOK
<1>7. VersionsMove' BY <1>2 DEF VersionsMove, TypeOK
<1>8. NothingFromTheFuture' BY <1>2 DEF NothingFromTheFuture, TypeOK
<1>9. StoredIsAnnounced' BY DEF StoredIsAnnounced
<1> QED BY <1>1, <1>3, <1>4, <1>5, <1>6, <1>7, <1>8, <1>9

(* A transaction is rolled back, to begin again or for good. *)
LEMMA RollbackKeeps ==
  ASSUME InductiveInvariant, NEW c \in Commands, stage[c] \notin {"new", "done"},
         Rollback(c), NEW s \in {"begin", "done"}, GoTo(c, s),
         NEW a \in Errors \cup {"ok", None}, answer' = [answer EXCEPT ![c] = a],
         UNCHANGED <<tasks, events, now, input>>
  PROVE  InductiveInvariant'
<1> USE DEF InductiveInvariant, Rollback, GoTo
<1>1. TypeOK' BY DEF TypeOK, Stages
<1>2. NothingBeforeDeciding' BY DEF NothingBeforeDeciding, TypeOK
<1>3. ProposalsFit' BY DEF ProposalsFit, TypeOK
<1>4. WritersAreAlone'
  <2> SUFFICES ASSUME NEW d \in Commands, Writing(d)'
               PROVE  /\ tasks[target[d]] = read[d] /\ target'[d] = target[d] /\ read'[d] = read[d]
                      /\ \A e \in Commands \ {d} : target'[e] = target'[d] => ~Writing(e)'
    BY DEF WritersAreAlone
  <2>1. d # c BY DEF Writing, TypeOK
  <2>2. Writing(d) BY <2>1 DEF Writing, TypeOK
  <2>3. \A e \in Commands : Writing(e)' => Writing(e) /\ e # c BY DEF Writing, TypeOK
  <2> QED BY <2>1, <2>2, <2>3 DEF WritersAreAlone, TypeOK
<1>5. NewIdsAreNew' BY DEF NewIdsAreNew, TypeOK
<1>6. VersionsMove' BY DEF VersionsMove, TypeOK
<1>7. NothingFromTheFuture' BY DEF NothingFromTheFuture, TypeOK
<1>8. StoredIsAnnounced' BY DEF StoredIsAnnounced
<1> QED BY <1>1, <1>2, <1>3, <1>4, <1>5, <1>6, <1>7, <1>8

LEMMA EmitKeeps ==
  ASSUME InductiveInvariant, NEW c \in Commands, Emit(c)
  PROVE  InductiveInvariant'
<1> DEFINE e == EventOf(c)
<1>1. target[c] \in Ids /\ input[c] \in Inputs
  BY DEF InductiveInvariant, Emit, NothingBeforeDeciding, TypeOK
<1>2. /\ e \in Event /\ e.taskId = target[c] /\ e.occurredAt = now
      /\ e.tenant = input[c].tenant
      /\ read[c] = None => e.type = "TaskCreatedV1"
      /\ read[c] # None /\ next[c] = None => e.type = "TaskDeletedV1"
      /\ read[c] # None /\ next[c] # None =>
           /\ e.type = "TaskStatusChangedV1"
           /\ e.previousStatus = read[c].status
           /\ e.status = next[c].status /\ e.version = next[c].version
  BY <1>1, EventFits DEF InductiveInvariant
<1>3. event' = [event EXCEPT ![c] = e] BY DEF Emit
<1> HIDE DEF e
<1>4. e # None BY <1>2, TasksAssumption
<1> USE DEF InductiveInvariant, Emit, GoTo
<1>5. TypeOK' BY <1>2, <1>3 DEF TypeOK, Stages
<1>6. NothingBeforeDeciding' BY <1>1, <1>3, TasksAssumption DEF NothingBeforeDeciding, TypeOK
<1>7. ProposalsFit' BY <1>2, <1>3 DEF ProposalsFit, TypeOK
<1>8. WritersAreAlone'
  <2>1. \A d \in Commands : Writing(d)' <=> Writing(d) BY <1>3, <1>4 DEF Writing, TypeOK
  <2> QED BY <2>1 DEF WritersAreAlone
<1>9. NewIdsAreNew' BY DEF NewIdsAreNew, TypeOK
<1>10. VersionsMove' BY <1>3 DEF VersionsMove, TypeOK
<1>11. NothingFromTheFuture' BY <1>2, <1>3 DEF NothingFromTheFuture, TypeOK
<1>12. StoredIsAnnounced' BY DEF StoredIsAnnounced
<1> QED BY <1>5, <1>6, <1>7, <1>8, <1>9, <1>10, <1>11, <1>12

(* A commit appends its event, and what was there stays. *)
LEMMA AppendedEvent ==
  ASSUME events \in Seq(Event), NEW e \in Event, events' = Append(events, e)
  PROVE  /\ Len(events) \in Nat /\ events' \in Seq(Event)
         /\ Len(events') = Len(events) + 1
         /\ events'[Len(events) + 1] = e
         /\ \A n \in 1..Len(events) : n \in 1..Len(events') /\ events'[n] = events[n]
         /\ \A n \in 1..Len(events') : n \in 1..Len(events) \/ n = Len(events) + 1
  OBVIOUS

LEMMA CommitKeeps ==
  ASSUME InductiveInvariant, NEW c \in Commands, Commit(c)
  PROVE  InductiveInvariant'
<1> USE DEF InductiveInvariant, GoTo, txnVars
<1>1. CASE event[c] = None
  <2> USE DEF Commit
  <2> UNCHANGED <<tasks, events>> BY <1>1
  <2>1. TypeOK' BY DEF TypeOK, Stages
  <2>2. NothingBeforeDeciding' BY <1>1 DEF NothingBeforeDeciding, TypeOK
  <2>3. ProposalsFit' BY DEF ProposalsFit, TypeOK
  <2>4. WritersAreAlone' BY <1>1 DEF WritersAreAlone, Writing, TypeOK
  <2>5. NewIdsAreNew' BY DEF NewIdsAreNew, TypeOK
  <2>6. VersionsMove' BY <1>1 DEF VersionsMove, TypeOK
  <2>7. NothingFromTheFuture' BY <1>1 DEF NothingFromTheFuture, TypeOK
  <2>8. StoredIsAnnounced' BY DEF StoredIsAnnounced
  <2> QED BY <2>1, <2>2, <2>3, <2>4, <2>5, <2>6, <2>7, <2>8
<1>2. CASE event[c] # None
  <2> DEFINE i == target[c]
  <2>1. /\ stage[c] = "commit" /\ stage' = [stage EXCEPT ![c] = "done"]
        /\ tasks' = [tasks EXCEPT ![i] = next[c]]
        /\ events' = Append(events, event[c])
        /\ UNCHANGED <<now, input, target, read, next, event, answer>>
    BY <1>2 DEF Commit
  <2>2. event[c] \in Event /\ event[c].taskId = i /\ event[c].occurredAt <= now
    BY <1>2 DEF TypeOK, NothingFromTheFuture
  <2>3. i \in Ids /\ i # None BY <1>2 DEF NothingBeforeDeciding, TypeOK
  <2>4. /\ tasks[i] = read[c]
        /\ \A d \in Commands \ {c} : target[d] = i => ~Writing(d)
    BY <1>2, <2>1 DEF WritersAreAlone, Writing
  <2>5. events \in Seq(Event) BY DEF TypeOK
  <2> DEFINE L == Len(events)
  <2>6. /\ L \in Nat /\ events' \in Seq(Event) /\ Len(events') = L + 1
        /\ events'[L + 1] = event[c]
        /\ \A n \in 1..L : n \in 1..Len(events') /\ events'[n] = events[n]
        /\ \A n \in 1..Len(events') : n \in 1..L \/ n = L + 1
    BY <2>1, <2>2, <2>5, AppendedEvent
  <2>7. L + 1 \in 1..Len(events') BY <2>6
  <2>8. tasks'[i] = next[c] /\ \A j \in Ids \ {i} : tasks'[j] = tasks[j]
    BY <2>1, <2>3 DEF TypeOK
  <2> HIDE DEF L, i
  <2>9. TypeOK' BY <2>1, <2>3, <2>6 DEF TypeOK, Stages
  <2>10. NothingBeforeDeciding' BY <2>1 DEF NothingBeforeDeciding, TypeOK
  <2>11. ProposalsFit' BY <2>1 DEF ProposalsFit, TypeOK
  <2>12. WritersAreAlone'
    <3> SUFFICES ASSUME NEW d \in Commands, Writing(d)'
                 PROVE  /\ tasks'[target[d]] = read[d]
                        /\ \A e \in Commands \ {d} : target[e] = target[d] => ~Writing(e)'
      BY <2>1 DEF WritersAreAlone
    <3>1. \A e \in Commands : Writing(e)' => Writing(e) /\ e # c
      BY <2>1 DEF Writing, TypeOK
    <3>2. target[d] # i /\ Writing(d) BY <2>4, <3>1
    <3>3. target[d] \in Ids BY <3>2 DEF Writing, NothingBeforeDeciding, TypeOK
    <3> QED BY <2>8, <3>1, <3>2, <3>3 DEF WritersAreAlone
  <2>13. NewIdsAreNew'
    <3> SUFFICES ASSUME NEW d \in Commands, target[d] # None, read[d] = None, stage'[d] # "done"
                 PROVE  /\ \A n \in 1..Len(events') : events'[n].taskId # target[d]
                        /\ \A e \in Commands \ {d} : target[e] # target[d]
      BY <2>1 DEF NewIdsAreNew
    <3>1. d # c /\ stage[d] # "done" BY <2>1 DEF TypeOK
    <3>2. i # target[d] BY <3>1 DEF NewIdsAreNew, i
    <3> QED BY <2>2, <2>6, <3>1, <3>2 DEF NewIdsAreNew, L
  <2>14. VersionsMove'
    <3> SUFFICES ASSUME NEW d \in Commands, stage'[d] = "done", event[d] # None
                 PROVE  /\ \E n \in 1..Len(events') : events'[n].taskId = target[d]
                        /\ tasks'[target[d]] # None /\ read[d] # None =>
                             tasks'[target[d]].version > input[d].expectedVersion
      BY <2>1 DEF VersionsMove
    <3>1. target[d] \in Ids BY DEF NothingBeforeDeciding, TypeOK
    <3>2. next[c] # None /\ read[c] # None =>
            next[c].version = read[c].version + 1 /\ read[c].version \in Nat
      BY <2>3 DEF ProposalsFit, TypeOK, Task, i
    <3>3. CASE d = c
      <4>1. \E n \in 1..Len(events') : events'[n].taskId = target[d]
        BY <2>2, <2>6, <2>7, <3>3 DEF i
      <4>2. read[c] # None => read[c].version = input[c].expectedVersion
        BY <2>3 DEF ProposalsFit, i
      <4> QED BY <2>8, <3>2, <3>3, <4>1, <4>2 DEF i
    <3>4. CASE d # c
      <4>1. stage[d] = "done" BY <2>1, <3>4 DEF TypeOK
      <4>2. PICK n \in 1..L : events[n].taskId = target[d] BY <4>1 DEF VersionsMove, L
      <4>3. \E m \in 1..Len(events') : events'[m].taskId = target[d] BY <2>6, <4>2
      <4>4. CASE target[d] # i BY <2>8, <3>1, <4>1, <4>3, <4>4 DEF VersionsMove
      <4>5. CASE target[d] = i
        <5>1. read[c] # None BY <2>1, <2>3, <4>2, <4>5 DEF NewIdsAreNew, L, i
        <5>2. read[d] # None => read[c].version > input[d].expectedVersion
          BY <2>4, <4>1, <4>5, <5>1 DEF VersionsMove
        <5>3. read[d] # None => input[d].expectedVersion \in Nat
          <6>1. read[d] # None => read[d].version = input[d].expectedVersion
            BY <3>1, TasksAssumption DEF ProposalsFit
          <6> QED BY <6>1 DEF TypeOK, Task
        <5> QED BY <2>8, <3>2, <4>3, <4>5, <5>1, <5>2, <5>3
      <4> QED BY <4>4, <4>5
    <3> QED BY <3>3, <3>4
  <2>15. NothingFromTheFuture'
    <3>1. \A n \in 1..Len(events') : events'[n].occurredAt <= now
      BY <2>2, <2>6 DEF NothingFromTheFuture, L
    <3>2. ASSUME NEW d \in Commands, event[d] # None
          PROVE  /\ event[d].occurredAt <= now
                 /\ event[d].taskId = target[d]
                 /\ stage'[d] = "commit" =>
                      \A n \in 1..Len(events') :
                        events'[n].taskId = target[d] => events'[n].occurredAt <= event[d].occurredAt
      <4>1. event[d].occurredAt <= now /\ event[d].taskId = target[d]
        BY <3>2 DEF NothingFromTheFuture
      <4>2. ASSUME stage'[d] = "commit", NEW n \in 1..Len(events'), events'[n].taskId = target[d]
            PROVE  events'[n].occurredAt <= event[d].occurredAt
        <5>1. d # c /\ stage[d] = "commit" BY <2>1, <4>2 DEF TypeOK
        <5>2. target[d] # i BY <2>4, <3>2, <5>1 DEF Writing
        <5>3. n \in 1..L /\ events'[n] = events[n] BY <2>2, <2>6, <4>2, <5>2
        <5> QED BY <3>2, <4>2, <5>1, <5>3 DEF NothingFromTheFuture, L
      <4> QED BY <4>1, <4>2
    <3> QED BY <2>1, <3>1, <3>2 DEF NothingFromTheFuture
  <2>16. StoredIsAnnounced'
    <3> SUFFICES ASSUME NEW j \in Ids, tasks'[j] # None
                 PROVE  \E n \in 1..Len(events') : events'[n].taskId = j
      BY DEF StoredIsAnnounced
    <3>1. CASE j = i BY <2>2, <2>6, <2>7, <3>1
    <3>2. CASE j # i
      <4>1. PICK n \in 1..L : events[n].taskId = j BY <2>8, <3>2 DEF StoredIsAnnounced, L
      <4> QED BY <2>6, <4>1
    <3> QED BY <3>1, <3>2
  <2> QED BY <2>9, <2>10, <2>11, <2>12, <2>13, <2>14, <2>15, <2>16
<1> QED BY <1>1, <1>2

LEMMA TickKeeps ==
  ASSUME InductiveInvariant, Tick
  PROVE  InductiveInvariant'
<1> USE DEF InductiveInvariant, Tick, txnVars
<1>1. TypeOK' BY DEF TypeOK
<1>2. NothingBeforeDeciding' BY DEF NothingBeforeDeciding
<1>3. ProposalsFit' BY DEF ProposalsFit
<1>4. WritersAreAlone' BY DEF WritersAreAlone, Writing
<1>5. NewIdsAreNew' BY DEF NewIdsAreNew
<1>6. VersionsMove' BY DEF VersionsMove
<1>7. NothingFromTheFuture'
  <2>1. \A n \in 1..Len(events) : events[n] \in Event BY DEF TypeOK
  <2>2. now \in Nat /\ now' = now + 1 BY DEF TypeOK
  <2>3. \A e \in Event : e.occurredAt \in Nat BY DEF Event
  <2>4. \A c \in Commands : event[c] # None => event[c] \in Event BY DEF TypeOK
  <2> QED BY <2>1, <2>2, <2>3, <2>4 DEF NothingFromTheFuture
<1>8. StoredIsAnnounced' BY DEF StoredIsAnnounced
<1> QED BY <1>1, <1>2, <1>3, <1>4, <1>5, <1>6, <1>7, <1>8

LEMMA StepKeeps == InductiveInvariant /\ [Next]_vars => InductiveInvariant'
<1> SUFFICES ASSUME InductiveInvariant, [Next]_vars PROVE InductiveInvariant' OBVIOUS
<1>1. CASE UNCHANGED vars
  BY <1>1 DEF vars, txnVars, InductiveInvariant, TypeOK, NothingBeforeDeciding, ProposalsFit,
     WritersAreAlone, Writing, StoredIsAnnounced, NewIdsAreNew, VersionsMove, NothingFromTheFuture
<1>2. ASSUME NEW c \in Commands, NEW i \in Inputs, Call(c, i) PROVE InductiveInvariant'
  BY <1>2, CallKeeps
<1>3. ASSUME NEW c \in Commands, Advance(c) PROVE InductiveInvariant'
  <2>1. CASE DecideCreate(c) \/ DecideChange(c) \/ DecideDelete(c) BY <2>1, DecideKeeps
  <2>2. CASE Write(c) BY <2>2, WriteKeeps
  <2>3. CASE WriteConflict(c)
    <3>1. answer' = [answer EXCEPT ![c] = answer[c]] /\ answer[c] \in Errors \cup {"ok", None}
      BY <2>3 DEF WriteConflict, InductiveInvariant, TypeOK
    <3> QED BY <2>3, <3>1, RollbackKeeps DEF WriteConflict
  <2>4. CASE Emit(c) BY <2>4, EmitKeeps
  <2>5. CASE Commit(c) BY <2>5, CommitKeeps
  <2> QED BY <1>3, <2>1, <2>2, <2>3, <2>4, <2>5 DEF Advance
<1>4. ASSUME NEW c \in Commands, Fail(c) PROVE InductiveInvariant'
  BY <1>4, RollbackKeeps DEF Fail, Errors
<1>5. CASE Tick BY <1>5, TickKeeps
<1> QED BY <1>1, <1>2, <1>3, <1>4, <1>5 DEF Next

(* Every reachable state satisfies the invariant: the documents and events *)
(* are well typed, a transaction that has written is the only one that has *)
(* written its task and has read what is stored, a new id is its own, and  *)
(* a command that took effect has moved the version it named.              *)
THEOREM InvariantHolds == Spec => []InductiveInvariant
<1> QED BY InitInvariant, StepKeeps, PTL DEF Spec

-----------------------------------------------------------------------------
(* What follows *)

(* The documents and the log change when a transaction commits, and then   *)
(* as it proposed; what has been done stays done.                          *)
LEMMA OnlyCommitsWrite ==
  ASSUME InductiveInvariant, [Next]_vars
  PROVE  \/ UNCHANGED <<tasks, events>> /\ \A d \in Commands : Effective(d)' => Effective(d)
         \/ \E c \in Commands : Commit(c) /\ event[c] # None
<1> USE DEF InductiveInvariant, TypeOK, GoTo, txnVars, Effective
<1>1. CASE UNCHANGED vars BY <1>1 DEF vars
<1>2. ASSUME NEW c \in Commands, NEW i \in Inputs, Call(c, i)
      PROVE  UNCHANGED <<tasks, events>> /\ \A d \in Commands : Effective(d)' => Effective(d)
  BY <1>2 DEF Call
<1>3. ASSUME NEW c \in Commands, DecideCreate(c) \/ DecideChange(c) \/ DecideDelete(c)
      PROVE  UNCHANGED <<tasks, events>> /\ \A d \in Commands : Effective(d)' => Effective(d)
  <2>1. CASE \E e \in Errors \cup {"ok"} : Refuse(c, e) BY <2>1 DEF Refuse
  <2>2. CASE \E i, old, task : Propose(c, i, old, task) BY <2>2 DEF Propose
  <2> QED BY <1>3, <2>1, <2>2 DEF DecideCreate, DecideChange, DecideDelete, Errors
<1>4. ASSUME NEW c \in Commands, Write(c)
      PROVE  UNCHANGED <<tasks, events>> /\ \A d \in Commands : Effective(d)' => Effective(d)
  BY <1>4 DEF Write
<1>5. ASSUME NEW c \in Commands, WriteConflict(c)
      PROVE  UNCHANGED <<tasks, events>> /\ \A d \in Commands : Effective(d)' => Effective(d)
  BY <1>5 DEF WriteConflict, Rollback
<1>6. ASSUME NEW c \in Commands, Emit(c)
      PROVE  UNCHANGED <<tasks, events>> /\ \A d \in Commands : Effective(d)' => Effective(d)
  BY <1>6 DEF Emit
<1>7. ASSUME NEW c \in Commands, Commit(c), event[c] = None
      PROVE  UNCHANGED <<tasks, events>> /\ \A d \in Commands : Effective(d)' => Effective(d)
  BY <1>7 DEF Commit
<1>8. ASSUME NEW c \in Commands, Fail(c)
      PROVE  UNCHANGED <<tasks, events>> /\ \A d \in Commands : Effective(d)' => Effective(d)
  BY <1>8 DEF Fail, Rollback
<1>9. CASE Tick BY <1>9 DEF Tick
<1> QED BY <1>1, <1>2, <1>3, <1>4, <1>5, <1>6, <1>7, <1>8, <1>9 DEF Next, Advance

(* A commit that writes: the stored task is the one it has read.           *)
LEMMA CommitReplacesWhatItRead ==
  ASSUME InductiveInvariant, NEW c \in Commands, Commit(c), event[c] # None
  PROVE  /\ target[c] \in Ids /\ target[c] # None
         /\ tasks[target[c]] = read[c]
         /\ tasks' = [tasks EXCEPT ![target[c]] = next[c]]
         /\ events' = Append(events, event[c])
         /\ event[c] \in Event /\ event[c].taskId = target[c]
         /\ stage[c] = "commit" /\ stage' = [stage EXCEPT ![c] = "done"]
         /\ UNCHANGED <<now, input, target, read, next, event, answer>>
  BY DEF InductiveInvariant, TypeOK, Commit, GoTo, txnVars, WritersAreAlone, Writing,
     NothingBeforeDeciding, NothingFromTheFuture

(* What a command that has taken effect is about stays as it is.           *)
InputAndTargetStay ==
  \A d \in Commands : Effective(d)' => input'[d] = input[d] /\ target'[d] = target[d]

(* A command that has taken effect keeps its input and its task.           *)
LEMMA EffectiveStay ==
  ASSUME InductiveInvariant, [Next]_vars
  PROVE  InputAndTargetStay
<1> USE DEF InductiveInvariant, TypeOK, GoTo, txnVars, Effective, InputAndTargetStay
<1>1. CASE UNCHANGED vars BY <1>1 DEF vars
<1>2. ASSUME NEW c \in Commands, NEW i \in Inputs, Call(c, i)
      PROVE  InputAndTargetStay
  BY <1>2 DEF Call
<1>3. ASSUME NEW c \in Commands, DecideCreate(c) \/ DecideChange(c) \/ DecideDelete(c)
      PROVE  InputAndTargetStay
  <2>1. CASE \E e \in Errors \cup {"ok"} : Refuse(c, e) BY <2>1 DEF Refuse
  <2>2. CASE \E i, old, task : Propose(c, i, old, task) BY <2>2 DEF Propose
  <2> QED BY <1>3, <2>1, <2>2 DEF DecideCreate, DecideChange, DecideDelete, Errors
<1>4. ASSUME NEW c \in Commands, Write(c) PROVE InputAndTargetStay
  BY <1>4 DEF Write
<1>5. ASSUME NEW c \in Commands, WriteConflict(c)
      PROVE  InputAndTargetStay
  BY <1>5 DEF WriteConflict, Rollback
<1>6. ASSUME NEW c \in Commands, Emit(c) PROVE InputAndTargetStay
  BY <1>6 DEF Emit
<1>7. ASSUME NEW c \in Commands, Commit(c) PROVE InputAndTargetStay
  BY <1>7 DEF Commit
<1>8. ASSUME NEW c \in Commands, Fail(c) PROVE InputAndTargetStay
  BY <1>8 DEF Fail, Rollback
<1>9. CASE Tick BY <1>9 DEF Tick
<1> QED BY <1>1, <1>2, <1>3, <1>4, <1>5, <1>6, <1>7, <1>8, <1>9 DEF Next, Advance

LEMMA NoLostUpdateKept ==
  ASSUME InductiveInvariant, NoLostUpdate, [Next]_vars
  PROVE  NoLostUpdate'
<1>1. CASE /\ UNCHANGED <<tasks, events>>
           /\ \A d \in Commands : Effective(d)' => Effective(d)
  <2>1. \A d \in Commands : Effective(d)' => input'[d] = input[d] /\ target'[d] = target[d]
    BY EffectiveStay DEF InputAndTargetStay
  <2> QED BY <1>1, <2>1 DEF NoLostUpdate
<1>2. ASSUME NEW c \in Commands, Commit(c), event[c] # None PROVE NoLostUpdate'
  <2> USE <1>2, CommitReplacesWhatItRead
  <2>1. \A d \in Commands \ {c} : Effective(d)' => Effective(d)
    BY DEF Effective, InductiveInvariant, TypeOK
  <2>2. ASSUME NEW d \in Commands \ {c}, Effective(d), target[d] = target[c]
        PROVE  IF input[c].kind = "create" THEN input[d].kind # "create"
               ELSE input[d].kind # "create" => input[c].expectedVersion # input[d].expectedVersion
    <3>1. stage[d] = "done" /\ event[d] # None BY <2>2 DEF Effective
    <3>2. PICK n \in 1..Len(events) : events[n].taskId = target[c]
      BY <2>2, <3>1 DEF InductiveInvariant, VersionsMove
    <3>3. read[c] # None BY <3>2 DEF InductiveInvariant, NewIdsAreNew
    <3>4. input[c].kind # "create" /\ read[c].version = input[c].expectedVersion
      BY <3>3 DEF InductiveInvariant, ProposalsFit
    <3>5. ASSUME input[d].kind # "create" PROVE input[c].expectedVersion # input[d].expectedVersion
      <4>1. read[d] # None /\ read[d].version = input[d].expectedVersion
        BY <2>2, <3>5 DEF InductiveInvariant, ProposalsFit
      <4>2. read[c].version > input[d].expectedVersion
        BY <2>2, <3>1, <3>3, <4>1 DEF InductiveInvariant, VersionsMove
      <4>3. read[c].version \in Nat /\ read[d].version \in Nat
        BY <3>3, <4>1 DEF InductiveInvariant, TypeOK, Task
      <4> QED BY <3>4, <4>1, <4>2, <4>3
    <3> QED BY <3>4, <3>5
  <2>3. ASSUME NEW d \in Commands, NEW e \in Commands, d # e, Effective(d)', Effective(e)',
               target[d] = target[e]
        PROVE  IF input[d].kind = "create" THEN input[e].kind # "create"
               ELSE input[e].kind # "create" => input[d].expectedVersion # input[e].expectedVersion
    <3>1. CASE d = c BY <2>1, <2>2, <2>3, <3>1
    <3>2. CASE e = c BY <2>1, <2>2, <2>3, <3>2
    <3>3. CASE d # c /\ e # c BY <2>1, <2>3, <3>3 DEF NoLostUpdate
    <3> QED BY <3>1, <3>2, <3>3
  <2> QED BY <2>3 DEF NoLostUpdate
<1> QED BY <1>1, <1>2, OnlyCommitsWrite

(* Of the commands that saw one version of a task, at most one takes       *)
(* effect, for any number of commands, tasks and tenants.                  *)
THEOREM NoUpdateIsLost == Spec => []NoLostUpdate
<1>1. Init => NoLostUpdate BY DEF Init, NoLostUpdate, Effective
<1> QED BY <1>1, InvariantHolds, NoLostUpdateKept, PTL DEF Spec

LEMMA OneTaskInOrderKept ==
  ASSUME InductiveInvariant, OneTaskInOrder, [Next]_vars
  PROVE  OneTaskInOrder'
<1>1. CASE UNCHANGED <<tasks, events>> BY <1>1 DEF OneTaskInOrder
<1>2. ASSUME NEW c \in Commands, Commit(c), event[c] # None PROVE OneTaskInOrder'
  <2> DEFINE L == Len(events)
  <2>1. /\ L \in Nat /\ Len(events') = L + 1 /\ events'[L + 1] = event[c]
        /\ \A n \in 1..L : events'[n] = events[n]
        /\ \A n \in 1..Len(events') : n \in 1..L \/ n = L + 1
    BY <1>2, CommitReplacesWhatItRead, AppendedEvent DEF InductiveInvariant, TypeOK
  <2> HIDE DEF L
  <2> SUFFICES ASSUME NEW m \in 1..Len(events'), NEW n \in 1..Len(events'), m < n,
                      events'[m].taskId = events'[n].taskId
               PROVE  events'[m].occurredAt <= events'[n].occurredAt
    BY DEF OneTaskInOrder
  <2>2. m \in 1..L BY <2>1
  <2>3. CASE n \in 1..L BY <2>1, <2>2, <2>3 DEF OneTaskInOrder, L
  <2>4. CASE n = L + 1
    BY <1>2, <2>1, <2>2, <2>4, CommitReplacesWhatItRead
       DEF InductiveInvariant, NothingFromTheFuture, L
  <2> QED BY <2>1, <2>3, <2>4
<1> QED BY <1>1, <1>2, OnlyCommitsWrite

(* The events of one task are committed in the order of occurredAt.        *)
THEOREM EventsOfATaskInOrder == Spec => []OneTaskInOrder
<1>1. Init => OneTaskInOrder BY DEF Init, OneTaskInOrder
<1> QED BY <1>1, InvariantHolds, OneTaskInOrderKept, PTL DEF Spec

(* The history of a task changes by the events about it. *)
LEMMA HistoryGrows ==
  ASSUME events \in Seq(Event), NEW e \in Event, events' = Append(events, e), NEW i
  PROVE  /\ HistoryOf(i) \subseteq 1..Len(events) /\ Len(events) \in Nat
         /\ \A n \in 1..Len(events) : events'[n] = events[n]
         /\ events'[Len(events) + 1] = e
         /\ HistoryOf(i)' = IF e.taskId = i THEN HistoryOf(i) \cup {Len(events) + 1}
                                            ELSE HistoryOf(i)
<1>1. HistoryOf(i)' = {n \in 1..Len(events') : events'[n].taskId = i}
  BY DEF HistoryOf
<1>2. HistoryOf(i) = {n \in 1..Len(events) : events[n].taskId = i}
  BY DEF HistoryOf
<1>3. /\ Len(events) \in Nat /\ Len(events') = Len(events) + 1
      /\ events'[Len(events) + 1] = e
      /\ \A n \in 1..Len(events) : n \in 1..Len(events') /\ events'[n] = events[n]
      /\ \A n \in 1..Len(events') : n \in 1..Len(events) \/ n = Len(events) + 1
  BY AppendedEvent
<1>4. Len(events) + 1 \in 1..Len(events')
  BY <1>3
<1>5. \A n : n \in HistoryOf(i)' <=>
        n \in HistoryOf(i) \/ (n = Len(events) + 1 /\ e.taskId = i)
  BY <1>1, <1>2, <1>3, <1>4
<1> QED BY <1>2, <1>3, <1>5

LEMMA EventsTellKept ==
  ASSUME InductiveInvariant, EventsTellTheTasks, [Next]_vars
  PROVE  EventsTellTheTasks'
<1>1. CASE UNCHANGED <<tasks, events>>
  BY <1>1 DEF EventsTellTheTasks, HistoryOf, First, Last, Follows
<1>2. ASSUME NEW c \in Commands, Commit(c), event[c] # None PROVE EventsTellTheTasks'
  <2>1. events \in Seq(Event) /\ tasks \in [Ids -> Task \cup {None}] /\ ProposalsFit
    BY DEF InductiveInvariant, TypeOK
  <2>2. PICK i \in Ids, e \in Event, p \in Nat :
          i = target[c] /\ e = event[c] /\ p = Len(events) + 1
    BY <1>2, <2>1, CommitReplacesWhatItRead
  <2>3. PICK old \in Task \cup {None}, new \in Task \cup {None} :
          old = read[c] /\ new = next[c]
    BY DEF InductiveInvariant, TypeOK
  <2>4. /\ i # None /\ tasks[i] = old /\ e.taskId = i
        /\ tasks' = [tasks EXCEPT ![i] = new] /\ events' = Append(events, e)
    BY <1>2, <2>2, <2>3, CommitReplacesWhatItRead
  <2>5. ASSUME NEW j \in Ids, j # i
        PROVE  tasks'[j] = tasks[j] /\ HistoryOf(j)' = HistoryOf(j)
    BY <2>1, <2>4, <2>5, HistoryGrows
  <2>6. /\ tasks'[i] = new /\ HistoryOf(i)' = HistoryOf(i) \cup {p}
        /\ events'[p] = e
    BY <2>1, <2>2, <2>4, HistoryGrows
  <2>7. \A j : \A n \in HistoryOf(j) : n \in Nat /\ n < p /\ events'[n] = events[n]
    BY <2>1, <2>2, <2>4, HistoryGrows
  (* What the event says of the change. *)
  <2>8. ASSUME old = None
        PROVE  /\ e.type = "TaskCreatedV1" /\ new # None
               /\ new.tenant = e.tenant /\ new.status = "Todo" /\ new.version = 1
    <3>1. /\ e.type = "TaskCreatedV1" /\ e.tenant = input[c].tenant /\ next[c] # None
          /\ next[c] = [tenant |-> input[c].tenant, status |-> "Todo", version |-> 1,
                        createdAt |-> next[c].createdAt,
                        updatedAt |-> next[c].createdAt, completedAt |-> None]
      BY <1>2, <2>1, <2>2, <2>3, <2>4, <2>8 DEF ProposalsFit
    <3> DEFINE created == next[c].createdAt
    <3>2. new = [tenant |-> e.tenant, status |-> "Todo", version |-> 1,
                 createdAt |-> created, updatedAt |-> created, completedAt |-> None]
      BY <2>3, <3>1
    <3> HIDE DEF created
    <3> QED BY <2>3, <3>1, <3>2
  <2>9. ASSUME old # None
        PROVE  /\ old.tenant = e.tenant
               /\ new = None => e.type = "TaskDeletedV1"
               /\ new # None =>
                    /\ e.type = "TaskStatusChangedV1" /\ new.tenant = e.tenant
                    /\ e.previousStatus = old.status
                    /\ e.status = new.status /\ e.version = new.version
                    /\ e.version = old.version + 1
                    /\ e.status \in allowedTransitions[old.status]
    BY <1>2, <2>1, <2>2, <2>3, <2>4, <2>9 DEF ProposalsFit
  <2>10. Leaves(e, new)
    BY <2>8, <2>9 DEF Leaves, StatusAfter, VersionAfter
  (* What the events before it say of what was stored. *)
  <2>11. old = None => HistoryOf(i) = {}
    <3>1. stage[c] = "commit"
      BY <1>2, CommitReplacesWhatItRead
    <3>2. old = None => \A n \in 1..Len(events) : events[n].taskId # i
      BY <2>2, <2>3, <2>4, <3>1 DEF InductiveInvariant, NewIdsAreNew
    <3> QED BY <3>2 DEF HistoryOf
  <2>12. old # None => HistoryOf(i) # {}
    BY <2>4 DEF EventsTellTheTasks
  <2>13. ASSUME NEW n \in HistoryOf(i), Last(i, n) PROVE Leaves(events[n], old)
    BY <2>4, <2>13 DEF EventsTellTheTasks
  <2>14. ASSUME NEW n \in HistoryOf(i) PROVE events[n].type # "TaskDeletedV1"
    BY <2>11, <2>13, <2>14 DEF EventsTellTheTasks, Leaves
  <2>15. ASSUME NEW n \in HistoryOf(i)
         PROVE  /\ First(i, n)' <=> events[n].type = "TaskCreatedV1"
                /\ ~Last(i, n)'
                /\ \A m \in HistoryOf(i)' :
                     events[n].type = "TaskStatusChangedV1" /\ Follows(i, n, m)' =>
                       Continues(events[n], events'[m])
    <3>1. First(i, n)' <=> First(i, n)
      BY <2>6, <2>7 DEF First
    <3>2. ~Last(i, n)'
      BY <2>6, <2>7 DEF Last
    <3>3. \A m \in HistoryOf(i)' : Follows(i, n, m)' => m \in HistoryOf(i) /\ Follows(i, n, m)
      BY <2>2, <2>6, <2>7 DEF Follows
    <3> QED BY <2>7, <3>1, <3>2, <3>3 DEF EventsTellTheTasks
  <2>16. /\ First(i, p)' <=> e.type = "TaskCreatedV1"
         /\ Last(i, p)'
         /\ \A m \in HistoryOf(i)' :
              e.type = "TaskStatusChangedV1" /\ Follows(i, p, m)' => Continues(e, events'[m])
    <3>1. First(i, p)' <=> HistoryOf(i) = {}
      BY <2>2, <2>6, <2>7 DEF First
    <3>2. Last(i, p)'
      BY <2>2, <2>6, <2>7 DEF Last
    <3>3. ASSUME NEW m \in HistoryOf(i)', Follows(i, p, m)'
          PROVE  m \in HistoryOf(i) /\ Last(i, m)
      BY <2>2, <2>6, <2>7, <3>3 DEF Follows, Last
    <3>4. ASSUME NEW m \in HistoryOf(i)', Follows(i, p, m)', e.type = "TaskStatusChangedV1"
          PROVE  Continues(e, events'[m])
      <4>1. Leaves(events[m], old) /\ events'[m] = events[m] /\ old # None /\ new # None
        BY <2>7, <2>8, <2>9, <2>11, <2>13, <3>3, <3>4
      <4> QED BY <2>9, <4>1 DEF Leaves, Continues
    <3> QED BY <2>8, <2>9, <2>11, <2>12, <3>1, <3>2, <3>4
  <2>17. ASSUME NEW j \in Ids
         PROVE  /\ HistoryOf(j)' = {} => tasks'[j] = None
                /\ \A n \in HistoryOf(j)' :
                     /\ First(j, n)' <=> events'[n].type = "TaskCreatedV1"
                     /\ events'[n].type = "TaskDeletedV1" => Last(j, n)'
                     /\ Last(j, n)' => Leaves(events'[n], tasks'[j])
                     /\ \A m \in HistoryOf(j)' :
                          events'[n].type = "TaskStatusChangedV1" /\ Follows(j, n, m)' =>
                            Continues(events'[n], events'[m])
    <3>1. CASE j = i
      BY <2>6, <2>7, <2>10, <2>14, <2>15, <2>16, <3>1
    <3>2. CASE j # i
      <4>1. \A n, m : /\ First(j, n)' <=> First(j, n)
                      /\ Last(j, n)' <=> Last(j, n)
                      /\ Follows(j, n, m)' <=> Follows(j, n, m)
        BY <2>5, <3>2 DEF First, Last, Follows
      <4> QED BY <2>5, <2>7, <3>2, <4>1 DEF EventsTellTheTasks
    <3> QED BY <3>1, <3>2
  <2> QED BY <2>17 DEF EventsTellTheTasks
<1> QED BY <1>1, <1>2, OnlyCommitsWrite

(* The events alone tell the whole life of every task, with any number of  *)
(* concurrent commands, conflicts, retries and aborts.                     *)
THEOREM EventsTellEveryTask == Spec => []EventsTellTheTasks
<1>1. Init => EventsTellTheTasks BY DEF Init, EventsTellTheTasks, HistoryOf
<1> QED BY <1>1, InvariantHolds, EventsTellKept, PTL DEF Spec

(* Only a commit of the owner's tenant changes or removes a task.          *)
THEOREM TenantsStayApart == Spec => TenantsAreApart
<1> DEFINE Apart == \A i \in Ids : tasks[i] # None /\ tasks'[i] # tasks[i] =>
              \E c \in Commands : /\ stage[c] = "commit" /\ stage'[c] = "done"
                                  /\ target[c] = i /\ input[c].tenant = tasks[i].tenant
<1>1. ASSUME InductiveInvariant, [Next]_vars PROVE Apart
  <2>1. CASE UNCHANGED <<tasks, events>> BY <2>1
  <2>2. ASSUME NEW c \in Commands, Commit(c), event[c] # None PROVE Apart
    <3> SUFFICES ASSUME NEW i \in Ids, tasks[i] # None, tasks'[i] # tasks[i]
                 PROVE  /\ stage[c] = "commit" /\ stage'[c] = "done"
                        /\ target[c] = i /\ input[c].tenant = tasks[i].tenant
      OBVIOUS
    <3>1. target[c] = i /\ read[c] = tasks[i] /\ stage[c] = "commit" /\ stage'[c] = "done"
      BY <1>1, <2>2, CommitReplacesWhatItRead DEF InductiveInvariant, TypeOK
    <3>2. read[c].tenant = input[c].tenant
      BY <1>1, <2>2, <3>1, CommitReplacesWhatItRead DEF InductiveInvariant, ProposalsFit
    <3> QED BY <3>1, <3>2
  <2> QED BY <1>1, <2>1, <2>2, OnlyCommitsWrite
<1>2. InductiveInvariant /\ [Next]_vars => [Apart]_vars BY <1>1
<1> QED BY <1>2, InvariantHolds, PTL DEF Spec, TenantsAreApart

-----------------------------------------------------------------------------
(* The ledger *)

LEMMA InitLedger == Init => Ledger!Init
<1> SUFFICES ASSUME Init PROVE Ledger!Init OBVIOUS
<1>1. Len(events) = 0 BY DEF Init
<1>2. [n \in 1..Len(events) |-> LedgerEntry(events[n])] = <<>> BY <1>1
<1>3. \A i \in Ids : LedgerTask(tasks[i]) = None BY DEF Init, LedgerTask
<1> QED BY <1>2, <1>3 DEF Ledger!Init

(* A committed event is one more entry of the log. *)
LEMMA AppendedEntry ==
  ASSUME events \in Seq(Event), NEW e \in Event, events' = Append(events, e)
  PROVE  [n \in 1..Len(events') |-> LedgerEntry(events'[n])]
           = Append([n \in 1..Len(events) |-> LedgerEntry(events[n])], LedgerEntry(e))
<1> DEFINE log == [n \in 1..Len(events) |-> LedgerEntry(events[n])]
           log2 == [n \in 1..Len(events') |-> LedgerEntry(events'[n])]
           Entries == {LedgerEntry(x) : x \in Event}
<1>1. /\ Len(events) \in Nat /\ Len(events') = Len(events) + 1
      /\ events'[Len(events) + 1] = e
      /\ \A n \in 1..Len(events) : events'[n] = events[n]
  BY AppendedEvent
<1>2. \A n \in 1..Len(events) : events[n] \in Event OBVIOUS
<1>3. log \in Seq(Entries) /\ Len(log) = Len(events)
  <2>1. \A n \in 1..Len(events) : LedgerEntry(events[n]) \in Entries BY <1>2
  <2>2. log \in [1..Len(events) -> Entries] BY <2>1
  <2> HIDE DEF log, Entries
  <2> QED BY <1>1, <2>2
<1>4. LedgerEntry(e) \in Entries OBVIOUS
<1>5. \A n \in 1..Len(events) : log[n] = LedgerEntry(events[n]) OBVIOUS
<1>6. \A n \in 1..(Len(events) + 1) : log2[n] = LedgerEntry(events'[n]) BY <1>1
<1>7. DOMAIN log2 = 1..(Len(events) + 1) BY <1>1
<1>10. log2 = [n \in 1..(Len(events) + 1) |-> LedgerEntry(events'[n])] BY <1>1
<1> DEFINE app == Append(log, LedgerEntry(e))
<1> HIDE DEF log, Entries, log2
<1>8. /\ DOMAIN app = 1..(Len(events) + 1)
      /\ app[Len(events) + 1] = LedgerEntry(e)
      /\ \A n \in 1..Len(events) : app[n] = log[n]
      /\ app \in Seq(Entries) /\ Len(app) = Len(events) + 1
  BY <1>1, <1>3, <1>4
<1>9. \A n \in 1..(Len(events) + 1) : app[n] = LedgerEntry(events'[n])
  <2> SUFFICES ASSUME NEW n \in 1..(Len(events) + 1) PROVE app[n] = LedgerEntry(events'[n])
    OBVIOUS
  <2>1. n \in 1..Len(events) \/ n = Len(events) + 1 BY <1>1
  <2> HIDE DEF app
  <2> QED BY <1>1, <1>5, <1>8, <2>1
<1>11. app = [n \in 1..(Len(events) + 1) |-> app[n]]
  <2>1. app \in [1..(Len(events) + 1) -> Entries] BY <1>8, LenProperties
  <2> QED BY <2>1
<1> HIDE DEF app
<1>12. app = log2 BY <1>9, <1>10, <1>11
<1> QED BY <1>12 DEF app, log, log2

(* A commit that writes is a step of the ledger. *)
LEMMA CommitIsLedgerStep ==
  ASSUME InductiveInvariant, NEW c \in Commands, Commit(c), event[c] # None
  PROVE  Ledger!Next
<1> DEFINE i == target[c]
           lt == [j \in Ids |-> LedgerTask(tasks[j])]
           lt2 == [j \in Ids |-> LedgerTask(tasks'[j])]
           log == [n \in 1..Len(events) |-> LedgerEntry(events[n])]
           log2 == [n \in 1..Len(events') |-> LedgerEntry(events'[n])]
<1>1. /\ i \in Ids /\ i # None /\ tasks[i] = read[c]
      /\ tasks' = [tasks EXCEPT ![i] = next[c]]
      /\ events' = Append(events, event[c]) /\ event[c] \in Event /\ event[c].taskId = i
      /\ stage[c] = "commit"
  BY CommitReplacesWhatItRead
<1>2. events \in Seq(Event) /\ tasks \in [Ids -> Task \cup {None}]
  BY DEF InductiveInvariant, TypeOK
<1>3. read[c] \in Task \cup {None} /\ next[c] \in Task \cup {None}
  BY DEF InductiveInvariant, TypeOK
<1>4. log2 = Append(log, LedgerEntry(event[c])) BY <1>1, <1>2, AppendedEntry
<1>5. LedgerEntry(event[c]) = <<event[c].type, i>> BY <1>1 DEF LedgerEntry
<1>6. lt2 = [lt EXCEPT ![i] = LedgerTask(next[c])] BY <1>1, <1>2
<1>7. lt[i] = LedgerTask(read[c]) BY <1>1
<1>8. \A t \in Task : LedgerTask(t) # None /\ LedgerTask(t) =
              [tenant |-> t.tenant, status |-> t.status, version |-> t.version]
  <2> SUFFICES ASSUME NEW t \in Task
               PROVE LedgerTask(t) # None /\ LedgerTask(t) =
                       [tenant |-> t.tenant, status |-> t.status, version |-> t.version]
    OBVIOUS
  <2>1. t # None /\ t.tenant \in Tenants /\ t.status \in Statuses /\ t.version \in Nat
    BY TasksAssumption DEF Task
  <2>2. LedgerTask(t) = [tenant |-> t.tenant, status |-> t.status, version |-> t.version]
    BY <2>1 DEF LedgerTask
  <2>3. LedgerTask(t) \in [tenant : Tenants, status : Statuses, version : Nat] BY <2>1, <2>2
  <2> QED BY <2>2, <2>3, TasksAssumption
<1>9. input[c] \in Inputs /\ input[c].tenant \in Tenants
  BY <1>1, TasksAssumption DEF InductiveInvariant, NothingBeforeDeciding, TypeOK, AllInputs
<1>10. CASE read[c] = None
  <2>1. \A n \in 1..Len(events) : events[n].taskId # i
    BY <1>1, <1>10 DEF InductiveInvariant, NewIdsAreNew
  <2>2. Len(log) = Len(events) /\ \A n \in 1..Len(events) : log[n] = LedgerEntry(events[n])
    BY <1>2
  <2>3. \A n \in 1..Len(log) : log[n][2] # i BY <2>1, <2>2 DEF LedgerEntry
  <2>4. /\ event[c].type = "TaskCreatedV1"
        /\ next[c] # None /\ next[c].tenant = input[c].tenant
        /\ next[c].status = "Todo" /\ next[c].version = 1
    <3>1. ProposalsFit /\ target[c] # None BY <1>1 DEF InductiveInvariant
    <3>2. event[c].type = "TaskCreatedV1" /\ next[c] # None BY <1>10, <3>1 DEF ProposalsFit
    <3>3. next[c] = [tenant |-> input[c].tenant, status |-> "Todo", version |-> 1,
                     createdAt |-> next[c].createdAt,
                     updatedAt |-> next[c].createdAt, completedAt |-> None]
      BY <1>10, <3>1 DEF ProposalsFit
    <3> DEFINE created == next[c].createdAt
    <3>4. next[c] = [tenant |-> input[c].tenant, status |-> "Todo", version |-> 1,
                     createdAt |-> created, updatedAt |-> created, completedAt |-> None]
      BY <3>3
    <3> HIDE DEF created
    <3> QED BY <3>2, <3>4
  <2>5. LedgerTask(next[c]) = [tenant |-> input[c].tenant, status |-> "Todo", version |-> 1]
    BY <1>3, <1>8, <2>4
  <2>6. lt[i] = None BY <1>7, <1>10 DEF LedgerTask
  <2> HIDE DEF i, lt, lt2, log, log2
  <2>7. Ledger!Create(i, input[c].tenant)
    BY <1>4, <1>5, <1>6, <2>3, <2>4, <2>5, <2>6 DEF Ledger!Create, Ledger!Announce, lt, lt2, log, log2
  <2>8. i \in Ids BY <1>1 DEF i
  <2> QED BY <1>9, <2>7, <2>8 DEF Ledger!Next
<1>11. CASE read[c] # None
  <2>1. /\ lt[i] # None /\ lt[i] = [tenant |-> read[c].tenant, status |-> read[c].status,
                                   version |-> read[c].version]
        /\ read[c] \in Task
    BY <1>3, <1>7, <1>8, <1>11
  <2>2. i \in Ids BY <1>1
  <2>3. CASE next[c] = None
    <3>1. event[c].type = "TaskDeletedV1"
      BY <1>1, <1>11, <2>3 DEF InductiveInvariant, ProposalsFit
    <3>2. LedgerTask(next[c]) = None BY <2>3 DEF LedgerTask
    <3> HIDE DEF i, lt, lt2, log, log2
    <3>3. Ledger!Delete(i)
      BY <1>4, <1>5, <1>6, <2>1, <3>1, <3>2 DEF Ledger!Delete, Ledger!Announce, lt, lt2, log, log2
    <3> QED BY <2>2, <3>3 DEF Ledger!Next
  <2>4. CASE next[c] # None
    <3>1. /\ event[c].type = "TaskStatusChangedV1"
          /\ next[c].tenant = read[c].tenant /\ next[c].version = read[c].version + 1
          /\ next[c].status \in allowedTransitions[read[c].status]
      BY <1>1, <1>11, <2>4 DEF InductiveInvariant, ProposalsFit
    <3>2. read[c].status \in Statuses BY <2>1 DEF Task
    <3>3. /\ next[c].status \in Statuses /\ next[c].status # read[c].status
          /\ read[c].status = "Completed" => next[c].status = "Todo"
      BY <3>1, <3>2 DEF allowedTransitions, Statuses
    <3>4. LedgerTask(next[c]) = [tenant |-> lt[i].tenant, status |-> next[c].status,
                                 version |-> lt[i].version + 1]
      BY <1>3, <1>8, <2>1, <2>4, <3>1
    <3>5. lt[i].status = read[c].status BY <2>1
    <3> HIDE DEF i, lt, lt2, log, log2
    <3>6. Ledger!Change(i, next[c].status)
      BY <1>4, <1>5, <1>6, <2>1, <3>1, <3>3, <3>4, <3>5
         DEF Ledger!Change, Ledger!Announce, lt, lt2, log, log2
    <3> QED BY <2>2, <3>3, <3>6 DEF Ledger!Next, Statuses
  <2> QED BY <2>3, <2>4
<1> QED BY <1>10, <1>11

LEMMA NextLedger == InductiveInvariant /\ [Next]_vars => [Ledger!Next]_(Ledger!vars)
<1> SUFFICES ASSUME InductiveInvariant, [Next]_vars PROVE Ledger!Next \/ UNCHANGED Ledger!vars
  OBVIOUS
<1>1. CASE UNCHANGED <<tasks, events>> BY <1>1 DEF Ledger!vars
<1>2. ASSUME NEW c \in Commands, Commit(c), event[c] # None PROVE Ledger!Next
  BY <1>2, CommitIsLedgerStep
<1> QED BY <1>1, <1>2, OnlyCommitsWrite

(* The concurrent snapshot transactions implement the sequential ledger.   *)
THEOREM TasksImplementLedger == Spec => ImplementsLedger
<1> QED BY InitLedger, NextLedger, InvariantHolds, PTL DEF Spec, ImplementsLedger, Ledger!Spec

-----------------------------------------------------------------------------
(* Numbers *)

(* Every set of numbers has a least one. *)
LEMMA Least ==
  ASSUME NEW T \in SUBSET Nat, T # {}
  PROVE  \E n \in T : \A m \in T : n <= m
<1> DEFINE R == OpToRel(<, Nat)
<1>1. IsWellFoundedOn(R, Nat) BY NatLessThanWellFounded
<1>2. \A m, n \in Nat : m < n => <<m, n>> \in R BY DEF OpToRel
<1> HIDE DEF R
<1>3. PICK n \in T : \A m \in T : <<m, n>> \notin R BY <1>1, WFMin
<1>4. \A m \in T : m \in Nat /\ n \in Nat /\ ~(m < n) BY <1>2, <1>3
<1>5. \A m \in T : n <= m BY <1>4
<1> QED BY <1>5

(* Induction, in the form the provers can use: over a set of numbers. *)
LEMMA InductionOverNat ==
  ASSUME NEW T \in SUBSET Nat, 0 \in T, \A n \in T : n + 1 \in T
  PROVE  T = Nat
<1>1. SUFFICES ASSUME Nat \ T # {} PROVE FALSE OBVIOUS
<1>2. PICK n \in Nat \ T : \A m \in Nat \ T : n <= m BY <1>1, Least
<1>3. n # 0 /\ n - 1 \in Nat BY <1>2
<1>4. n - 1 \in T BY <1>2, <1>3
<1>5. (n - 1) + 1 \in T BY <1>4
<1> QED BY <1>2, <1>3, <1>5

(* A function on the numbers, given its start and its step. *)
LEMMA Iteration ==
  ASSUME NEW S, NEW start \in S, NEW step \in [S -> S]
  PROVE  \E f \in [Nat -> S] : f[0] = start /\ \A n \in Nat : f[n + 1] = step[f[n]]
<1> DEFINE Upto(n) == {g \in [0..n -> S] :
                         g[0] = start /\ \A k \in 0..n : k < n => g[k + 1] = step[g[k]]}
<1>1. \A n \in Nat : Upto(n) # {}
  <2> DEFINE T == {n \in Nat : Upto(n) # {}}
  <2>1. 0 \in T
    <3>1. [k \in 0..0 |-> start] \in Upto(0) OBVIOUS
    <3> QED BY <3>1
  <2>2. ASSUME NEW n \in T PROVE n + 1 \in T
    <3>1. PICK g \in Upto(n) : TRUE OBVIOUS
    <3> DEFINE h == [k \in 0..(n + 1) |-> IF k = n + 1 THEN step[g[n]] ELSE g[k]]
    <3>2. n \in Nat /\ g \in [0..n -> S] /\ g[0] = start
          /\ \A k \in 0..n : k < n => g[k + 1] = step[g[k]]
      BY <3>1
    <3>3. g[n] \in S BY <3>2
    <3>4. h \in [0..(n + 1) -> S] /\ h[0] = start
      <4>1. \A k \in 0..(n + 1) : k = n + 1 \/ k \in 0..n BY <3>2
      <4>2. \A k \in 0..(n + 1) : h[k] \in S BY <3>2, <3>3, <4>1
      <4>3. 0 \in 0..(n + 1) /\ 0 # n + 1 BY <3>2
      <4> QED BY <3>2, <4>2, <4>3
    <3>5. ASSUME NEW k \in 0..(n + 1), k < n + 1 PROVE h[k + 1] = step[h[k]]
      <4>1. k \in 0..n /\ k + 1 \in 0..(n + 1) BY <3>2, <3>5
      <4>2. h[k] = g[k] BY <3>2, <3>5
      <4>3. CASE k = n BY <4>1, <4>2, <4>3
      <4>4. CASE k < n
        <5>1. h[k + 1] = g[k + 1] BY <3>2, <4>1, <4>4
        <5> QED BY <3>2, <4>1, <4>2, <4>4, <5>1
      <4> QED BY <3>2, <4>1, <4>3, <4>4
    <3> HIDE DEF h
    <3>6. h \in Upto(n + 1) BY <3>4, <3>5
    <3> QED BY <3>2, <3>6
  <2> HIDE DEF T
  <2>3. T = Nat BY <2>1, <2>2, InductionOverNat DEF T
  <2> QED BY <2>3 DEF T
<1>2. ASSUME NEW n \in Nat, NEW m \in Nat, NEW g \in Upto(n), NEW h \in Upto(m), n <= m
      PROVE  \A k \in 0..n : g[k] = h[k]
  <2> DEFINE T == {k \in Nat : k <= n => g[k] = h[k]}
  <2>1. 0 \in T OBVIOUS
  <2>2. ASSUME NEW k \in T PROVE k + 1 \in T
    <3>1. SUFFICES ASSUME k + 1 <= n PROVE g[k + 1] = h[k + 1] OBVIOUS
    <3>2. k \in 0..n /\ k < n /\ k \in 0..m /\ k < m BY <1>2, <3>1
    <3>3. g[k] = h[k] BY <3>2
    <3> QED BY <3>2, <3>3
  <2> HIDE DEF T
  <2>3. T = Nat BY <2>1, <2>2, InductionOverNat DEF T
  <2> QED BY <2>3 DEF T
<1> DEFINE one(n) == CHOOSE g : g \in Upto(n)
           f == [n \in Nat |-> one(n)[n]]
<1>3. \A n \in Nat : one(n) \in Upto(n)
  BY <1>1
<1> HIDE DEF one
<1>4. f \in [Nat -> S]
  <2>1. \A n \in Nat : one(n)[n] \in S BY <1>3
  <2> QED BY <2>1
<1>5. f[0] = start BY <1>3
<1>6. ASSUME NEW n \in Nat PROVE f[n + 1] = step[f[n]]
  <2>1. one(n) \in Upto(n) /\ one(n + 1) \in Upto(n + 1) BY <1>3
  <2> HIDE DEF Upto
  <2>2. one(n)[n] = one(n + 1)[n] BY <1>2, <2>1
  <2>3. one(n + 1)[n + 1] = step[one(n + 1)[n]]
    <3>1. n \in 0..(n + 1) /\ n < n + 1 OBVIOUS
    <3> QED BY <2>1, <3>1 DEF Upto
  <2> QED BY <2>2, <2>3
<1> QED BY <1>4, <1>5, <1>6

-----------------------------------------------------------------------------
(* The order of a list *)

(* A finite set that a relation orders has a first element. *)
LEMMA FirstOfOrdered ==
  ASSUME NEW S, IsFiniteSet(S), S # {}, NEW R,
         \A i, j, k \in S : <<i, j>> \in R /\ <<j, k>> \in R => <<i, k>> \in R,
         \A i \in S : <<i, i>> \notin R,
         \A i, j \in S : i = j \/ <<i, j>> \in R \/ <<j, i>> \in R
  PROVE  \E i \in S : \A j \in S : i = j \/ <<i, j>> \in R
<1> DEFINE Ahead(i) == {j \in S : <<j, i>> \in R}
           T == {Cardinality(Ahead(i)) : i \in S}
<1>1. \A i \in S : Ahead(i) \in SUBSET S OBVIOUS
<1>2. \A i \in S : IsFiniteSet(Ahead(i)) /\ Cardinality(Ahead(i)) \in Nat
  BY <1>1, FS_Subset, FS_CardinalityType
<1>3. PICK n \in T : \A m \in T : n <= m
  <2> HIDE DEF Ahead
  <2>1. T \in SUBSET Nat /\ T # {} BY <1>2
  <2> QED BY <2>1, Least
<1>4. PICK i \in S : n = Cardinality(Ahead(i)) OBVIOUS
<1>5. SUFFICES ASSUME NEW j \in S, <<j, i>> \in R PROVE FALSE OBVIOUS
<1>6. Ahead(j) \in SUBSET Ahead(i) /\ j \in Ahead(i) /\ j \notin Ahead(j) BY <1>5
<1>7. Cardinality(Ahead(j)) \in T /\ Cardinality(Ahead(i)) <= Cardinality(Ahead(j))
  <2>1. Cardinality(Ahead(j)) \in T OBVIOUS
  <2> HIDE DEF Ahead, T
  <2> QED BY <1>3, <1>4, <2>1
<1> HIDE DEF Ahead, T
<1>8. Cardinality(Ahead(j)) <= Cardinality(Ahead(i)) BY <1>2, <1>6, FS_Subset
<1>9. Cardinality(Ahead(i)) = Cardinality(Ahead(j)) BY <1>2, <1>7, <1>8
<1> QED BY <1>2, <1>6, <1>9, FS_Subset

Stored == {i \in Ids : tasks[i] # None}

(* A stored task has a position, which is a cursor. *)
LEMMA PositionFits ==
  ASSUME TypeOK, NEW i \in Stored
  PROVE  Position(i) \in Cursor /\ Position(i) # None /\ Position(i).id = i
<1>1. tasks[i] \in Task BY DEF TypeOK, Stored
<1>2. i \in Nat BY PagesAssumption DEF Stored
<1> QED BY <1>1, <1>2, PagesAssumption DEF Position, Cursor, Task

(* Newest first, the larger id first among those of one time: a strict     *)
(* total order.                                                            *)
LEMMA ListedInOrder ==
  ASSUME NEW p \in Cursor, NEW q \in Cursor, NEW r \in Cursor
  PROVE  /\ ~ListedBefore(p, p)
         /\ ListedBefore(p, q) /\ ListedBefore(q, r) => ListedBefore(p, r)
         /\ p = q \/ ListedBefore(p, q) \/ ListedBefore(q, p)
         /\ ~(ListedBefore(p, q) /\ ListedBefore(q, p))
<1>1. p.createdAt \in Nat /\ q.createdAt \in Nat /\ r.createdAt \in Nat
      /\ p.id \in Nat /\ q.id \in Nat /\ r.id \in Nat BY DEF Cursor
<1>2. p.createdAt = q.createdAt /\ p.id = q.id => p = q
  BY DEF Cursor
<1> QED BY <1>1, <1>2 DEF ListedBefore

(* The filter finds what is listed after the cursor. *)
LEMMA BeyondIsAfter ==
  ASSUME NEW p \in Cursor, NEW q \in Cursor
  PROVE  Beyond(p, q) <=> ListedBefore(p, q)
<1>1. p # None BY PagesAssumption
<1>2. p.createdAt \in Nat /\ q.createdAt \in Nat /\ p.id \in Nat /\ q.id \in Nat BY DEF Cursor
<1> QED BY <1>1, <1>2 DEF Beyond, ListedBefore

Before(i, j) == ListedBefore(Position(i), Position(j))

LEMMA TasksInOrder ==
  ASSUME TypeOK, NEW i \in Stored, NEW j \in Stored, NEW k \in Stored
  PROVE  /\ ~Before(i, i)
         /\ Before(i, j) /\ Before(j, k) => Before(i, k)
         /\ i = j \/ Before(i, j) \/ Before(j, i)
         /\ ~(Before(i, j) /\ Before(j, i))
<1>1. Position(i) \in Cursor /\ Position(j) \in Cursor /\ Position(k) \in Cursor BY PositionFits
<1>2. Position(i) = Position(j) => i = j BY PositionFits
<1> QED BY <1>1, <1>2, ListedInOrder DEF Before

(* Tasks that are stored have a first and a last one. *)
LEMMA FirstTask ==
  ASSUME TypeOK, NEW S \in SUBSET Stored, S # {}
  PROVE  \E i \in S : \A j \in S : i = j \/ Before(i, j)
<1> DEFINE R == {x \in S \X S : Before(x[1], x[2])}
<1>1. \A i, j \in S : <<i, j>> \in R <=> Before(i, j) OBVIOUS
<1>2. IsFiniteSet(S) BY PagesAssumption, FS_Subset DEF Stored
<1> HIDE DEF R
<1>3. /\ \A i, j, k \in S : <<i, j>> \in R /\ <<j, k>> \in R => <<i, k>> \in R
      /\ \A i \in S : <<i, i>> \notin R
      /\ \A i, j \in S : i = j \/ <<i, j>> \in R \/ <<j, i>> \in R
  BY <1>1, TasksInOrder
<1>4. \E i \in S : \A j \in S : i = j \/ <<i, j>> \in R BY <1>2, <1>3, FirstOfOrdered
<1> QED BY <1>1, <1>4

LEMMA LastTask ==
  ASSUME TypeOK, NEW S \in SUBSET Stored, S # {}
  PROVE  \E i \in S : \A j \in S : i = j \/ Before(j, i)
<1> DEFINE R == {x \in S \X S : Before(x[2], x[1])}
<1>1. \A i, j \in S : <<i, j>> \in R <=> Before(j, i) OBVIOUS
<1>2. IsFiniteSet(S) BY PagesAssumption, FS_Subset DEF Stored
<1> HIDE DEF R
<1>3. /\ \A i, j, k \in S : <<i, j>> \in R /\ <<j, k>> \in R => <<i, k>> \in R
      /\ \A i \in S : <<i, i>> \notin R
      /\ \A i, j \in S : i = j \/ <<i, j>> \in R \/ <<j, i>> \in R
  BY <1>1, TasksInOrder
<1>4. \E i \in S : \A j \in S : i = j \/ <<i, j>> \in R BY <1>2, <1>3, FirstOfOrdered
<1> QED BY <1>1, <1>4

(* The first n of some tasks come before the others, and are at least n if *)
(* there are others.                                                       *)
LEMMA FirstOfFits ==
  ASSUME TypeOK, NEW S \in SUBSET Stored, NEW n \in Nat
  PROVE  /\ FirstOf(S, n) \subseteq S /\ IsFiniteSet(FirstOf(S, n))
         /\ Cardinality(FirstOf(S, n)) \in Nat
         /\ \A i \in FirstOf(S, n), j \in S \ FirstOf(S, n) : Before(i, j)
         /\ FirstOf(S, n) # S => Cardinality(FirstOf(S, n)) >= n
<1> DEFINE Ahead(i) == {j \in S : Before(j, i)}
           F == FirstOf(S, n)
<1>1. IsFiniteSet(S) BY PagesAssumption, FS_Subset DEF Stored
<1>2. \A i \in S : Ahead(i) \in SUBSET S OBVIOUS
<1>3. \A i \in S : IsFiniteSet(Ahead(i)) /\ Cardinality(Ahead(i)) \in Nat
  BY <1>1, <1>2, FS_Subset, FS_CardinalityType
<1>4. F = {i \in S : Cardinality(Ahead(i)) < n} BY DEF FirstOf, Before
<1>5. F \in SUBSET S BY <1>4
<1>6. IsFiniteSet(F) /\ Cardinality(F) \in Nat BY <1>1, <1>5, FS_Subset, FS_CardinalityType
<1>7. ASSUME NEW i \in F, NEW j \in S \ F PROVE Before(i, j)
  <2>1. i \in Stored /\ j \in Stored /\ i # j BY <1>5
  <2>2. SUFFICES ASSUME Before(j, i) PROVE FALSE BY <2>1, TasksInOrder
  <2>3. Ahead(j) \in SUBSET Ahead(i)
    <3>1. \A k \in S : Before(k, j) => Before(k, i) BY <2>1, <2>2, TasksInOrder
    <3> QED BY <3>1
  <2>4. i \in S /\ j \in S BY <1>5
  <2> HIDE DEF Ahead, F
  <2>5. Cardinality(Ahead(j)) <= Cardinality(Ahead(i)) BY <1>3, <2>3, <2>4, FS_Subset
  <2>6. Cardinality(Ahead(i)) < n /\ ~(Cardinality(Ahead(j)) < n) BY <1>4, <1>7
  <2> QED BY <1>3, <2>4, <2>5, <2>6
<1>8. ASSUME F # S PROVE Cardinality(F) >= n
  <2>1. S \ F # {} /\ S \ F \in SUBSET Stored BY <1>5, <1>8
  <2>2. PICK i \in S \ F : \A j \in S \ F : i = j \/ Before(i, j) BY <2>1, FirstTask
  <2>3. Ahead(i) \in SUBSET F
    <3>1. SUFFICES ASSUME NEW j \in S, Before(j, i), j \notin F PROVE FALSE OBVIOUS
    <3>2. i = j \/ Before(i, j) BY <2>2, <3>1
    <3>3. i \in Stored /\ j \in Stored OBVIOUS
    <3> QED BY <3>1, <3>2, <3>3, TasksInOrder
  <2>4. i \in S /\ ~(Cardinality(Ahead(i)) < n) BY <1>4
  <2> HIDE DEF Ahead, F
  <2>5. Cardinality(Ahead(i)) <= Cardinality(F) BY <1>6, <2>3, FS_Subset
  <2> QED BY <1>3, <1>6, <2>4, <2>5
<1> QED BY <1>5, <1>6, <1>7, <1>8

-----------------------------------------------------------------------------
(* One page *)

(* One page and what is found beyond it are what was to be listed; the     *)
(* page comes first; only the last page can be empty.                      *)
LEMMA PageFits ==
  ASSUME TypeOK, NEW tenant, NEW status, NEW cursor \in Cursor \cup {None}, NEW limit \in Nat \ {0},
         NEW p, p = TaskList(tenant, status, cursor, limit)
  PROVE  /\ p = [tasks |-> p.tasks, nextCursor |-> p.nextCursor]
         /\ Found(tenant, status, cursor) \subseteq Stored
         /\ p.tasks \subseteq Found(tenant, status, cursor)
         /\ p.nextCursor = None => p.tasks = Found(tenant, status, cursor)
         /\ p.nextCursor # None =>
              /\ p.nextCursor \in Cursor
              /\ p.tasks # {}
              /\ Found(tenant, status, p.nextCursor) = Found(tenant, status, cursor) \ p.tasks
              /\ \A i \in p.tasks, j \in Found(tenant, status, p.nextCursor) : Before(i, j)
<1> DEFINE found == Found(tenant, status, cursor)
           read1 == FirstOf(found, limit + 1)
           selected == FirstOf(read1, limit)
           last == CHOOSE i \in selected : \A j \in selected : i = j \/ Before(j, i)
           nextCursor == IF Cardinality(read1) > limit THEN Position(last) ELSE None
<1>1. p = [tasks |-> selected, nextCursor |-> nextCursor] BY DEF TaskList, Before
<1>2. found \in SUBSET Stored BY DEF Found, Stored
<1>3. limit + 1 \in Nat /\ limit \in Nat OBVIOUS
<1> HIDE DEF found
<1>4. /\ read1 \in SUBSET found /\ IsFiniteSet(read1) /\ Cardinality(read1) \in Nat
      /\ \A i \in read1, j \in found \ read1 : Before(i, j)
      /\ read1 # found => Cardinality(read1) >= limit + 1
  BY <1>2, <1>3, FirstOfFits
<1> HIDE DEF read1
<1>5. read1 \in SUBSET Stored BY <1>2, <1>4
<1>6. /\ selected \in SUBSET read1 /\ IsFiniteSet(selected) /\ Cardinality(selected) \in Nat
      /\ \A i \in selected, j \in read1 \ selected : Before(i, j)
      /\ selected # read1 => Cardinality(selected) >= limit
  BY <1>3, <1>5, FirstOfFits
<1> HIDE DEF selected
<1>7. \A i \in selected, j \in found \ selected : Before(i, j) BY <1>4, <1>6
<1>8. CASE Cardinality(read1) <= limit
  <2>1. read1 = found BY <1>3, <1>4, <1>8
  <2>2. selected = read1
    <3>1. SUFFICES ASSUME selected # read1 PROVE FALSE OBVIOUS
    <3>2. Cardinality(selected) <= Cardinality(read1) BY <1>4, <1>6, FS_Subset
    <3>3. Cardinality(read1) = Cardinality(selected) BY <1>3, <1>4, <1>6, <1>8, <3>1, <3>2
    <3> QED BY <1>4, <1>6, <3>1, <3>3, FS_Subset
  <2>3. nextCursor = None BY <1>3, <1>4, <1>8
  <2> HIDE DEF nextCursor
  <2> QED BY <1>1, <1>2, <2>1, <2>2, <2>3 DEF found
<1>9. CASE Cardinality(read1) > limit
  <2>1. selected # {}
    <3>1. Cardinality({}) = 0 BY FS_EmptySet
    <3>2. read1 # {} BY <1>3, <1>9, <3>1
    <3>3. SUFFICES ASSUME selected = {} PROVE FALSE OBVIOUS
    <3>4. Cardinality(selected) >= limit BY <1>6, <3>2, <3>3
    <3>5. Cardinality(selected) = 0 BY <3>1, <3>3
    <3> QED BY <1>3, <3>4, <3>5
  <2>2. selected \in SUBSET Stored BY <1>5, <1>6
  <2>3. last \in selected /\ \A j \in selected : last = j \/ Before(j, last)
    BY <2>1, <2>2, LastTask
  <2> HIDE DEF last
  <2>4. last \in Stored /\ last \in found BY <1>2, <1>4, <1>6, <2>3
  <2>5. nextCursor = Position(last) BY <1>9
  <2> HIDE DEF nextCursor
  <2>6. nextCursor \in Cursor /\ nextCursor # None BY <2>4, <2>5, PositionFits
  <2>7. Found(tenant, status, nextCursor) = found \ selected
    <3>1. ASSUME NEW i \in Stored PROVE Beyond(nextCursor, Position(i)) <=> Before(last, i)
      BY <2>5, <2>6, <3>1, BeyondIsAfter, PositionFits DEF Before
    <3>2. ASSUME NEW i \in Found(tenant, status, nextCursor) PROVE i \in found \ selected
      <4>1. i \in Stored /\ Before(last, i) BY <3>1, <3>2 DEF Found, Stored
      <4>2. Beyond(cursor, Position(i))
        <5>1. CASE cursor = None BY <5>1 DEF Beyond
        <5>2. CASE cursor \in Cursor
          <6>1. Beyond(cursor, Position(last)) BY <2>4 DEF found, Found
          <6>2. Position(last) \in Cursor /\ Position(i) \in Cursor BY <2>4, <4>1, PositionFits
          <6>3. ListedBefore(cursor, Position(last)) BY <5>2, <6>1, <6>2, BeyondIsAfter
          <6>4. ListedBefore(cursor, Position(i)) BY <4>1, <5>2, <6>2, <6>3, ListedInOrder DEF Before
          <6> QED BY <5>2, <6>2, <6>4, BeyondIsAfter
        <5> QED BY <5>1, <5>2
      <4>3. i \in found BY <3>2, <4>2 DEF found, Found
      <4>4. i \notin selected BY <2>3, <2>4, <4>1, TasksInOrder
      <4> QED BY <4>3, <4>4
    <3>3. ASSUME NEW i \in found \ selected PROVE i \in Found(tenant, status, nextCursor)
      <4>1. Before(last, i) BY <1>7, <2>3
      <4>2. i \in Stored BY <1>2
      <4>3. Beyond(nextCursor, Position(i)) BY <3>1, <4>1, <4>2
      <4> QED BY <4>3 DEF found, Found
    <3> QED BY <3>2, <3>3
  <2>8. p.tasks = selected /\ p.nextCursor = nextCursor BY <1>1
  <2>9. selected \in SUBSET found BY <1>4, <1>6
  <2>10. \A i \in selected, j \in Found(tenant, status, nextCursor) : Before(i, j) BY <1>7, <2>7
  <2>11. p = [tasks |-> p.tasks, nextCursor |-> p.nextCursor] BY <1>1
  <2> QED BY <1>2, <2>1, <2>6, <2>7, <2>8, <2>9, <2>10, <2>11 DEF found
<1> QED BY <1>3, <1>4, <1>8, <1>9

-----------------------------------------------------------------------------
(* All pages *)

Page == [tasks : SUBSET Ids, nextCursor : Cursor \cup {None}]

(* What is still to be listed after p. *)
Rest(tenant, status, p) ==
  IF p.nextCursor = None THEN {} ELSE Found(tenant, status, p.nextCursor)

LEMMA TaskListIsPage ==
  ASSUME TypeOK, NEW tenant, NEW status, NEW cursor \in Cursor \cup {None}, NEW limit \in Nat \ {0}
  PROVE  TaskList(tenant, status, cursor, limit) \in Page
<1>1. PICK p : p = TaskList(tenant, status, cursor, limit) OBVIOUS
<1>2. /\ p = [tasks |-> p.tasks, nextCursor |-> p.nextCursor]
      /\ p.tasks \in SUBSET Ids
      /\ p.nextCursor \in Cursor \cup {None}
  BY <1>1, PageFits DEF Stored
<1> QED BY <1>1, <1>2 DEF Page

LEMMA NextPageIsPage ==
  ASSUME TypeOK, NEW tenant, NEW status, NEW limit \in Nat \ {0}, NEW p \in Page
  PROVE  NextPage(tenant, status, limit, p) \in Page
<1>1. p.nextCursor \in Cursor \cup {None} BY DEF Page
<1> QED BY <1>1, TaskListIsPage DEF NextPage, Page

(* Of what there was, front is listed and after is left. *)
Front(front, before, after) ==
  /\ front \cup after = before
  /\ after # {} => after # before
  /\ \A i \in front, j \in after : Before(i, j)

(* The next page is the front of what was left. *)
LEMMA NextPageFits ==
  ASSUME TypeOK, NEW tenant, NEW status, NEW limit \in Nat \ {0}, NEW p \in Page,
         NEW q, q = NextPage(tenant, status, limit, p)
  PROVE  Front(q.tasks, Rest(tenant, status, p), Rest(tenant, status, q))
<1>1. CASE p.nextCursor = None BY <1>1 DEF NextPage, Rest, Front
<1>2. CASE p.nextCursor # None
  <2>1. PICK c \in Cursor \cup {None} : c = p.nextCursor BY DEF Page
  <2>2. q = TaskList(tenant, status, c, limit) BY <1>2, <2>1 DEF NextPage
  <2>3. Rest(tenant, status, p) = Found(tenant, status, c) BY <1>2, <2>1 DEF Rest
  <2>4. CASE q.nextCursor = None BY <2>1, <2>2, <2>3, <2>4, PageFits DEF Rest, Front
  <2>5. CASE q.nextCursor # None
    <3>1. Rest(tenant, status, q) = Found(tenant, status, q.nextCursor) BY <2>5 DEF Rest
    <3>2. /\ q.tasks \subseteq Found(tenant, status, c)
          /\ q.tasks # {}
          /\ Found(tenant, status, q.nextCursor) = Found(tenant, status, c) \ q.tasks
          /\ \A i \in q.tasks, j \in Found(tenant, status, q.nextCursor) : Before(i, j)
      BY <2>1, <2>2, <2>5, PageFits
    <3> QED BY <2>3, <3>1, <3>2 DEF Front
  <2> QED BY <2>4, <2>5
<1> QED BY <1>1, <1>2

FollowsCursors(page, tenant, status, cursor, limit) ==
  /\ page \in [Nat -> Page]
  /\ page[0] = TaskList(tenant, status, cursor, limit)
  /\ \A n \in Nat : page[n + 1] = NextPage(tenant, status, limit, page[n])

(* The pages follow one another by NextPage. *)
LEMMA PagesFollow ==
  ASSUME TypeOK, NEW tenant, NEW status, NEW cursor \in Cursor \cup {None}, NEW limit \in Nat \ {0}
  PROVE  \E page :
           /\ FollowsCursors(page, tenant, status, cursor, limit)
           /\ DOMAIN Pages(tenant, status, cursor, limit) = 0..Cardinality(Ids)
           /\ \A n \in 0..Cardinality(Ids) : Pages(tenant, status, cursor, limit)[n] = page[n]
<1> DEFINE start == TaskList(tenant, status, cursor, limit)
           step == [p \in Page |-> NextPage(tenant, status, limit, p)]
           Is(f) == f = [n \in Nat |-> IF n = 0 THEN TaskList(tenant, status, cursor, limit)
                                       ELSE NextPage(tenant, status, limit, f[n - 1])]
           page == CHOOSE f : Is(f)
<1>1. start \in Page BY TaskListIsPage
<1>2. step \in [Page -> Page] BY NextPageIsPage
<1>3. \A p \in Page : step[p] = NextPage(tenant, status, limit, p) OBVIOUS
<1>4. Pages(tenant, status, cursor, limit) = [n \in 0..Cardinality(Ids) |-> page[n]]
  BY DEF Pages
<1>5. \E f : Is(f)
  <2> HIDE DEF step, start
  <2>1. PICK f \in [Nat -> Page] : f[0] = start /\ \A n \in Nat : f[n + 1] = step[f[n]]
    BY <1>1, <1>2, Iteration
  <2> USE DEF start
  <2>2. ASSUME NEW n \in Nat
        PROVE  f[n] = IF n = 0 THEN TaskList(tenant, status, cursor, limit)
                      ELSE NextPage(tenant, status, limit, f[n - 1])
    <3>1. CASE n = 0 BY <2>1, <3>1
    <3>2. CASE n # 0
      <4>1. n - 1 \in Nat /\ (n - 1) + 1 = n BY <3>2
      <4>2. f[n] = step[f[n - 1]] BY <2>1, <4>1
      <4> QED BY <1>3, <2>1, <3>2, <4>1, <4>2
    <3> QED BY <3>1, <3>2
  <2> QED BY <2>1, <2>2
<1>6. Is(page) BY <1>5
<1> HIDE DEF page
<1>7. page[0] = TaskList(tenant, status, cursor, limit) BY <1>6
<1>8. ASSUME NEW n \in Nat PROVE page[n + 1] = NextPage(tenant, status, limit, page[n])
  <2>1. n + 1 \in Nat /\ n + 1 # 0 /\ (n + 1) - 1 = n OBVIOUS
  <2> QED BY <1>6, <2>1
<1>9. page \in [Nat -> Page]
  <2> DEFINE T == {n \in Nat : page[n] \in Page}
  <2>1. 0 \in T BY <1>1, <1>7
  <2>2. ASSUME NEW n \in T PROVE n + 1 \in T BY <1>8, NextPageIsPage
  <2>3. T = Nat
    <3> HIDE DEF T
    <3> QED BY <2>1, <2>2, InductionOverNat DEF T
  <2>4. \A n \in Nat : page[n] \in Page BY <2>3
  <2>5. page = [n \in Nat |-> page[n]] BY <1>6
  <2> QED BY <2>4, <2>5
<1>10. FollowsCursors(page, tenant, status, cursor, limit)
  BY <1>7, <1>8, <1>9 DEF FollowsCursors
<1> QED BY <1>4, <1>10

(* The tasks of the pages 0..n. *)
Listed(page, n) == UNION {page[m].tasks : m \in 0..n}

LEMMA ListedGrows ==
  ASSUME NEW page, NEW n \in Nat
  PROVE  /\ Listed(page, 0) = page[0].tasks
         /\ Listed(page, n + 1) = Listed(page, n) \cup page[n + 1].tasks
<1>1. 0..0 = {0} /\ 0..(n + 1) = 0..n \cup {n + 1} OBVIOUS
<1> QED BY <1>1 DEF Listed

Exhausts(page, rest, found) ==
  /\ \A n \in Nat : Listed(page, n) \cup rest[n] = found
  /\ \A n \in Nat : rest[n] = {} \/ Cardinality(rest[n]) + n < Cardinality(Ids)
  /\ \A m, n \in Nat : m < n => page[n].tasks \subseteq rest[m]
  /\ \A n \in Nat : \A i \in page[n].tasks, j \in rest[n] : Before(i, j)

(* Page after page the rest shrinks until nothing is left, and each page   *)
(* is the front of what was left.                                          *)
LEMMA PagesExhaust ==
  ASSUME TypeOK, NEW tenant, NEW status, NEW cursor \in Cursor \cup {None}, NEW limit \in Nat \ {0},
         NEW page, FollowsCursors(page, tenant, status, cursor, limit),
         NEW rest, \A n \in Nat : rest[n] = Rest(tenant, status, page[n])
  PROVE  Exhausts(page, rest, Found(tenant, status, cursor))
<1> DEFINE found == Found(tenant, status, cursor)
<1>1. found \subseteq Ids BY DEF Found
<1>2. Front(page[0].tasks, found, rest[0])
  <2>1. PICK p : p = page[0] OBVIOUS
  <2>2. p = TaskList(tenant, status, cursor, limit) BY <2>1 DEF FollowsCursors
  <2>3. rest[0] = Rest(tenant, status, p) BY <2>1
  <2>4. CASE p.nextCursor = None BY <2>1, <2>2, <2>3, <2>4, PageFits DEF Rest, Front
  <2>5. CASE p.nextCursor # None
    <3>1. /\ p.tasks \subseteq found
          /\ p.tasks # {}
          /\ Found(tenant, status, p.nextCursor) = found \ p.tasks
          /\ \A i \in p.tasks, j \in Found(tenant, status, p.nextCursor) : Before(i, j)
      BY <2>2, <2>5, PageFits
    <3>2. rest[0] = Found(tenant, status, p.nextCursor) BY <2>3, <2>5 DEF Rest
    <3> QED BY <2>1, <3>1, <3>2 DEF Front
  <2> QED BY <2>4, <2>5
<1>3. ASSUME NEW n \in Nat PROVE Front(page[n + 1].tasks, rest[n], rest[n + 1])
  <2>1. PICK p \in Page : p = page[n] BY DEF FollowsCursors
  <2>2. PICK q : q = page[n + 1] OBVIOUS
  <2>3. q = NextPage(tenant, status, limit, p) BY <2>1, <2>2 DEF FollowsCursors
  <2>4. rest[n] = Rest(tenant, status, p) /\ rest[n + 1] = Rest(tenant, status, q)
    BY <2>1, <2>2
  <2>5. Front(q.tasks, Rest(tenant, status, p), Rest(tenant, status, q)) BY <2>3, NextPageFits
  <2> QED BY <2>2, <2>4, <2>5
<1> HIDE DEF found
<1>4. \A n \in Nat : \A i \in page[n].tasks, j \in rest[n] : Before(i, j)
  <2>1. ASSUME NEW n \in Nat PROVE n = 0 \/ \E k \in Nat : n = k + 1
    <3>1. CASE n = 0 BY <3>1
    <3>2. CASE n # 0
      <4>1. n - 1 \in Nat /\ n = (n - 1) + 1 BY <3>2
      <4> QED BY <4>1
    <3> QED BY <3>1, <3>2
  <2> QED BY <1>2, <1>3, <2>1 DEF Front
<1>5. \A n \in Nat : Listed(page, n) \cup rest[n] = found
  <2> DEFINE T == {n \in Nat : Listed(page, n) \cup rest[n] = found}
  <2>1. 0 \in T BY <1>2, ListedGrows DEF Front
  <2>2. ASSUME NEW n \in T PROVE n + 1 \in T
    <3>1. Listed(page, n + 1) = Listed(page, n) \cup page[n + 1].tasks BY ListedGrows
    <3>2. page[n + 1].tasks \cup rest[n + 1] = rest[n] BY <1>3 DEF Front
    <3>3. Listed(page, n) \cup rest[n] = found OBVIOUS
    <3> QED BY <3>1, <3>2, <3>3
  <2>3. T = Nat
    <3> HIDE DEF T
    <3> QED BY <2>1, <2>2, InductionOverNat DEF T
  <2> QED BY <2>3
<1>6. IsFiniteSet(Ids) /\ Cardinality(Ids) \in Nat BY PagesAssumption, FS_CardinalityType
<1>7. \A n \in Nat : rest[n] \in SUBSET Ids BY <1>1, <1>5
<1>8. \A n \in Nat : IsFiniteSet(rest[n]) /\ Cardinality(rest[n]) \in Nat
  BY <1>6, <1>7, FS_Subset, FS_CardinalityType
<1>9. \A n \in Nat : rest[n] = {} \/ Cardinality(rest[n]) + n < Cardinality(Ids)
  <2> DEFINE T == {n \in Nat : rest[n] = {} \/ Cardinality(rest[n]) + n < Cardinality(Ids)}
  <2>1. 0 \in T
    <3>1. SUFFICES ASSUME rest[0] # {} PROVE Cardinality(rest[0]) + 0 < Cardinality(Ids) OBVIOUS
    <3>2. rest[0] \in SUBSET Ids /\ rest[0] # Ids BY <1>1, <1>2, <3>1 DEF Front
    <3>3. Cardinality(rest[0]) <= Cardinality(Ids) /\ Cardinality(Ids) # Cardinality(rest[0])
      BY <1>6, <3>2, FS_Subset
    <3>4. Cardinality(rest[0]) \in Nat BY <1>8
    <3> QED BY <1>6, <3>3, <3>4
  <2>2. ASSUME NEW n \in T PROVE n + 1 \in T
    <3>1. SUFFICES ASSUME rest[n + 1] # {}
                   PROVE  Cardinality(rest[n + 1]) + (n + 1) < Cardinality(Ids)
      OBVIOUS
    <3>2. rest[n + 1] \in SUBSET rest[n] /\ rest[n + 1] # rest[n] BY <1>3, <3>1 DEF Front
    <3>3. IsFiniteSet(rest[n]) /\ Cardinality(rest[n]) \in Nat /\ Cardinality(rest[n + 1]) \in Nat
      BY <1>8
    <3>4. Cardinality(rest[n + 1]) <= Cardinality(rest[n])
          /\ Cardinality(rest[n]) # Cardinality(rest[n + 1])
      BY <3>2, <3>3, FS_Subset
    <3>5. Cardinality(rest[n]) + n < Cardinality(Ids) BY <3>1, <3>2
    <3> QED BY <1>6, <3>3, <3>4, <3>5
  <2>3. T = Nat
    <3> HIDE DEF T
    <3> QED BY <2>1, <2>2, InductionOverNat DEF T
  <2> QED BY <2>3
<1>10. ASSUME NEW m \in Nat PROVE \A n \in Nat : m < n => page[n].tasks \subseteq rest[m]
  <2> DEFINE T == {n \in Nat : m < n => page[n].tasks \cup rest[n] \subseteq rest[m]}
  <2>1. 0 \in T OBVIOUS
  <2>2. ASSUME NEW n \in T PROVE n + 1 \in T
    <3>1. SUFFICES ASSUME m < n + 1
                   PROVE  page[n + 1].tasks \cup rest[n + 1] \subseteq rest[m]
      OBVIOUS
    <3>2. page[n + 1].tasks \cup rest[n + 1] = rest[n] BY <1>3 DEF Front
    <3>3. CASE m = n BY <3>2, <3>3
    <3>4. CASE m < n
      <4>1. rest[n] \subseteq rest[m] BY <3>4
      <4> QED BY <3>2, <4>1
    <3> QED BY <3>1, <3>3, <3>4
  <2>3. T = Nat
    <3> HIDE DEF T
    <3> QED BY <2>1, <2>2, InductionOverNat DEF T
  <2> QED BY <2>3
<1> QED BY <1>4, <1>5, <1>9, <1>10 DEF found, Exhausts

(* For every collection, page size and cursor: all pages together are what *)
(* the filter finds beyond the cursor, no task is on two pages and the     *)
(* pages are in the order of the list.                                     *)
LEMMA PagesComplete ==
  ASSUME TypeOK, NEW tenant, NEW status, NEW cursor \in Cursor \cup {None}, NEW limit \in Nat \ {0}
  PROVE  LET pages == Pages(tenant, status, cursor, limit) IN
         /\ UNION {pages[n].tasks : n \in DOMAIN pages} = Found(tenant, status, cursor)
         /\ \A m, n \in DOMAIN pages : m < n =>
              \A i \in pages[m].tasks, j \in pages[n].tasks : ListedBefore(Position(i), Position(j))
<1>1. PICK page :
        /\ FollowsCursors(page, tenant, status, cursor, limit)
        /\ DOMAIN Pages(tenant, status, cursor, limit) = 0..Cardinality(Ids)
        /\ \A n \in 0..Cardinality(Ids) : Pages(tenant, status, cursor, limit)[n] = page[n]
  BY PagesFollow
<1>0. PICK rest : \A n \in Nat : rest[n] = Rest(tenant, status, page[n])
  <2>1. \A n \in Nat : [m \in Nat |-> Rest(tenant, status, page[m])][n] = Rest(tenant, status, page[n])
    OBVIOUS
  <2> QED BY <2>1
<1> DEFINE found == Found(tenant, status, cursor)
<1>2. Exhausts(page, rest, found) BY <1>0, <1>1, PagesExhaust
<1> HIDE DEF found
<1> USE DEF Exhausts
<1> DEFINE K == Cardinality(Ids)
<1>3. K \in Nat BY PagesAssumption, FS_CardinalityType
<1>4. rest[K] = {}
  <2>1. SUFFICES ASSUME rest[K] # {} PROVE FALSE OBVIOUS
  <2>2. Cardinality(rest[K]) + K < K BY <1>2, <1>3, <2>1
  <2>3. rest[K] \subseteq Ids
    <3>2. Listed(page, K) \cup rest[K] = found BY <1>2, <1>3
    <3>3. found \subseteq Ids BY DEF found, Found
    <3> QED BY <3>2, <3>3
  <2>4. Cardinality(rest[K]) \in Nat BY <2>3, PagesAssumption, FS_Subset, FS_CardinalityType
  <2> HIDE DEF K
  <2> QED BY <1>3, <2>2, <2>4
<1>5. Listed(page, K) = found BY <1>2, <1>3, <1>4
<1>6. PICK pages : pages = Pages(tenant, status, cursor, limit) OBVIOUS
<1>7. DOMAIN pages = 0..K /\ \A n \in 0..K : pages[n] = page[n] BY <1>1, <1>6
<1> HIDE DEF K
<1>8. UNION {pages[n].tasks : n \in DOMAIN pages} = found BY <1>5, <1>7 DEF Listed
<1>9. ASSUME NEW m \in DOMAIN pages, NEW n \in DOMAIN pages, m < n,
             NEW i \in pages[m].tasks, NEW j \in pages[n].tasks
      PROVE  ListedBefore(Position(i), Position(j))
  <2>1. m \in Nat /\ n \in Nat /\ pages[m] = page[m] /\ pages[n] = page[n] BY <1>3, <1>7
  <2>2. j \in rest[m] BY <1>2, <1>9, <2>1
  <2> QED BY <1>2, <2>1, <2>2 DEF Before
<1> QED BY <1>6, <1>8, <1>9 DEF found

(* Whatever was created and deleted before, and between the pages: the     *)
(* pages from any cursor on hold every task beyond it that matches.        *)
THEOREM PagesAlwaysComplete == Spec => []PagesAreComplete
<1>1. ASSUME InductiveInvariant PROVE PagesAreComplete
  <2>1. TypeOK BY <1>1 DEF InductiveInvariant
  <2>2. SUFFICES ASSUME NEW tenant \in Tenants, NEW status \in {None, "Todo", "Completed"},
                        NEW limit \in 1..MaxLimit,
                        NEW start \in {None} \cup [createdAt : 0..now, id : Ids]
                 PROVE  LET pages == Pages(tenant, status, start, limit) IN
                        /\ UNION {pages[n].tasks : n \in DOMAIN pages} = Found(tenant, status, start)
                        /\ \A m, n \in DOMAIN pages : m < n =>
                             \A i \in pages[m].tasks, j \in pages[n].tasks :
                               ListedBefore(Position(i), Position(j))
    BY DEF PagesAreComplete
  <2>3. start \in Cursor \cup {None}
    <3>1. Ids \subseteq Nat /\ 0..now \subseteq Nat BY <2>1, PagesAssumption DEF TypeOK
    <3> QED BY <3>1 DEF Cursor
  <2>4. limit \in Nat \ {0} BY PagesAssumption
  <2> QED BY <2>1, <2>3, <2>4, PagesComplete
<1> QED BY <1>1, InvariantHolds, PTL

(* Together with PagesAlwaysComplete: reading page after page while tasks   *)
(* come, change and go, a task that stays is neither missed nor repeated.  *)
THEOREM PlacesAlwaysStay == Spec => PlacesStay
<1> DEFINE Stay == \A i \in Ids : HistoryOf(i) # {} =>
              tasks'[i] = None \/ (tasks[i] # None /\ Position(i)' = Position(i))
<1>1. ASSUME InductiveInvariant, [Next]_vars PROVE Stay
  <2>1. CASE UNCHANGED <<tasks, events>>
    BY <2>1 DEF Position
  <2>2. ASSUME NEW c \in Commands, Commit(c), event[c] # None PROVE Stay
    <3> SUFFICES ASSUME NEW i \in Ids, HistoryOf(i) # {}, tasks'[i] # None
                 PROVE  tasks[i] # None /\ Position(i)' = Position(i)
      OBVIOUS
    <3>1. \E n \in 1..Len(events) : events[n].taskId = i BY DEF HistoryOf
    <3>2. CASE target[c] # i
      <4>1. tasks'[i] = tasks[i] BY <1>1, <2>2, <3>2, CommitReplacesWhatItRead DEF InductiveInvariant, TypeOK
      <4> QED BY <4>1 DEF Position
    <3>3. CASE target[c] = i
      <4>1. tasks'[i] = next[c] /\ tasks[i] = read[c] /\ target[c] # None /\ stage[c] # "done"
        BY <1>1, <2>2, <3>3, CommitReplacesWhatItRead DEF InductiveInvariant, TypeOK
      <4>2. read[c] # None BY <1>1, <3>1, <3>3, <4>1 DEF InductiveInvariant, NewIdsAreNew
      <4>3. next[c].createdAt = read[c].createdAt
        BY <1>1, <4>1, <4>2 DEF InductiveInvariant, ProposalsFit
      <4> QED BY <4>1, <4>2, <4>3 DEF Position
    <3> QED BY <3>2, <3>3
  <2> QED BY <1>1, <2>1, <2>2, OnlyCommitsWrite
<1>2. InductiveInvariant /\ [Next]_vars => [Stay]_vars BY <1>1
<1> QED BY <1>2, InvariantHolds, PTL DEF Spec, PlacesStay

=============================================================================
