------------------------------ MODULE TaskLedger ------------------------------
(***************************************************************************)
(* What the task features of Focusly promise together: the tasks of every  *)
(* tenant change one command at a time, a change of status is an allowed   *)
(* transition from the version it names, and every change is announced by  *)
(* exactly one event, in the order of the changes.                         *)
(***************************************************************************)
EXTENDS Naturals, Sequences

CONSTANTS Ids, Tenants, None

VARIABLES
  tasks,  \* tasks[i]: owner, status and version of the task i, or None
  log     \* the events, as <<type, task id>>, in the order of the changes

vars == <<tasks, log>>

Init == tasks = [i \in Ids |-> None] /\ log = <<>>

Announce(type, i) == log' = Append(log, <<type, i>>)

(* A task comes into being once: an id that was used is not used again.    *)
Create(i, t) ==
  /\ tasks[i] = None /\ \A n \in 1..Len(log) : log[n][2] # i
  /\ tasks' = [tasks EXCEPT ![i] = [tenant |-> t, status |-> "Todo", version |-> 1]]
  /\ Announce("TaskCreatedV1", i)

(* Everything but leaving Completed other than by starting over.           *)
Change(i, status) ==
  /\ tasks[i] # None
  /\ status # tasks[i].status
  /\ tasks[i].status = "Completed" => status = "Todo"
  /\ tasks' = [tasks EXCEPT ![i] = [tenant |-> tasks[i].tenant, status |-> status,
                                    version |-> tasks[i].version + 1]]
  /\ Announce("TaskStatusChangedV1", i)

Delete(i) ==
  /\ tasks[i] # None
  /\ tasks' = [tasks EXCEPT ![i] = None]
  /\ Announce("TaskDeletedV1", i)

Next ==
  \E i \in Ids :
    \/ \E t \in Tenants : Create(i, t)
    \/ \E s \in {"Todo", "InProgress", "Completed"} : Change(i, s)
    \/ Delete(i)

Spec == Init /\ [][Next]_vars

=============================================================================
