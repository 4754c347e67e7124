------------------------------- MODULE MCTasks -------------------------------
(* Small instances of Tasks and TaskPages for TLC. *)
EXTENDS TaskPages

CONSTANTS ours, theirs

t1 == 1

(* A task is created, changed along two paths, reopened and deleted; a     *)
(* second tenant tries to change and to delete it; an input of each kind   *)
(* is refused, for its title, its transition, its version or the missing   *)
(* confirmation.                                                           *)
SomeInputs ==
  [kind : {"create"}, tenant : {ours}, valid : BOOLEAN]
    \cup
  {[kind |-> "change", tenant |-> ours, taskId |-> t1, status |-> "Completed", expectedVersion |-> 1],
   [kind |-> "change", tenant |-> ours, taskId |-> t1, status |-> "InProgress", expectedVersion |-> 1],
   [kind |-> "change", tenant |-> ours, taskId |-> t1, status |-> "Todo", expectedVersion |-> 1],
   [kind |-> "change", tenant |-> ours, taskId |-> t1, status |-> "Todo", expectedVersion |-> 2],
   [kind |-> "change", tenant |-> theirs, taskId |-> t1, status |-> "Completed", expectedVersion |-> 1],
   [kind |-> "delete", tenant |-> ours, taskId |-> t1, expectedVersion |-> 1, confirmed |-> TRUE],
   [kind |-> "delete", tenant |-> ours, taskId |-> t1, expectedVersion |-> 2, confirmed |-> FALSE],
   [kind |-> "delete", tenant |-> theirs, taskId |-> t1, expectedVersion |-> 1, confirmed |-> TRUE]}

=============================================================================
