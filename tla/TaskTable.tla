------------------------------ MODULE TaskTable ------------------------------
(***************************************************************************)
(* What the task commands of the shell promise: the table of tasks grows   *)
(* by one whole task at a time, and deleting a name stops the oldest task  *)
(* that was created under it.                                              *)
(***************************************************************************)
EXTENDS Naturals, Sequences

CONSTANTS Names, MaxTasks

VARIABLE tasks     \* in order of creation, the stopped ones included

Init == tasks = <<>>

Create ==
  /\ Len(tasks) < MaxTasks
  /\ \E n \in Names : tasks' = Append(tasks, [name |-> n, active |-> TRUE])

(* A task that was stopped still bears its name. *)
Delete ==
  \E i \in 1 .. Len(tasks) :
    /\ \A j \in 1 .. i - 1 : tasks[j].name # tasks[i].name
    /\ tasks' = [tasks EXCEPT ![i].active = FALSE]

Next == Create \/ Delete

Spec == Init /\ [][Next]_tasks
=============================================================================
