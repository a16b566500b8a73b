------------------------------ MODULE Scheduler ------------------------------
(***************************************************************************)
(* The tasks of kernel/src/main.c and the timer interrupt of pit.c that    *)
(* rotates them.  A task can lose the CPU between any two of its steps;    *)
(* the handler of IRQ0 runs with interrupts off, and every turn of its     *)
(* search for an active task is one step.                                  *)
(***************************************************************************)
EXTENDS Integers, Sequences

CONSTANTS
  MaxTasks,      \* max_tasks (16)
  Names,         \* names of tasks
  Shell,         \* "shell" and "counter", the names kmain gives
  Counter,
  NoName,        \* the name of a slot never used
  BootTasks,     \* bound of the model: tasks the boot script creates
  SleepTicks     \* ticks of sleep_ms

ASSUME TasksAssumption == MaxTasks \in Nat /\ MaxTasks > BootTasks + 1
ASSUME BootAssumption == BootTasks \in Nat /\ SleepTicks \in Nat
ASSUME NameAssumption == {Shell, Counter} \subseteq Names /\ NoName \notin Names

Slots == 0 .. MaxTasks - 1

VARIABLES
  count,      \* task_count
  current,    \* current_task_id
  name,       \* slot -> tasks[].name
  active,     \* slot -> tasks[].active
  code,       \* slot -> what its frame will run: test_task_normal_shell,
              \* test_task_counter or run_task; "none" before task_create
  cpu,        \* who has the CPU: kmain, a task, or the timer interrupt
  inService,  \* the PIC waits for the EOI of IRQ0
  at,         \* slot -> where the task is in its code
  arg,        \* slot -> name, the argument of creat_task_path or delet_task
  idx,        \* slot -> i of delet_task
  due         \* slot -> ticks until the target of sleep_ticks

tasktable == <<count, name, active, code>>
stacks == <<at, arg, idx, due>>
vars == <<tasktable, current, cpu, inService, stacks>>

Code == {"none", "shell", "counter", "script"}
Places == {"run", "name", "frame", "count", "scan", "sleep"}

TypeOK ==
  /\ count \in 0 .. MaxTasks /\ current \in Slots
  /\ name \in [Slots -> Names \cup {NoName}]
  /\ active \in [Slots -> BOOLEAN]
  /\ code \in [Slots -> Code]
  /\ cpu \in {"kmain", "task", "irq"} /\ inService \in BOOLEAN
  /\ at \in [Slots -> Places]
  /\ arg \in [Slots -> Names \cup {NoName}]
  /\ idx \in [Slots -> 0 .. MaxTasks]
  /\ due \in [Slots -> 0 .. SleepTicks]

Counted == 0 .. count - 1
Running(t) == cpu = "task" /\ current = t

Init ==
  /\ count = 0 /\ current = 0
  /\ name = [s \in Slots |-> NoName]
  /\ active = [s \in Slots |-> FALSE]
  /\ code = [s \in Slots |-> "none"]
  /\ cpu = "kmain" /\ inService = FALSE
  /\ at = [s \in Slots |-> "run"]
  /\ arg = [s \in Slots |-> NoName]
  /\ idx = [s \in Slots |-> 0]
  /\ due = [s \in Slots |-> 0]

-----------------------------------------------------------------------------
(* kmain, with interrupts off: nothing can come between the steps of a     *)
(* creat_task_func or creat_task_path.                                     *)

NewTask(n, c) ==
  /\ name' = [name EXCEPT ![count] = n]
  /\ code' = [code EXCEPT ![count] = c]
  /\ active' = [active EXCEPT ![count] = TRUE]
  /\ count' = count + 1

Has(c) == \E s \in Slots : code[s] = c

(* boot_commands, when the script it runs creates tasks. *)
BootScript ==
  /\ cpu = "kmain" /\ ~Has("shell") /\ count < BootTasks
  /\ \E n \in Names : NewTask(n, "script")
  /\ UNCHANGED <<current, cpu, inService, stacks>>

KmainShell ==
  /\ cpu = "kmain" /\ ~Has("shell")
  /\ NewTask(Shell, "shell")
  /\ UNCHANGED <<current, cpu, inService, stacks>>

KmainCounter ==
  /\ cpu = "kmain" /\ Has("shell") /\ ~Has("counter")
  /\ NewTask(Counter, "counter")
  /\ UNCHANGED <<current, cpu, inService, stacks>>

(* jump_to_task(tasks[0].rsp): its iretq is what turns interrupts on. *)
Jump ==
  /\ cpu = "kmain" /\ Has("counter")
  /\ current' = 0 /\ cpu' = "task"
  /\ UNCHANGED <<tasktable, inService, stacks>>

-----------------------------------------------------------------------------
(* irq0 and schedule. *)

(* Mutant: the PIC is not told. *)
Tick_NoEoi ==
  /\ cpu = "task" /\ ~inService
  /\ inService' = TRUE /\ cpu' = "irq"
  /\ due' = [s \in Slots |-> IF due[s] = 0 THEN 0 ELSE due[s] - 1]
  /\ UNCHANGED <<tasktable, current, at, arg, idx>>
(* Entry to the loop: the tick is counted, which brings every sleeper      *)
(* nearer its target, the PIC gets its EOI, the frame is saved.  With no   *)
(* task at all the handler returns before any of that.                     *)
Tick ==
  /\ cpu = "task" /\ ~inService
  /\ IF count = 0
     THEN inService' = TRUE /\ UNCHANGED <<cpu, due>>
     ELSE /\ cpu' = "irq" /\ UNCHANGED inService
          /\ due' = [s \in Slots |-> IF due[s] = 0 THEN 0 ELSE due[s] - 1]
  /\ UNCHANGED <<tasktable, current, at, arg, idx>>

(* Mutant: the first candidate is taken, active or not. *)
Rotate_NotChecked ==
  /\ cpu = "irq"
  /\ current' = (current + 1) % count
  /\ cpu' = "task"
  /\ UNCHANGED <<tasktable, inService, stacks>>
(* Mutant: the last task of the table is left out. *)
Rotate_LastOut ==
  /\ cpu = "irq"
  /\ current' = (current + 1) % (count - 1)
  /\ cpu' = IF active[current'] THEN "task" ELSE "irq"
  /\ UNCHANGED <<tasktable, inService, stacks>>
(* One turn of the loop: with no active task it goes on for ever. *)
Rotate ==
  /\ cpu = "irq"
  /\ current' = (current + 1) % count
  /\ cpu' = IF active[current'] THEN "task" ELSE "irq"
  /\ UNCHANGED <<tasktable, inService, stacks>>

-----------------------------------------------------------------------------
(* creat_task_path, from "task create" at the shell.                       *)

(* Mutant: one task more than the table holds. *)
CreateCheck_OneMore(t) ==
  /\ at[t] = "run" /\ code[t] = "shell" /\ count <= MaxTasks
  /\ \E n \in Names : arg' = [arg EXCEPT ![t] = n]
  /\ at' = [at EXCEPT ![t] = "name"]
  /\ UNCHANGED <<tasktable, current, cpu, inService, idx, due>>
(* With a full table it returns at once. *)
CreateCheck(t) ==
  /\ at[t] = "run" /\ code[t] = "shell" /\ count < MaxTasks
  /\ \E n \in Names : arg' = [arg EXCEPT ![t] = n]
  /\ at' = [at EXCEPT ![t] = "name"]
  /\ UNCHANGED <<tasktable, current, cpu, inService, idx, due>>

(* Mutant: the task is counted before it is made. *)
NameTask_CountFirst(t) ==
  /\ at[t] = "name"
  /\ name' = [name EXCEPT ![count] = arg[t]]
  /\ arg' = [arg EXCEPT ![t] = NoName]
  /\ at' = [at EXCEPT ![t] = "frame"]
  /\ count' = count + 1
  /\ UNCHANGED <<active, code, current, cpu, inService, idx, due>>
(* copy_task_name *)
NameTask(t) ==
  /\ at[t] = "name"
  /\ name' = [name EXCEPT ![count] = arg[t]]
  /\ arg' = [arg EXCEPT ![t] = NoName]
  /\ at' = [at EXCEPT ![t] = "frame"]
  /\ UNCHANGED <<count, active, code, current, cpu, inService, idx, due>>

(* task_create: the frame, then active. *)
FrameTask(t) ==
  /\ at[t] = "frame"
  /\ code' = [code EXCEPT ![count] = "script"]
  /\ active' = [active EXCEPT ![count] = TRUE]
  /\ at' = [at EXCEPT ![t] = "count"]
  /\ UNCHANGED <<count, name, current, cpu, inService, arg, idx, due>>

CountTask(t) ==
  /\ at[t] = "count"
  /\ count' = count + 1
  /\ at' = [at EXCEPT ![t] = "run"]
  /\ UNCHANGED <<name, active, code, current, cpu, inService, arg, idx, due>>

-----------------------------------------------------------------------------
(* delet_task, from "task del" at the shell or in a script.                *)

(* With a full table it returns at once. *)
DeleteCheck(t) ==
  /\ at[t] = "run" /\ code[t] \in {"shell", "script"} /\ count < MaxTasks
  /\ \E n \in Names : arg' = [arg EXCEPT ![t] = n]
  /\ at' = [at EXCEPT ![t] = "scan"]
  /\ UNCHANGED <<tasktable, current, cpu, inService, idx, due>>

(* Mutant: every task of the name is stopped, one per turn. *)
DeleteScan_All(t) ==
  /\ at[t] = "scan"
  /\ IF idx[t] < count
     THEN /\ active' = IF name[idx[t]] = arg[t] THEN [active EXCEPT ![idx[t]] = FALSE]
                       ELSE active
          /\ idx' = [idx EXCEPT ![t] = @ + 1] /\ UNCHANGED <<at, arg>>
     ELSE /\ idx' = [idx EXCEPT ![t] = 0] /\ arg' = [arg EXCEPT ![t] = NoName]
          /\ at' = [at EXCEPT ![t] = "run"] /\ UNCHANGED active
  /\ UNCHANGED <<count, name, code, current, cpu, inService, due>>
(* One turn of its loop. *)
DeleteScan(t) ==
  /\ at[t] = "scan"
  /\ IF idx[t] < count /\ name[idx[t]] # arg[t]
     THEN idx' = [idx EXCEPT ![t] = @ + 1] /\ UNCHANGED <<active, at, arg>>
     ELSE /\ active' = IF idx[t] < count THEN [active EXCEPT ![idx[t]] = FALSE]
                       ELSE active
          /\ idx' = [idx EXCEPT ![t] = 0] /\ arg' = [arg EXCEPT ![t] = NoName]
          /\ at' = [at EXCEPT ![t] = "run"]
  /\ UNCHANGED <<count, name, code, current, cpu, inService, due>>

-----------------------------------------------------------------------------
(* sleep_ms, in the counter and by the sleep command of shell and scripts. *)

Sleep(t) ==
  /\ at[t] = "run"
  /\ due' = [due EXCEPT ![t] = SleepTicks]
  /\ at' = [at EXCEPT ![t] = "sleep"]
  /\ UNCHANGED <<tasktable, current, cpu, inService, arg, idx>>

Wake(t) ==
  /\ at[t] = "sleep" /\ due[t] = 0
  /\ at' = [at EXCEPT ![t] = "run"]
  /\ UNCHANGED <<tasktable, current, cpu, inService, arg, idx, due>>

-----------------------------------------------------------------------------
(* What the code calls next once it has begun a command. *)
Continue(t) ==
  \/ NameTask(t) \/ FrameTask(t) \/ CountTask(t)
  \/ DeleteScan(t)
  \/ Wake(t)

TaskStep(t) ==
  /\ Running(t)
  /\ CreateCheck(t) \/ DeleteCheck(t) \/ Sleep(t) \/ Continue(t)

Kmain == BootScript \/ KmainShell \/ KmainCounter \/ Jump

Next == Kmain \/ Tick \/ Rotate \/ \E t \in Slots : TaskStep(t)

Spec == Init /\ [][Next]_vars

(* The PIT fires every 10 ms and the processor runs the handler; a task    *)
(* that keeps getting the CPU gets on with what it is doing, for a tick    *)
(* does not come between every two of its steps.                           *)
FairSpec ==
  /\ Spec
  /\ WF_vars(Tick) /\ WF_vars(Rotate)
  /\ \A t \in Slots : SF_vars(Running(t) /\ Continue(t))

-----------------------------------------------------------------------------
(* The creator at work, if there is one. *)
Creating == {t \in Slots : at[t] \in {"name", "frame", "count"}}

(* A task in the table is whole, and one that is not yet counted is not    *)
(* active except in the creator's last step, whatever tick comes between:  *)
(* the search of schedule finds a frame wherever it finds a one.           *)
SlotsWhole ==
  /\ \A s \in Counted : code[s] # "none" /\ name[s] # NoName
  /\ \A s \in Slots : active[s] => s \in Counted \/ (s = count /\ Creating # {})
  /\ cpu # "kmain" => current \in Counted
  /\ ~inService

(* A task that was stopped takes no step after its quantum, and no later   *)
(* creation revives it.                                                    *)
StoppedStays ==
  [][\A s \in Counted :
       ~active[s] /\ ~Running(s) /\ cpu # "kmain" =>
         ~active'[s] /\ ~Running(s)' /\ at'[s] = at[s]]_vars

(* Every task in the table gets the CPU again and again until it is        *)
(* stopped, whatever is created and stopped meanwhile.                     *)
Turns ==
  \A s \in Slots :
    (s < count /\ cpu # "kmain") ~> (Running(s) \/ ~active[s])

(* Who sleeps wakes up, unless it is stopped. *)
SleepEnds ==
  \A s \in Slots : at[s] = "sleep" ~> (at[s] = "run" \/ ~active[s])

(* Preempted anywhere, creat_task_path and delet_task act on the table as  *)
(* the atomic ones of TaskTable.                                           *)
Tasks == [i \in 1 .. count |-> [name |-> name[i - 1], active |-> active[i - 1]]]
Table == INSTANCE TaskTable WITH tasks <- Tasks
TaskTableSpec == Table!Spec
=============================================================================
