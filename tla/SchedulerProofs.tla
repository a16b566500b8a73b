--------------------------- MODULE SchedulerProofs ---------------------------
(***************************************************************************)
(* The task table and the rotation, for any number of slots and names.     *)
(***************************************************************************)
EXTENDS Scheduler, SequenceTheorems, TLAPS

CreatePlaces == {"name", "frame", "count"}

(* There is one shell, so one creation at a time, and while it is under    *)
(* way the slot it fills is the first beyond the table.                    *)
CreationOK ==
  /\ \A s, t \in Slots : code[s] = "shell" /\ code[t] = "shell" => s = t
  /\ \A s \in Slots : code[s] \in {"shell", "counter"} => s < count
  /\ \A t \in Slots :
       /\ at[t] \in CreatePlaces => code[t] = "shell" /\ count < MaxTasks
       /\ at[t] = "name" => arg[t] \in Names
       /\ at[t] \in {"frame", "count"} => name[count] \in Names
       /\ at[t] = "count" => code[count] # "none" /\ active[count]

(* kmain has room for its two tasks, and leaves them to the scheduler.     *)
BootOK ==
  /\ cpu = "kmain" =>
       /\ \A t \in Slots : at[t] = "run"
       /\ ~Has("shell") => count <= BootTasks
       /\ ~Has("counter") => count <= BootTasks + 1
  /\ cpu # "kmain" => count > 0
  /\ Has("counter") => count > 0

SchedInv == TypeOK /\ CreationOK /\ BootOK /\ SlotsWhole

(* kmain starts with an empty table. *)
LEMMA SchedInit == Init => SchedInv
  <1> SUFFICES ASSUME Init
               PROVE  SchedInv
    OBVIOUS
  <1> USE TasksAssumption, BootAssumption DEF Init, Slots
  <1>1. TypeOK
    <2>1. 0 \in Slots /\ count \in 0 .. MaxTasks
      OBVIOUS
    <2>2. name \in [Slots -> Names \cup {NoName}] /\ arg \in [Slots -> Names \cup {NoName}]
      OBVIOUS
    <2>3. idx \in [Slots -> 0 .. MaxTasks] /\ due \in [Slots -> 0 .. SleepTicks]
      OBVIOUS
    <2>4. active \in [Slots -> BOOLEAN] /\ code \in [Slots -> Code] /\ at \in [Slots -> Places]
      BY DEF Code, Places
    <2> QED
      BY <2>1, <2>2, <2>3, <2>4 DEF TypeOK
  <1>2. CreationOK
    BY DEF CreationOK, CreatePlaces
  <1>3. BootOK
    BY DEF BootOK, Has
  <1>4. SlotsWhole
    BY DEF SlotsWhole, Counted
  <1> QED
    BY <1>1, <1>2, <1>3, <1>4 DEF SchedInv

LEMMA KmainStep == SchedInv /\ Kmain => SchedInv'
  <1> SUFFICES ASSUME SchedInv, Kmain
               PROVE  SchedInv'
    OBVIOUS
  <1> USE TasksAssumption, BootAssumption, NameAssumption
          DEF SchedInv, TypeOK, Slots, Code, Places
  <1>1. ASSUME NEW n \in Names, NEW c \in Code \ {"none"}, NewTask(n, c),
               count < MaxTasks, cpu = "kmain", c = "shell" => ~Has("shell"),
               ~Has("shell") \/ c # "script",
               c = "shell" => count <= BootTasks,
               c = "script" => count < BootTasks,
               c = "counter" => Has("shell"),
               UNCHANGED <<current, cpu, inService, stacks>>
        PROVE  SchedInv'
    <2>1. TypeOK'
      BY <1>1 DEF NewTask, stacks
    <2>2. CreationOK'
      <3>1. \A s \in Slots : code[s] \in {"shell", "counter"} => s < count
        BY DEF CreationOK
      <3>2. code' = [code EXCEPT ![count] = c] /\ count' = count + 1 /\ count \in Slots
        BY <1>1 DEF NewTask
      <3>3. \A s \in Slots : code'[s] \in {"shell", "counter"} => s < count'
        BY <3>1, <3>2
      <3>4. \A s, u \in Slots : code'[s] = "shell" /\ code'[u] = "shell" => s = u
        BY <1>1, <3>1, <3>2 DEF CreationOK, Has
      <3>5. \A u \in Slots : at'[u] = "run"
        BY <1>1 DEF stacks, BootOK
      <3> QED
        BY <3>3, <3>4, <3>5 DEF CreationOK, CreatePlaces
    <2>3. BootOK'
      <3>1. code' = [code EXCEPT ![count] = c] /\ count' = count + 1 /\ count \in Slots
        BY <1>1 DEF NewTask
      <3>2. code'[count] = c
        BY <3>1
      <3>3. Has("shell") => Has("shell")'
        BY <3>1 DEF CreationOK, Has
      <3>4. Has(c)'
        BY <3>1, <3>2 DEF Has
      <3>5. ~Has("shell")' => count' <= BootTasks
        BY <1>1, <3>1, <3>3, <3>4
      <3>6. ~Has("counter")' => count' <= BootTasks + 1
        BY <1>1, <3>1, <3>4
      <3>7. \A u \in Slots : at'[u] = "run"
        BY <1>1 DEF stacks, BootOK
      <3> QED
        BY <1>1, <3>1, <3>5, <3>6, <3>7 DEF BootOK
    <2>4. SlotsWhole'
      <3>1. \A s \in Slots : active[s] => s \in Counted
        BY <1>1 DEF SlotsWhole, Creating, BootOK
      <3> QED
        BY <1>1, <3>1 DEF NewTask, SlotsWhole, Counted
    <2> QED
      BY <2>1, <2>2, <2>3, <2>4
  <1>2. CASE BootScript
    BY <1>2, <1>1 DEF BootScript
  <1>3. CASE KmainShell
    <2>1. /\ Shell \in Names /\ "shell" \in Code \ {"none"} /\ NewTask(Shell, "shell")
          /\ cpu = "kmain" /\ ~Has("shell") /\ UNCHANGED <<current, cpu, inService, stacks>>
      BY <1>3 DEF KmainShell
    <2>2. count <= BootTasks /\ count < MaxTasks
      BY <2>1 DEF BootOK
    <2> QED
      BY <2>1, <2>2, <1>1
  <1>4. CASE KmainCounter
    <2>1. /\ Counter \in Names /\ "counter" \in Code \ {"none"} /\ NewTask(Counter, "counter")
          /\ cpu = "kmain" /\ Has("shell") /\ ~Has("counter")
          /\ UNCHANGED <<current, cpu, inService, stacks>>
      BY <1>4 DEF KmainCounter
    <2>2. count < MaxTasks
      BY <2>1 DEF BootOK
    <2> QED
      BY <2>1, <2>2, <1>1
  <1>5. CASE Jump
    <2>1. count > 0
      BY <1>5 DEF Jump, BootOK
    <2> QED
      BY <1>5, <2>1 DEF Jump, tasktable, stacks, CreationOK, BootOK, SlotsWhole,
                        Counted, Creating, Has
  <1> QED
    BY <1>2, <1>3, <1>4, <1>5 DEF Kmain

LEMMA IrqStep == SchedInv /\ (Tick \/ Rotate) => SchedInv'
  <1> SUFFICES ASSUME SchedInv, Tick \/ Rotate
               PROVE  SchedInv'
    OBVIOUS
  <1> USE TasksAssumption, BootAssumption, NameAssumption
          DEF SchedInv, TypeOK, Slots, Code, Places
  <1>1. CASE Tick
    <2>1. due' \in [Slots -> 0 .. SleepTicks]
      <3>1. due' = [s \in Slots |-> IF due[s] = 0 THEN 0 ELSE due[s] - 1]
        BY <1>1 DEF Tick, BootOK
      <3>2. \A s \in Slots : (IF due[s] = 0 THEN 0 ELSE due[s] - 1) \in 0 .. SleepTicks
        OBVIOUS
      <3> QED
        BY <3>1, <3>2
    <2>2. /\ cpu = "task" /\ cpu' = "irq" /\ count > 0 /\ inService' = inService
          /\ UNCHANGED <<count, name, active, code, current, at, arg, idx>>
      BY <1>1 DEF Tick, tasktable, BootOK, SlotsWhole
    <2>3. TypeOK'
      BY <2>1, <2>2
    <2>4. CreationOK'
      BY <2>2 DEF CreationOK, CreatePlaces
    <2>6. BootOK'
      BY <2>2 DEF BootOK, Has
    <2>5. SlotsWhole'
      BY <2>2 DEF SlotsWhole, Counted, Creating
    <2> QED
      BY <2>3, <2>4, <2>5, <2>6
  <1>2. CASE Rotate
    <2>1. current' \in 0 .. count - 1
      BY <1>2 DEF Rotate, BootOK
    <2> QED
      BY <1>2, <2>1 DEF Rotate, tasktable, stacks, CreationOK, BootOK, SlotsWhole,
                        Counted, Creating, Has
  <1> QED
    BY <1>1, <1>2

LEMMA TaskStepInv ==
  ASSUME SchedInv, NEW t \in Slots, TaskStep(t)
  PROVE  SchedInv'
  <1> USE TasksAssumption, BootAssumption, NameAssumption
          DEF SchedInv, TypeOK, Slots, Code, Places
  <1>0. cpu = "task" /\ current = t
    BY DEF TaskStep, Running
  <1>1. CASE CreateCheck(t)
    BY <1>0, <1>1 DEF CreateCheck, tasktable, CreationOK, BootOK, SlotsWhole,
                      Counted, Creating, Has, CreatePlaces
  <1>2. CASE NameTask(t)
    <2>1. TypeOK'
      BY <1>0, <1>2 DEF NameTask, CreationOK, CreatePlaces
    <2>2. CreationOK'
      BY <1>0, <1>2 DEF NameTask, CreationOK, CreatePlaces
    <2>3. BootOK'
      BY <1>0, <1>2 DEF NameTask, BootOK, Has
    <2>4. SlotsWhole'
      BY <1>0, <1>2 DEF NameTask, SlotsWhole, CreationOK, Counted, Creating, CreatePlaces
    <2> QED
      BY <2>1, <2>2, <2>3, <2>4
  <1>3. CASE FrameTask(t)
    <2>1. TypeOK'
      BY <1>0, <1>3 DEF FrameTask, CreationOK, CreatePlaces
    <2>2. CreationOK'
      BY <1>0, <1>3 DEF FrameTask, CreationOK, CreatePlaces
    <2>3. BootOK'
      BY <1>0, <1>3 DEF FrameTask, BootOK, Has
    <2>4. SlotsWhole'
      <3>1. t \in Creating'
        BY <1>3 DEF FrameTask, Creating
      <3>2. \A s \in Slots : active'[s] => s \in Counted \/ s = count
        BY <1>3 DEF FrameTask, SlotsWhole
      <3>3. \A s \in Counted : code'[s] # "none"
        BY <1>3 DEF FrameTask, SlotsWhole, Counted
      <3> QED
        BY <1>0, <1>3, <3>1, <3>2, <3>3 DEF FrameTask, SlotsWhole, Counted
    <2> QED
      BY <2>1, <2>2, <2>3, <2>4
  <1>4. CASE CountTask(t)
    <2>1. TypeOK'
      BY <1>0, <1>4 DEF CountTask, CreationOK, CreatePlaces
    <2>2. CreationOK'
      BY <1>0, <1>4 DEF CountTask, CreationOK, CreatePlaces
    <2>3. BootOK'
      BY <1>0, <1>4 DEF CountTask, BootOK, Has
    <2>4. SlotsWhole'
      <3>1. code[count] # "none" /\ name[count] # NoName
        BY <1>4 DEF CountTask, CreationOK, CreatePlaces
      <3>2. \A s \in Slots : active[s] => s \in 0 .. count
        BY DEF SlotsWhole, Counted
      <3> QED
        BY <1>0, <1>4, <3>1, <3>2 DEF CountTask, SlotsWhole, Counted
    <2> QED
      BY <2>1, <2>2, <2>3, <2>4
  <1>5. CASE DeleteCheck(t)
    BY <1>0, <1>5 DEF DeleteCheck, tasktable, CreationOK, BootOK, SlotsWhole,
                      Counted, Creating, Has, CreatePlaces
  <1>6. CASE DeleteScan(t)
    <2>1. \A s \in Slots : active'[s] => active[s]
      BY <1>6 DEF DeleteScan
    <2>2. TypeOK'
      <3>1. active' \in [Slots -> BOOLEAN]
        BY <1>6 DEF DeleteScan
      <3>2. idx' \in [Slots -> 0 .. MaxTasks]
        <4>1. idx[t] < count => idx[t] + 1 \in 0 .. MaxTasks
          OBVIOUS
        <4>2. idx' = [idx EXCEPT ![t] = 0] \/
              (idx' = [idx EXCEPT ![t] = idx[t] + 1] /\ idx[t] < count)
          BY <1>6 DEF DeleteScan
        <4> QED
          BY <4>1, <4>2
      <3>3. at' \in [Slots -> Places] /\ arg' \in [Slots -> Names \cup {NoName}]
        BY <1>6 DEF DeleteScan
      <3> QED
        BY <1>6, <3>1, <3>2, <3>3 DEF DeleteScan
    <2>3. CreationOK' /\ BootOK'
      <3>1. /\ UNCHANGED <<count, name, code, cpu>>
            /\ \A u \in Slots : at'[u] \in CreatePlaces => at'[u] = at[u] /\ u # t
        BY <1>6 DEF DeleteScan, CreatePlaces
      <3>2. \A u \in Slots : u # t => arg'[u] = arg[u]
        BY <1>6 DEF DeleteScan
      <3>3. count < MaxTasks /\ active[count] => active'[count]
        <4>1. active' = active \/ (active' = [active EXCEPT ![idx[t]] = FALSE] /\ idx[t] # count)
          BY <1>6 DEF DeleteScan
        <4>2. count < MaxTasks => count \in Slots
          OBVIOUS
        <4> QED
          BY <4>1, <4>2
      <3>4. CreationOK'
        <4>1. ASSUME NEW u \in Slots, at'[u] \in CreatePlaces
              PROVE  /\ code[u] = "shell" /\ count < MaxTasks
                     /\ at'[u] = "name" => arg'[u] \in Names
                     /\ at'[u] \in {"frame", "count"} => name[count] \in Names
                     /\ at'[u] = "count" => code[count] # "none" /\ active'[count]
          BY <3>1, <3>2, <3>3, <4>1 DEF CreationOK
        <4> QED
          BY <3>1, <4>1 DEF CreationOK, CreatePlaces
      <3>5. BootOK'
        BY <1>0, <3>1 DEF BootOK, Has
      <3> QED
        BY <3>4, <3>5
    <2>4. Creating' = Creating
      BY <1>0, <1>6 DEF DeleteScan, Creating
    <2>5. SlotsWhole'
      BY <1>0, <1>6, <2>1, <2>4 DEF DeleteScan, SlotsWhole, Counted
    <2> QED
      BY <2>2, <2>3, <2>5
  <1>7. CASE Sleep(t)
    <2>1. TypeOK'
      BY <1>7 DEF Sleep, tasktable
    <2>2. CreationOK' /\ BootOK'
      BY <1>0, <1>7 DEF Sleep, tasktable, CreationOK, BootOK, Has, CreatePlaces
    <2>3. SlotsWhole'
      BY <1>0, <1>7 DEF Sleep, tasktable, SlotsWhole, Counted, Creating
    <2> QED
      BY <2>1, <2>2, <2>3
  <1>8. CASE Wake(t)
    <2>1. TypeOK'
      BY <1>8 DEF Wake, tasktable
    <2>2. CreationOK' /\ BootOK'
      BY <1>0, <1>8 DEF Wake, tasktable, CreationOK, BootOK, Has, CreatePlaces
    <2>3. SlotsWhole'
      BY <1>0, <1>8 DEF Wake, tasktable, SlotsWhole, Counted, Creating
    <2> QED
      BY <2>1, <2>2, <2>3
  <1> QED
    BY <1>1, <1>2, <1>3, <1>4, <1>5, <1>6, <1>7, <1>8 DEF TaskStep, Continue

LEMMA SchedStep == SchedInv /\ [Next]_vars => SchedInv'
  <1>1. SchedInv /\ UNCHANGED vars => SchedInv'
    BY DEF SchedInv, TypeOK, CreationOK, BootOK, SlotsWhole, vars, tasktable,
           stacks, Counted, Creating, Has
  <1> QED
    BY <1>1, KmainStep, IrqStep, TaskStepInv DEF Next

(* The variables stay in their types: no creation goes past the last slot. *)
THEOREM TasksTypeCorrect == Spec => []TypeOK
  <1>1. SchedInv => TypeOK
    BY DEF SchedInv
  <1> QED
    BY SchedInit, SchedStep, <1>1, PTL DEF Spec

(* The tick finds a whole table wherever it hits a creation. *)
THEOREM SlotsAreWhole == Spec => []SlotsWhole
  <1>1. SchedInv => SlotsWhole
    BY DEF SchedInv
  <1> QED
    BY SchedInit, SchedStep, <1>1, PTL DEF Spec

(* After its quantum a stopped task is never heard of again. *)
THEOREM StoppedTasksStay == Spec => StoppedStays
  <1> DEFINE Stays == \A s \in Counted :
                        ~active[s] /\ ~Running(s) /\ cpu # "kmain" =>
                          ~active'[s] /\ ~Running(s)' /\ at'[s] = at[s]
  <1>1. SchedInv /\ [Next]_vars => Stays
    <2> SUFFICES ASSUME SchedInv, [Next]_vars, cpu # "kmain",
                        NEW s \in Counted, ~active[s], ~Running(s)
                 PROVE  ~active'[s] /\ ~Running(s)' /\ at'[s] = at[s]
      OBVIOUS
    <2>0. s \in Slots /\ s # count
      BY TasksAssumption DEF SchedInv, TypeOK, Counted, Slots
    <2>1. CASE Kmain
      BY <2>1 DEF Kmain, BootScript, KmainShell, KmainCounter, Jump
    <2>2. CASE Tick
      BY <2>2 DEF Tick, Running, tasktable
    <2>3. CASE Rotate
      BY <2>3 DEF Rotate, Running, tasktable, stacks
    <2>4. ASSUME NEW t \in Slots, TaskStep(t)
          PROVE  ~active'[s] /\ ~Running(s)' /\ at'[s] = at[s]
      <3>1. cpu = "task" /\ current = t /\ s # t
        BY <2>4 DEF TaskStep, Running
      <3>2. UNCHANGED <<current, cpu>>
        BY <2>4 DEF TaskStep, Continue, CreateCheck, NameTask, FrameTask, CountTask,
                    DeleteCheck, DeleteScan, Sleep, Wake
      <3>3. at'[s] = at[s]
        BY <2>0, <2>4, <3>1 DEF TaskStep, Continue, CreateCheck, NameTask, FrameTask,
             CountTask, DeleteCheck, DeleteScan, Sleep, Wake, SchedInv, TypeOK
      <3>4. ~active'[s]
        BY <2>0, <2>4 DEF TaskStep, Continue, CreateCheck, NameTask, FrameTask,
             CountTask, DeleteCheck, DeleteScan, Sleep, Wake, tasktable, SchedInv, TypeOK
      <3> QED
        BY <3>1, <3>2, <3>3, <3>4 DEF Running
    <2>5. CASE UNCHANGED vars
      BY <2>5 DEF vars, tasktable, stacks, Running
    <2> QED
      BY <2>1, <2>2, <2>3, <2>4, <2>5 DEF Next
  <1>2. Stays => [Stays]_vars
    OBVIOUS
  <1> QED
    BY <1>1, SchedInit, SchedStep, PTL DEF Spec, StoppedStays

-----------------------------------------------------------------------------
(* Refinement. *)

(* delet_task has passed over no task of the name it looks for. *)
ScanOK ==
  \A t \in Slots :
    /\ at[t] # "scan" => idx[t] = 0
    /\ at[t] = "scan" => idx[t] <= count
    /\ \A j \in 0 .. idx[t] - 1 : name[j] # arg[t]

LEMMA ScanStep == SchedInv /\ ScanOK /\ [Next]_vars => ScanOK'
  <1> SUFFICES ASSUME SchedInv, ScanOK, [Next]_vars
               PROVE  ScanOK'
    OBVIOUS
  <1> USE TasksAssumption DEF SchedInv, TypeOK, Slots
  <1>1. CASE Kmain
    <2>1. \A u \in Slots : idx[u] = 0
      BY <1>1 DEF Kmain, BootScript, KmainShell, KmainCounter, Jump, BootOK, ScanOK
    <2>2. UNCHANGED <<at, idx>>
      BY <1>1 DEF Kmain, BootScript, KmainShell, KmainCounter, Jump, stacks
    <2>3. \A u \in Slots : at[u] = "run"
      BY <1>1 DEF Kmain, BootScript, KmainShell, KmainCounter, Jump, BootOK
    <2>4. \A u \in Slots : at'[u] # "scan" /\ idx'[u] = 0
      BY <2>1, <2>2, <2>3
    <2> QED
      BY <2>4 DEF ScanOK
  <1>2. CASE Tick \/ Rotate \/ UNCHANGED vars
    <2>1. UNCHANGED <<count, name, at, idx, arg>>
      BY <1>2 DEF Tick, Rotate, vars, tasktable, stacks
    <2> QED
      BY <2>1 DEF ScanOK
  <1>3. ASSUME NEW t \in Slots, TaskStep(t)
        PROVE  ScanOK'
    <2>1. CASE CreateCheck(t)
      BY <2>1 DEF CreateCheck, tasktable, ScanOK
    <2>2. CASE NameTask(t)
      <3>1. \A u \in Slots : idx[u] <= count
        BY DEF ScanOK
      <3>2. \A j \in 0 .. count - 1 : name'[j] = name[j]
        BY <2>2 DEF NameTask
      <3>3. /\ UNCHANGED <<idx, count>>
            /\ \A u \in Slots : at'[u] = "scan" <=> at[u] = "scan"
            /\ \A u \in Slots : u # t => arg'[u] = arg[u]
            /\ idx[t] = 0
        BY <2>2 DEF NameTask, ScanOK
      <3>4. ASSUME NEW u \in Slots, NEW j \in 0 .. idx'[u] - 1
            PROVE  name'[j] # arg'[u]
        <4>1. u # t /\ j \in 0 .. idx[u] - 1 /\ j \in 0 .. count - 1
          BY <3>1, <3>3
        <4>2. name[j] # arg[u]
          BY <4>1 DEF ScanOK
        <4> QED
          BY <3>2, <3>3, <4>1, <4>2
      <3> QED
        BY <3>3, <3>4 DEF ScanOK
    <2>3. CASE FrameTask(t)
      BY <2>3 DEF FrameTask, ScanOK
    <2>4. CASE CountTask(t)
      BY <2>4 DEF CountTask, ScanOK
    <2>5. CASE DeleteCheck(t)
      <3>1. /\ at[t] = "run" /\ UNCHANGED <<count, name, idx>>
            /\ at'[t] = "scan" /\ \A u \in Slots \ {t} : at'[u] = at[u] /\ arg'[u] = arg[u]
        BY <2>5 DEF DeleteCheck, tasktable
      <3>2. idx'[t] = 0 /\ 0 <= count
        BY <3>1 DEF ScanOK
      <3>3. \A u \in Slots \ {t} : /\ at'[u] # "scan" => idx'[u] = 0
                                   /\ at'[u] = "scan" => idx'[u] <= count'
                                   /\ \A j \in 0 .. idx'[u] - 1 : name'[j] # arg'[u]
        BY <3>1 DEF ScanOK
      <3>4. \A j \in 0 .. idx'[t] - 1 : name'[j] # arg'[t]
        BY <3>2
      <3> QED
        BY <3>1, <3>2, <3>3, <3>4 DEF ScanOK
    <2>6. CASE DeleteScan(t)
      <3>0. /\ UNCHANGED <<count, name>> /\ at[t] = "scan"
            /\ \A u \in Slots \ {t} : idx'[u] = idx[u] /\ at'[u] = at[u] /\ arg'[u] = arg[u]
        BY <2>6 DEF DeleteScan
      <3>1. CASE idx[t] < count /\ name[idx[t]] # arg[t]
        <4>1. idx'[t] = idx[t] + 1 /\ at'[t] = "scan" /\ arg'[t] = arg[t]
          BY <2>6, <3>1 DEF DeleteScan
        <4>2. \A j \in 0 .. idx[t] : name[j] # arg[t]
          BY <3>1 DEF ScanOK
        <4>3. idx'[t] <= count /\ \A j \in 0 .. idx'[t] - 1 : name'[j] # arg'[t]
          BY <3>0, <3>1, <4>1, <4>2
        <4>4. \A u \in Slots \ {t} : /\ at'[u] # "scan" => idx'[u] = 0
                                     /\ at'[u] = "scan" => idx'[u] <= count'
                                     /\ \A j \in 0 .. idx'[u] - 1 : name'[j] # arg'[u]
          BY <3>0 DEF ScanOK
        <4> QED
          BY <3>0, <4>1, <4>3, <4>4 DEF ScanOK
      <3>2. CASE ~(idx[t] < count /\ name[idx[t]] # arg[t])
        <4>1. idx'[t] = 0 /\ at'[t] = "run"
          BY <2>6, <3>2 DEF DeleteScan
        <4>2. \A u \in Slots \ {t} : \A j \in 0 .. idx'[u] - 1 : name'[j] # arg'[u]
          BY <3>0 DEF ScanOK
        <4>3. \A j \in 0 .. idx'[t] - 1 : name'[j] # arg'[t]
          BY <4>1
        <4>4. \A u \in Slots \ {t} : /\ at'[u] # "scan" => idx'[u] = 0
                                     /\ at'[u] = "scan" => idx'[u] <= count'
          BY <3>0 DEF ScanOK
        <4> QED
          BY <4>1, <4>2, <4>3, <4>4 DEF ScanOK
      <3> QED
        BY <3>1, <3>2
    <2>7. CASE Sleep(t) \/ Wake(t)
      BY <2>7 DEF Sleep, Wake, tasktable, ScanOK
    <2> QED
      BY <1>3, <2>1, <2>2, <2>3, <2>4, <2>5, <2>6, <2>7 DEF TaskStep, Continue
  <1> QED
    BY <1>1, <1>2, <1>3 DEF Next

Row(i) == [name |-> name[i - 1], active |-> active[i - 1]]
Rows == [name : Names \cup {NoName}, active : BOOLEAN]

LEMMA TasksType ==
  ASSUME TypeOK
  PROVE  Tasks \in Seq(Rows) /\ Len(Tasks) = count
  <1>1. \A i \in 1 .. count : i - 1 \in Slots
    BY TasksAssumption DEF TypeOK, Slots
  <1>2. \A i \in 1 .. count : [name |-> name[i - 1], active |-> active[i - 1]] \in Rows
    BY <1>1 DEF TypeOK, Rows
  <1> QED
    BY <1>2 DEF Tasks, TypeOK

(* A new whole row at the end of the table is a creation. *)
LEMMA CreateRow ==
  ASSUME TypeOK, count < MaxTasks, count' = count + 1,
         NEW n \in Names, name'[count] = n, active'[count] = TRUE,
         \A s \in Counted : name'[s] = name[s] /\ active'[s] = active[s]
  PROVE  Table!Create
  <1>1. Tasks \in Seq(Rows) /\ Len(Tasks) = count /\ count \in Nat
    BY TasksType DEF TypeOK
  <1>2. [name |-> n, active |-> TRUE] \in Rows
    BY DEF Rows
  <1> DEFINE App == Append(Tasks, [name |-> n, active |-> TRUE])
  <1>3. /\ App \in Seq(Rows) /\ Len(App) = count + 1
        /\ \A i \in 1 .. count : App[i] = Tasks[i]
        /\ App[count + 1] = [name |-> n, active |-> TRUE]
    BY <1>1, <1>2, AppendProperties
  <1>4. Tasks' = [i \in 1 .. count + 1 |->
                    [name |-> name'[i - 1], active |-> active'[i - 1]]]
    BY DEF Tasks
  <1>5. \A i \in 1 .. count + 1 : Tasks'[i] = App[i]
    <2>1. \A i \in 1 .. count : Tasks'[i] = Tasks[i]
      BY <1>1, <1>4 DEF Tasks, Counted
    <2>2. Tasks'[count + 1] = [name |-> n, active |-> TRUE]
      <3>1. (count + 1) - 1 = count /\ count + 1 \in 1 .. count + 1
        BY <1>1
      <3>2. Tasks'[count + 1] = [name |-> name'[(count + 1) - 1],
                                 active |-> active'[(count + 1) - 1]]
        BY <1>4, <3>1
      <3> QED
        BY <3>1, <3>2
    <2> QED
      BY <1>1, <1>3, <2>1, <2>2
  <1>6. Tasks' \in Seq(Rows) /\ Len(Tasks') = count + 1
    <2>1. \A i \in 1 .. count + 1 : Tasks'[i] \in Rows
      BY <1>1, <1>3, <1>5, ElementOfSeq
    <2> QED
      BY <1>1, <1>4, <2>1
  <1>7. Tasks' = App
    BY <1>3, <1>5, <1>6, SeqEqual
  <1> QED
    BY <1>1, <1>7 DEF Table!Create

LEMMA TableStep == SchedInv /\ ScanOK /\ [Next]_vars => [Table!Next]_Tasks
  <1> SUFFICES ASSUME SchedInv, ScanOK, [Next]_vars
               PROVE  [Table!Next]_Tasks
    OBVIOUS
  <1> USE TasksAssumption, BootAssumption DEF SchedInv
  <1>1. CASE Kmain
    <2>1. ASSUME NEW n \in Names, NEW c, NewTask(n, c), count < MaxTasks
          PROVE  Table!Create
      <3>1. /\ count' = count + 1 /\ name'[count] = n /\ active'[count] = TRUE
            /\ \A s \in Counted : name'[s] = name[s] /\ active'[s] = active[s]
        <4>1. count \in Slots /\ Counted \subseteq Slots \ {count}
          BY <2>1 DEF TypeOK, Slots, Counted
        <4> QED
          BY <2>1, <4>1 DEF NewTask, TypeOK
      <3> QED
        BY <2>1, <3>1, CreateRow
    <2>2. CASE BootScript
      BY <2>1, <2>2 DEF BootScript, TypeOK, Table!Next
    <2>3. CASE KmainShell
      BY <2>1, <2>3, NameAssumption DEF KmainShell, BootOK, TypeOK, Table!Next
    <2>4. CASE KmainCounter
      BY <2>1, <2>4, NameAssumption DEF KmainCounter, BootOK, TypeOK, Table!Next
    <2>5. CASE Jump
      BY <2>5 DEF Jump, tasktable, Tasks
    <2> QED
      BY <1>1, <2>2, <2>3, <2>4, <2>5 DEF Kmain
  <1>2. CASE Tick \/ Rotate \/ UNCHANGED vars
    BY <1>2 DEF Tick, Rotate, vars, tasktable, Tasks
  <1>3. ASSUME NEW t \in Slots, TaskStep(t)
        PROVE  [Table!Next]_Tasks
    <2>1. CASE CreateCheck(t) \/ DeleteCheck(t) \/ Sleep(t) \/ Wake(t)
      BY <2>1 DEF CreateCheck, DeleteCheck, Sleep, Wake, tasktable, Tasks
    <2>2. CASE NameTask(t) \/ FrameTask(t)
      <3>1. /\ count' = count
            /\ \A i \in 1 .. count : name'[i - 1] = name[i - 1] /\ active'[i - 1] = active[i - 1]
        <4>1. count' = count
          BY <2>2 DEF NameTask, FrameTask
        <4>2. /\ \E n : name' = [name EXCEPT ![count] = n] \/ name' = name
              /\ \E b : active' = [active EXCEPT ![count] = b] \/ active' = active
          BY <2>2 DEF NameTask, FrameTask
        <4>3. \A i \in 1 .. count : i - 1 \in Slots /\ i - 1 # count
          BY DEF TypeOK, Slots
        <4>4. \A s \in Slots \ {count} : name'[s] = name[s] /\ active'[s] = active[s]
          BY <4>2 DEF TypeOK
        <4> QED
          BY <4>1, <4>3, <4>4
      <3>2. Tasks' = [i \in 1 .. count |-> [name |-> name'[i - 1], active |-> active'[i - 1]]]
        BY <3>1 DEF Tasks
      <3>3. Tasks' = [i \in 1 .. count |-> [name |-> name[i - 1], active |-> active[i - 1]]]
        BY <3>1, <3>2
      <3> QED
        BY <3>3 DEF Tasks
    <2>3. CASE CountTask(t)
      BY <2>3, CreateRow DEF CountTask, CreationOK, CreatePlaces, Table!Next
    <2>4. CASE DeleteScan(t)
      <3>1. CASE idx[t] < count /\ name[idx[t]] = arg[t]
        <4> DEFINE i == idx[t] + 1
        <4>1. i \in 1 .. count /\ i - 1 = idx[t] /\ count \in Nat
          BY <3>1 DEF TypeOK
        <4>2. active' = [active EXCEPT ![i - 1] = FALSE] /\ UNCHANGED <<count, name>>
          BY <2>4, <3>1, <4>1 DEF DeleteScan
        <4>3. \A j \in 1 .. i - 1 : Tasks[j].name # Tasks[i].name
          <5> SUFFICES ASSUME NEW j \in 1 .. i - 1
                       PROVE  Tasks[j].name # Tasks[i].name
            OBVIOUS
          <5>1. \A l \in 0 .. idx[t] - 1 : name[l] # arg[t]
            BY DEF ScanOK
          <5>2. j - 1 \in 0 .. idx[t] - 1 /\ j \in 1 .. count
            BY <4>1
          <5>3. Tasks[j].name = name[j - 1] /\ Tasks[i].name = name[i - 1]
            BY <4>1, <5>2 DEF Tasks
          <5>4. name[i - 1] = arg[t]
            BY <3>1, <4>1
          <5> HIDE DEF i
          <5> QED
            BY <5>1, <5>2, <5>3, <5>4
        <4>4. Tasks' = [Tasks EXCEPT ![i].active = FALSE]
          <5>1. \A j \in 1 .. count : j - 1 \in Slots
            BY DEF TypeOK, Slots
          <5>2. Tasks' = [j \in 1 .. count |->
                            [name |-> name[j - 1], active |-> active'[j - 1]]]
            BY <4>2 DEF Tasks
          <5>3. \A j \in 1 .. count : active'[j - 1] = IF j = i THEN FALSE ELSE active[j - 1]
            <6> SUFFICES ASSUME NEW j \in 1 .. count
                         PROVE  active'[j - 1] = IF j = i THEN FALSE ELSE active[j - 1]
              OBVIOUS
            <6>1. j - 1 \in Slots /\ i - 1 \in Slots /\ (j - 1 = i - 1 <=> j = i)
              BY <4>1, <5>1
            <6> QED
              BY <4>2, <6>1 DEF TypeOK
          <5> QED
            BY <4>1, <5>2, <5>3 DEF Tasks
        <4> HIDE DEF i
        <4> QED
          BY <4>1, <4>3, <4>4, TasksType DEF Table!Delete, Table!Next
      <3>2. CASE ~(idx[t] < count /\ name[idx[t]] = arg[t])
        BY <2>4, <3>2 DEF DeleteScan, Tasks
      <3> QED
        BY <3>1, <3>2
    <2> QED
      BY <1>3, <2>1, <2>2, <2>3, <2>4 DEF TaskStep, Continue
  <1> QED
    BY <1>1, <1>2, <1>3 DEF Next

(* Preempted at any of their steps, creat_task_path and delet_task act on  *)
(* the table as the atomic ones of TaskTable.                              *)
THEOREM TaskTableRefined == Spec => TaskTableSpec
  <1>1. Init => ScanOK
    BY TasksAssumption DEF Init, ScanOK, Slots
  <1>2. Init => Table!Init
    BY DEF Init, Table!Init, Tasks
  <1> QED
    BY <1>1, <1>2, SchedInit, SchedStep, ScanStep, TableStep, PTL
    DEF Spec, TaskTableSpec, Table!Spec
=============================================================================
