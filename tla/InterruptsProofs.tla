-------------------------- MODULE InterruptsProofs --------------------------
(***************************************************************************)
(* Theorems about Interrupts, for any number of tasks and any wiring.      *)
(***************************************************************************)
EXTENDS Interrupts, TLAPS

(* What is in service is what the handler that runs has not ended yet, and *)
(* interrupts are let through in the code of tasks only.                   *)
ServiceOK ==
  /\ iflag <=> cpu = "task"
  /\ cpu = "timer" => irq = 0 /\ isr = {0}
  /\ cpu = "read" => irq = 1 /\ isr = {1}
  /\ cpu = "eoi" => \/ irq < 8 /\ isr \in {{irq}, {}}
                    \/ irq >= 8 /\ isr \in {{irq, 2}, {2}}
  /\ cpu = "eoi1" => \/ irq < 8 /\ isr \in {{irq}, {}}
                     \/ irq >= 8 /\ isr = {2}
  /\ cpu \notin {"timer", "read", "eoi", "eoi1"} => isr = {}

(* The frame a task resumes from. *)
Frame(t) == [at |-> "task", irq |-> 0, regs |-> <<t, owns[t]>>]

(* Every task but the one that has the CPU has exactly its own frame on    *)
(* its own stack, and its rsp points there.                                *)
FramesOK ==
  /\ cpu \in {"gdt", "idt", "pic"} => count = 0
  /\ cpu \notin Boot => count = NumTasks
  /\ \A t \in Tasks : t < count => rsp[t] = t
  /\ \A t \in Tasks :
       t < count /\ cpu # "halted" /\ ~(cpu = "task" /\ t = current) =>
         stack[t] = <<Frame(t)>>
  /\ cpu = "task" =>
       irq = 0 /\ regs = <<current, owns[current]>> /\ stack[current] = <<>>
  /\ cpu \notin Boot \cup {"search"} => sp = current

IInv == TypeOK /\ ServiceOK /\ FramesOK

-----------------------------------------------------------------------------
(* An EOI takes the only line a controller has in service. *)
LEMMA EoiOfOne ==
  ASSUME NEW l, NEW busy, l \in 0 .. 15, busy \in {{l}, {}}
  PROVE  AfterEoi(busy) = isr \ busy
BY DEF AfterEoi

LEMMA FrameType ==
  ASSUME TypeOK, NEW t \in Tasks
  PROVE  Frame(t) \in Frames
BY DEF Frame, Frames, TypeOK, Places, Contexts

LEMMA InitInv == Init => IInv
<1> SUFFICES ASSUME Init PROVE IInv OBVIOUS
<1>0. 0 \in Tasks BY TaskAssumption DEF Tasks
<1>1. TypeOK
  BY <1>0, TaskAssumption DEF Init, TypeOK, Places, Boot, Tasks
<1>2. ServiceOK BY DEF Init, ServiceOK
<1>3. FramesOK BY TaskAssumption DEF Init, FramesOK, Boot, Tasks
<1> QED BY <1>1, <1>2, <1>3 DEF IInv

-----------------------------------------------------------------------------
(* Steps that leave the stacks alone. *)
LEMMA DeviceStep ==
  ASSUME IInv, NEW l \in Lines, Raise(l) \/ Withdraw(l)
  PROVE  IInv'
<1>1. TypeOK'
  BY DEF Raise, Withdraw, IInv, TypeOK, processor, tasks, Remapped
<1>2. ServiceOK'
  BY DEF Raise, Withdraw, IInv, ServiceOK, processor, tasks
<1>3. FramesOK'
  BY DEF Raise, Withdraw, IInv, FramesOK, Frame, processor, tasks
<1> QED BY <1>1, <1>2, <1>3 DEF IInv

LEMMA SetUpStep ==
  ASSUME IInv, SetUp
  PROVE  IInv'
<1>1. TypeOK' BY DEF SetUp, IInv, TypeOK, chips, tasks, Places, Boot
<1>2. ServiceOK' BY DEF SetUp, IInv, ServiceOK, chips, tasks
<1>3. FramesOK' BY DEF SetUp, IInv, FramesOK, Frame, chips, tasks, Boot
<1> QED BY <1>1, <1>2, <1>3 DEF IInv

LEMMA EoiStep ==
  ASSUME IInv, ReadKey \/ EoiSecond \/ EoiFirst \/ Tick
  PROVE  IInv'
<1> USE DEF Goto
<1>a. CASE ReadKey
  <2>1. TypeOK' BY <1>a DEF ReadKey, IInv, TypeOK, tasks, Places, Handler
  <2>2. ServiceOK' BY <1>a DEF ReadKey, IInv, ServiceOK
  <2>3. FramesOK' BY <1>a DEF ReadKey, IInv, FramesOK, Frame, tasks, Boot
  <2> QED BY <2>1, <2>2, <2>3 DEF IInv
<1>b. CASE EoiSecond
  <2>1. TypeOK'
    BY <1>b DEF EoiSecond, IInv, TypeOK, tasks, Places, Handler, AfterEoi
  <2>2. ServiceOK'
    <3>1. irq \in 0 .. 15 BY DEF IInv, TypeOK
    <3>2. CASE irq < 8 BY <1>b, <3>1, <3>2 DEF EoiSecond, IInv, ServiceOK
    <3>3. CASE irq >= 8
      <4>1. isr \in {{irq, 2}, {2}}
        BY <1>b, <3>1, <3>3 DEF EoiSecond, IInv, ServiceOK
      <4>2. Second \in {{irq}, {}} BY <3>1, <3>3, <4>1 DEF Second
      <4>3. isr' = isr \ Second
        BY <1>b, <3>1, <3>3, <4>2, EoiOfOne DEF EoiSecond
      <4>4. isr' = {2} BY <3>1, <3>3, <4>1, <4>3 DEF Second
      <4> QED BY <1>b, <3>1, <3>3, <4>4 DEF EoiSecond, IInv, ServiceOK
    <3> QED BY <3>1, <3>2, <3>3
  <2>3. FramesOK' BY <1>b DEF EoiSecond, IInv, FramesOK, Frame, tasks, Boot
  <2> QED BY <2>1, <2>2, <2>3 DEF IInv
<1>c. CASE EoiFirst
  <2>1. TypeOK'
    BY <1>c DEF EoiFirst, IInv, TypeOK, tasks, Places, Handler, AfterEoi
  <2>2. ServiceOK'
    <3>1. irq \in 0 .. 15 BY DEF IInv, TypeOK
    <3>2. PICK l \in 0 .. 15 : isr \in {{l}, {}} /\ l < 8
      BY <1>c, <3>1 DEF EoiFirst, IInv, ServiceOK
    <3>3. First = isr BY <3>2 DEF First
    <3>4. isr' = {} BY <1>c, <3>2, <3>3, EoiOfOne DEF EoiFirst
    <3> QED BY <1>c, <3>4 DEF EoiFirst, IInv, ServiceOK
  <2>3. FramesOK' BY <1>c DEF EoiFirst, IInv, FramesOK, Frame, tasks, Boot
  <2> QED BY <2>1, <2>2, <2>3 DEF IInv
<1>d. CASE Tick
  <2>0. count # 0 /\ count = NumTasks
    BY <1>d, TaskAssumption DEF Tick, IInv, FramesOK, Boot
  <2>1. TypeOK'
    BY <1>d, <2>0 DEF Tick, IInv, TypeOK, tasks, Places, Handler, AfterEoi
  <2>2. ServiceOK'
    <3>1. isr = {0} /\ First = isr
      BY <1>d DEF Tick, IInv, ServiceOK, First
    <3>2. isr' = {} BY <1>d, <2>0, <3>1, EoiOfOne DEF Tick
    <3> QED BY <1>d, <2>0, <3>2 DEF Tick, IInv, ServiceOK
  <2>3. FramesOK' BY <1>d, <2>0 DEF Tick, IInv, FramesOK, Frame, tasks, Boot
  <2> QED BY <2>1, <2>2, <2>3 DEF IInv
<1> QED BY <1>a, <1>b, <1>c, <1>d

LEMMA SaveStep ==
  ASSUME IInv, Save
  PROVE  IInv'
<1> USE DEF Goto
<1>1. sp = current /\ count = NumTasks /\ current \in Tasks
  BY DEF Save, IInv, TypeOK, FramesOK, Boot
<1>2. TypeOK' BY DEF Save, IInv, TypeOK, chips, Places, Handler
<1>3. ServiceOK' BY DEF Save, IInv, ServiceOK, chips
<1>4. rsp' = rsp
  BY <1>1 DEF Save, IInv, TypeOK, FramesOK, Tasks
<1>5. FramesOK' BY <1>4 DEF Save, IInv, FramesOK, Frame, Boot
<1> QED BY <1>2, <1>3, <1>5 DEF IInv

LEMMA SearchStep ==
  ASSUME IInv, Search
  PROVE  IInv'
<1>1. count = NumTasks BY DEF Search, IInv, FramesOK, Boot
<1>2. current' \in Tasks
  BY <1>1, TaskAssumption DEF Search, IInv, TypeOK, Tasks
<1>3. rsp[current'] = current'
  BY <1>1, <1>2, TaskAssumption DEF IInv, FramesOK, Tasks
<1>4. TypeOK'
  BY <1>2 DEF Search, IInv, TypeOK, chips, Places, Handler
<1>5. ServiceOK' BY DEF Search, IInv, ServiceOK, chips
<1>6. FramesOK'
  <2>1. /\ UNCHANGED <<count, rsp, stack, owns>>
        /\ cpu = "search" /\ cpu' \in {"search", "return"}
        /\ cpu' = "return" => sp' = current'
    BY <1>3 DEF Search
  <2> QED BY <1>1, <2>1 DEF IInv, FramesOK, Frame, Boot
<1> QED BY <1>4, <1>5, <1>6 DEF IInv

-----------------------------------------------------------------------------
(* Steps that push and pop frames. *)
LEMMA CreateStep ==
  ASSUME IInv, Create
  PROVE  IInv'
<1>1. count \in Tasks BY TaskAssumption DEF Create, IInv, TypeOK, Tasks
<1>2. Frame(count) \in Frames BY <1>1, FrameType DEF IInv
<1>3. stack' = [stack EXCEPT ![count] = <<Frame(count)>>] /\ owns' = owns
  BY DEF Create, Frame
<1>4. TypeOK'
  <2>1. <<Frame(count)>> \in Seq(Frames) BY <1>2
  <2>2. stack' \in [Tasks -> Seq(Frames)]
    BY <1>1, <1>3, <2>1 DEF IInv, TypeOK
  <2>3. count' \in 0 .. NumTasks BY TaskAssumption DEF Create, IInv, TypeOK
  <2> QED BY <1>1, <2>2, <2>3 DEF Create, IInv, TypeOK, chips, processor
<1>5. ServiceOK' BY DEF Create, IInv, ServiceOK, chips, processor
<1>6. FramesOK'
  <2>1. cpu' = "create" /\ cpu = "create" /\ count' = count + 1
    BY DEF Create, processor
  <2>2. rsp' = [rsp EXCEPT ![count] = count] BY DEF Create
  <2>3. ASSUME NEW t \in Tasks, t < count'
        PROVE  rsp'[t] = t /\ stack'[t] = <<Frame(t)>>'
    <3>1. t < count \/ t = count BY <1>1, <2>1, <2>3 DEF Tasks
    <3>2. Frame(t)' = Frame(t) BY <1>3 DEF Frame
    <3> QED
      BY <1>1, <1>3, <2>1, <2>2, <3>1, <3>2 DEF IInv, TypeOK, FramesOK, Tasks
  <2> QED BY <2>1, <2>3 DEF FramesOK, Boot
<1> QED BY <1>4, <1>5, <1>6 DEF IInv

(* A pop resumes the task whose frame is on top. *)
LEMMA PopStep ==
  ASSUME IInv, NEW s \in Tasks, Pop(s), s < count, stack[s] = <<Frame(s)>>,
         count' = count, current' = s, owns' = owns,
         cpu \in {"create", "return"}, count = NumTasks,
         UNCHANGED <<chips, active, rsp>>
  PROVE  IInv'
<1>1. /\ cpu' = "task" /\ irq' = 0 /\ iflag' = TRUE
      /\ regs' = <<s, owns[s]>> /\ sp' = s
      /\ stack' = [stack EXCEPT ![s] = SubSeq(stack[s], 1, 0)]
  BY DEF Pop, Frame
<1>2. SubSeq(stack[s], 1, 0) = << >> OBVIOUS
<1>3. stack' = [stack EXCEPT ![s] = << >>] BY <1>1, <1>2
<1>4. TypeOK'
  <2>1. <<s, owns[s]>> \in Contexts BY DEF IInv, TypeOK, Contexts
  <2>2. << >> \in Seq(Frames) OBVIOUS
  <2>3. stack' \in [Tasks -> Seq(Frames)] BY <1>3, <2>2 DEF IInv, TypeOK
  <2> QED BY <1>1, <2>1, <2>3 DEF IInv, TypeOK, chips, Places
<1>5. ServiceOK'
  BY <1>1 DEF IInv, ServiceOK, chips
<1>6. FramesOK'
  BY <1>1, <1>3 DEF IInv, TypeOK, FramesOK, Frame, Boot
<1> QED BY <1>4, <1>5, <1>6 DEF IInv

LEMMA JumpStep ==
  ASSUME IInv, Jump
  PROVE  IInv'
<1>1. 0 \in Tasks /\ 0 < count /\ count = NumTasks
  BY TaskAssumption DEF Jump, Tasks
<1>2. rsp[0] = 0 /\ stack[0] = <<Frame(0)>> /\ cpu = "create"
  BY <1>1 DEF Jump, IInv, FramesOK
<1> QED BY <1>1, <1>2, PopStep DEF Jump

LEMMA ReturnStep ==
  ASSUME IInv, Return
  PROVE  IInv'
<1>1. cpu = "return" /\ count = NumTasks /\ sp = current /\ current \in Tasks
  BY DEF Return, IInv, TypeOK, FramesOK, Boot
<1>2. current < count /\ stack[current] = <<Frame(current)>>
  BY <1>1, TaskAssumption DEF IInv, FramesOK, Tasks
<1> QED BY <1>1, <1>2, PopStep DEF Return, tasks

(* What goes through a gate saves the task that ran on its own stack. *)
LEMMA EnterStep ==
  ASSUME IInv, cpu = "task", NEW l \in 0 .. 15, NEW place \in Handler \cup {"halted"},
         Enter(l, place), UNCHANGED <<tasks, owns>>, place # "search"
  PROVE  FramesOK' /\ stack' \in [Tasks -> Seq(Frames)]
<1>1. /\ sp = current /\ current \in Tasks /\ stack[current] = << >>
      /\ irq = 0 /\ regs = <<current, owns[current]>>
  BY DEF IInv, TypeOK, FramesOK, Boot
<1>2. [at |-> cpu, irq |-> irq, regs |-> regs] = Frame(current)
  BY <1>1 DEF Frame
<1>3. Append(stack[current], Frame(current)) = <<Frame(current)>>
  BY <1>1
<1>4. stack' = [stack EXCEPT ![current] = <<Frame(current)>>]
  BY <1>1, <1>2, <1>3 DEF Enter
<1>5. <<Frame(current)>> \in Seq(Frames) BY <1>1, FrameType DEF IInv
<1>6. stack' \in [Tasks -> Seq(Frames)]
  BY <1>1, <1>4, <1>5 DEF IInv, TypeOK
<1>7. cpu' = place /\ sp' = sp BY DEF Enter
<1>8. cpu' \notin Boot /\ cpu' # "task" BY <1>7 DEF Boot, Handler
<1>9. ASSUME NEW t \in Tasks, t < count PROVE stack'[t] = <<Frame(t)>>'
  <2>1. Frame(t)' = Frame(t) BY DEF Frame
  <2> QED BY <1>1, <1>4, <1>9, <2>1 DEF IInv, TypeOK, FramesOK
<1> QED BY <1>1, <1>6, <1>7, <1>8, <1>9 DEF IInv, FramesOK, tasks, Boot

LEMMA GateStep ==
  ASSUME IInv,
         Fault \/ \E l \in Lines : Acknowledge(l) \/ Spurious(l)
  PROVE  IInv'
<1>1. cpu = "task" /\ isr = {}
  BY DEF Fault, Acknowledge, Spurious, IInv, ServiceOK
<1>a. CASE Fault
  <2>1. Enter(irq, "halted") /\ irq \in 0 .. 15 /\ UNCHANGED <<chips, tasks, owns>>
    BY <1>a DEF Fault, IInv, TypeOK
  <2>2. FramesOK' /\ stack' \in [Tasks -> Seq(Frames)] BY <1>1, <2>1, EnterStep
  <2>3. TypeOK'
    BY <2>1, <2>2 DEF Enter, IInv, TypeOK, chips, tasks, Places
  <2>4. ServiceOK' BY <1>1, <2>1 DEF Enter, chips, ServiceOK
  <2> QED BY <2>2, <2>3, <2>4 DEF IInv
<1>b. ASSUME NEW l \in Lines, Acknowledge(l) PROVE IInv'
  <2>1. /\ Enter(l, StubOf(l)) /\ UNCHANGED <<tasks, owns>>
        /\ l \in 0 .. 15 /\ l # 2
        /\ StubOf(l) \in {"timer", "read", "eoi"}
    BY <1>b, LineAssumption DEF Acknowledge, StubOf
  <2>2. FramesOK' /\ stack' \in [Tasks -> Seq(Frames)]
    BY <1>1, <2>1, EnterStep DEF Handler
  <2>3. isr' = {l} \cup {m \in {2} : l >= 8} BY <1>1, <1>b DEF Acknowledge
  <2>4. /\ cpu' = StubOf(l) /\ irq' = l /\ iflag' = FALSE
        /\ regs' = Clobbered /\ sp' = sp
    BY <2>1 DEF Enter
  <2>5. TypeOK'
    <3>1. isr' \subseteq Lines \cup {2} BY <2>3
    <3>2. irr' \subseteq Lines /\ UNCHANGED <<key, rested>>
      BY <1>b DEF Acknowledge, IInv, TypeOK
    <3>3. cpu' \in Places BY <2>1, <2>4 DEF Places, Handler
    <3> QED BY <2>1, <2>2, <2>4, <3>1, <3>2, <3>3 DEF IInv, TypeOK, tasks
  <2>6. l = 0 => ServiceOK'
    BY <2>3, <2>4 DEF StubOf, ServiceOK
  <2>7. l = 1 => ServiceOK'
    BY <2>3, <2>4 DEF StubOf, ServiceOK
  <2>8. ASSUME l \notin {0, 1} PROVE ServiceOK'
    <3>1. l < 8 => isr' = {l} BY <2>1, <2>3
    <3>2. l >= 8 => isr' = {l, 2} BY <2>1, <2>3
    <3>3. cpu' = "eoi" BY <2>4, <2>8 DEF StubOf
    <3> QED BY <2>1, <2>4, <3>1, <3>2, <3>3 DEF ServiceOK
  <2> QED BY <2>2, <2>5, <2>6, <2>7, <2>8 DEF IInv
<1>c. ASSUME NEW l \in Lines, Spurious(l) PROVE IInv'
  <2> DEFINE n == IF l < 8 THEN 7 ELSE 15
  <2>1. Enter(n, "eoi") /\ UNCHANGED <<tasks, owns>> /\ n \in 0 .. 15
    BY <1>c DEF Spurious
  <2>2. FramesOK' /\ stack' \in [Tasks -> Seq(Frames)]
    BY <1>1, <2>1, EnterStep DEF Handler
  <2>3. isr' = {m \in {2} : l >= 8} BY <1>1, <1>c DEF Spurious
  <2>4. /\ cpu' = "eoi" /\ irq' = n /\ iflag' = FALSE
        /\ regs' = Clobbered /\ sp' = sp
    BY <2>1 DEF Enter
  <2>5. TypeOK'
    <3>1. isr' \subseteq Lines \cup {2} BY <2>3
    <3>2. irr' \subseteq Lines /\ UNCHANGED <<key, rested>>
      BY <1>c DEF Spurious, IInv, TypeOK
    <3>3. cpu' \in Places BY <2>4 DEF Places, Handler
    <3> QED BY <2>1, <2>2, <2>4, <3>1, <3>2, <3>3 DEF IInv, TypeOK, tasks
  <2>6. l \in 0 .. 15 BY LineAssumption
  <2>7. ASSUME l < 8 PROVE ServiceOK'
    <3>1. isr' = {} /\ irq' = 7 BY <2>3, <2>4, <2>6, <2>7
    <3> QED BY <2>4, <3>1 DEF ServiceOK
  <2>8. ASSUME l >= 8 PROVE ServiceOK'
    <3>1. isr' = {2} /\ irq' = 15 BY <2>3, <2>4, <2>6, <2>8
    <3> QED BY <2>4, <3>1 DEF ServiceOK
  <2> QED BY <2>2, <2>5, <2>6, <2>7, <2>8 DEF IInv
<1> QED BY <1>a, <1>b, <1>c

LEMMA TaskStep ==
  ASSUME IInv, Step \/ \E t \in Tasks : Stop(t)
  PROVE  IInv'
<1>1. cpu = "task" /\ cpu' = cpu BY DEF Step, Stop, processor
<1>a. CASE Step
  <2>1. PICK v \in Values : /\ owns' = [owns EXCEPT ![current] = v]
                            /\ regs' = <<current, v>>
    BY <1>a DEF Step
  <2>2. current \in Tasks BY DEF IInv, TypeOK
  <2>3. TypeOK'
    BY <1>a, <2>1, <2>2 DEF Step, IInv, TypeOK, tasks, Contexts
  <2>4. ServiceOK' BY <1>a DEF Step, IInv, ServiceOK
  <2>5. FramesOK'
    <3>1. \A t \in Tasks : t # current => Frame(t)' = Frame(t)
      BY <2>1, <2>2 DEF IInv, TypeOK, Frame
    <3>2. regs' = <<current, owns'[current]>>
      BY <2>1, <2>2 DEF IInv, TypeOK
    <3>3. UNCHANGED <<count, current, rsp, stack, sp, cpu, irq>>
      BY <1>a DEF Step, tasks
    <3> QED BY <1>1, <3>1, <3>2, <3>3 DEF IInv, FramesOK, Boot
  <2> QED BY <2>3, <2>4, <2>5 DEF IInv
<1>b. ASSUME NEW t \in Tasks, Stop(t) PROVE IInv'
  <2>1. TypeOK' BY <1>b DEF Stop, IInv, TypeOK, chips, processor
  <2>2. ServiceOK' BY <1>b DEF Stop, IInv, ServiceOK, chips, processor
  <2>3. FramesOK' BY <1>b DEF Stop, IInv, FramesOK, Frame, processor
  <2> QED BY <2>1, <2>2, <2>3 DEF IInv
<1> QED BY <1>a, <1>b

LEMMA StepInv == IInv /\ [Next]_vars => IInv'
<1> SUFFICES ASSUME IInv, [Next]_vars PROVE IInv' OBVIOUS
<1>1. CASE UNCHANGED vars
  BY <1>1 DEF IInv, TypeOK, ServiceOK, FramesOK, Frame, vars, chips, processor, tasks
<1>2. CASE \E l \in Lines : Raise(l) \/ Withdraw(l) BY <1>2, DeviceStep
<1>3. CASE Fault \/ \E l \in Lines : Acknowledge(l) \/ Spurious(l)
  BY <1>3, GateStep
<1>4. CASE Step \/ \E t \in Tasks : Stop(t) BY <1>4, TaskStep
<1>5. CASE Code
  BY <1>4, <1>5, SetUpStep, CreateStep, JumpStep, EoiStep, SaveStep, SearchStep,
     ReturnStep DEF Code
<1> QED BY <1>1, <1>2, <1>3, <1>4, <1>5 DEF Next

-----------------------------------------------------------------------------
(* The inductive invariant. *)
THEOREM Invariant == Spec => []IInv
BY InitInv, StepInv, PTL DEF Spec

(* The variables stay in their types. *)
THEOREM TypeCorrect == Spec => []TypeOK
<1>1. IInv => TypeOK BY DEF IInv
<1> QED BY <1>1, Invariant, PTL

(* Nothing is in service while interrupts are let through. *)
THEOREM ServiceEnds == Spec => []NothingLeft
<1>1. IInv => NothingLeft BY DEF IInv, ServiceOK, NothingLeft
<1> QED BY <1>1, Invariant, PTL

(* A task that has the CPU has its own registers and its own stack. *)
THEOREM TasksKeepTheirState == Spec => []TaskStateKept
<1>1. IInv => TaskStateKept
  BY DEF IInv, FramesOK, TaskStateKept, Boot
<1> QED BY <1>1, Invariant, PTL

(* An EOI ends the service of its own line only. *)
THEOREM EoiEndsItsOwn == Spec => EoiIsOwn
<1> DEFINE Own == \A l \in isr \ isr' : l = irq \/ (l = 2 /\ irq >= 8)
<1>1. ASSUME IInv, [Next]_vars PROVE [Own]_vars
  <2> SUFFICES ASSUME NEW m \in isr, m \notin isr'
               PROVE  m = irq \/ (m = 2 /\ irq >= 8)
    OBVIOUS
  <2>1. cpu \in {"eoi", "eoi1", "timer"}
    BY <1>1 DEF Next, Code, vars, chips, Raise, Withdraw, Acknowledge, Spurious,
       SetUp, Create, Jump, Pop, ReadKey, EoiSecond, EoiFirst, Tick, Save, Search,
       Return, Step, Stop, Fault, Goto
  <2>2. irq \in 0 .. 15 BY <1>1 DEF IInv, TypeOK
  <2>3. cpu = "timer" => irq = 0 /\ isr = {0} BY <1>1 DEF IInv, ServiceOK
  <2>4. cpu # "timer" => isr \subseteq {irq} \/ (irq >= 8 /\ isr \subseteq {irq, 2})
    BY <1>1, <2>1, <2>2 DEF IInv, ServiceOK
  <2> QED BY <2>1, <2>3, <2>4
<1> QED BY <1>1, Invariant, PTL DEF Spec, EoiIsOwn
=============================================================================
