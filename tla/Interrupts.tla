----------------------------- MODULE Interrupts -----------------------------
(***************************************************************************)
(* How an interrupt comes and goes: the two 8259 controllers as pic.c sets *)
(* them up, the gates of idt.c, the stubs of isr.asm with the frames they  *)
(* push and pop, irq_handler, and schedule of pit.c.  What a task computes *)
(* is a value that its steps change; a frame holds that value, and a       *)
(* handler leaves nothing of it in the registers.                          *)
(***************************************************************************)
EXTENDS Integers, Sequences

CONSTANTS
  NumTasks,   \* the tasks kmain creates
  Lines,      \* the lines something is wired to: 0 is the PIT, 1 the keyboard
  Values,     \* what a task may have computed
  Clobbered   \* registers as a handler leaves them

ASSUME TaskAssumption == NumTasks \in Nat \ {0}
ASSUME LineAssumption == Lines \subseteq (0 .. 15) \ {2}

Tasks == 0 .. NumTasks - 1
Contexts == Tasks \X Values
ASSUME ContextAssumption == Clobbered \notin Contexts

VARIABLES
  \* the controllers and what is wired to them
  irr,      \* lines that ask and have not been acknowledged
  isr,      \* lines in service, with 2 for the second controller
  key,      \* the keyboard controller holds a byte
  rested,   \* lines that may ask again, see Raise
  \* the processor
  cpu,      \* whose code runs, and where in it
  irq,      \* the line whose handler runs
  iflag,    \* IF: interrupts are let through
  regs,     \* the registers
  sp,       \* the task whose stack rsp points into
  \* the tasks
  count, current, active,
  rsp,      \* tasks[].rsp: the task whose stack it points into
  stack,    \* task -> the frames on its stack
  owns      \* history: what each task has computed

chips == <<irr, isr, key, rested>>
processor == <<cpu, irq, iflag, regs, sp>>
tasks == <<count, current, active, rsp>>
vars == <<chips, processor, tasks, stack, owns>>

Boot == {"gdt", "idt", "pic", "create"}
Handler == {"read", "eoi", "eoi1", "timer", "save", "search", "return"}
Places == Boot \cup Handler \cup {"task", "halted"}
Frames == [at : Places, irq : 0 .. 15, regs : Contexts \cup {Clobbered}]

TypeOK ==
  /\ irr \subseteq Lines /\ isr \subseteq Lines \cup {2}
  /\ key \in BOOLEAN /\ rested \subseteq Lines
  /\ cpu \in Places /\ irq \in 0 .. 15 /\ iflag \in BOOLEAN
  /\ regs \in Contexts \cup {Clobbered} /\ sp \in Tasks
  /\ count \in 0 .. NumTasks /\ current \in Tasks
  /\ active \in [Tasks -> BOOLEAN] /\ rsp \in [Tasks -> Tasks]
  /\ stack \in [Tasks -> Seq(Frames)] /\ owns \in [Tasks -> Values]

(* Limine enters kmain with interrupts off.                                *)
Init ==
  /\ irr = {} /\ isr = {} /\ key = FALSE /\ rested = Lines
  /\ cpu = "gdt" /\ irq = 0 /\ iflag = FALSE /\ regs = Clobbered /\ sp = 0
  /\ count = 0 /\ current = 0
  /\ active = [t \in Tasks |-> FALSE] /\ rsp = [t \in Tasks |-> 0]
  /\ stack = [t \in Tasks |-> <<>>] /\ owns \in [Tasks -> Values]

-----------------------------------------------------------------------------
(* What is wired to the lines, and the controllers.                        *)

Remapped == cpu \notin {"gdt", "idt", "pic"}

(* A device asks.  pic_remap has unmasked every line, and drops what asked *)
(* before it.  The devices are slow beside the handlers: none asks twice   *)
(* without a step of a task between.  The keyboard controller asks for a   *)
(* byte and asks for no other until that one is read.                      *)
Raise(l) ==
  /\ Remapped /\ l \in rested \ irr
  /\ l = 1 => ~key
  /\ irr' = irr \cup {l} /\ rested' = rested \ {l}
  /\ key' = (key \/ l = 1)
  /\ UNCHANGED <<isr, processor, tasks, stack, owns>>

(* It asks no more before it was acknowledged: the output of the PIT falls *)
(* by itself, a disk is content when its status was read.                  *)
Withdraw(l) ==
  /\ l \in irr \ {1}
  /\ irr' = irr \ {l}
  /\ UNCHANGED <<isr, key, rested, processor, tasks, stack, owns>>

(* A controller grants the first line that asks if none of those in        *)
(* service comes before it; the second one asks through line 2.            *)
Grants(asks, busy, l) ==
  l \in asks /\ (\A m \in asks : l <= m) /\ (\A m \in busy : l < m)

First == {l \in isr : l < 8}
Second == {l \in isr : l >= 8}
GrantedBySecond(l) == Grants({m \in irr : m >= 8}, Second, l)
GrantedByFirst(l) ==
  Grants({m \in irr : m < 8} \cup {m \in {2} : \E n \in irr : GrantedBySecond(n)},
         First, l)
Granted(l) ==
  IF l < 8 THEN GrantedByFirst(l) ELSE GrantedBySecond(l) /\ GrantedByFirst(2)

(* A non-specific EOI ends the service of the first line in service.       *)
AfterEoi(busy) == isr \ {l \in busy : \A m \in busy : l <= m}

-----------------------------------------------------------------------------
(* kmain up to its jump, with interrupts off.                              *)

SetUp ==
  /\ cpu \in {"gdt", "idt", "pic"}
  /\ cpu' = CASE cpu = "gdt" -> "idt" [] cpu = "idt" -> "pic" [] OTHER -> "create"
  /\ UNCHANGED <<chips, irq, iflag, regs, sp, tasks, stack, owns>>

(* task_create: a frame for the stub of IRQ0 to pop.                       *)
Create ==
  /\ cpu = "create" /\ count < NumTasks
  /\ stack' = [stack EXCEPT ![count] =
                 <<[at |-> "task", irq |-> 0, regs |-> <<count, owns[count]>>]>>]
  /\ rsp' = [rsp EXCEPT ![count] = count]
  /\ active' = [active EXCEPT ![count] = TRUE]
  /\ count' = count + 1
  /\ UNCHANGED <<chips, processor, current, owns>>

(* The end of a stub, and of jump_to_task: registers, address and flags    *)
(* come from the frame on top, and in every frame IF is set.               *)
Pop(s) ==
  LET top == stack[s][Len(stack[s])] IN
    /\ sp' = s /\ cpu' = top.at /\ irq' = top.irq /\ regs' = top.regs
    /\ iflag' = TRUE
    /\ stack' = [stack EXCEPT ![s] = SubSeq(@, 1, Len(@) - 1)]

Jump ==
  /\ cpu = "create" /\ count = NumTasks
  /\ current' = 0 /\ Pop(rsp[0])
  /\ UNCHANGED <<chips, count, active, rsp, owns>>

-----------------------------------------------------------------------------
(* The gates and the stubs.                                                *)

(* Mutant: trap gates, which leave IF set. *)
Enter_TrapGate(l, place) ==
  /\ stack' = [stack EXCEPT ![sp] =
                 Append(@, [at |-> cpu, irq |-> irq, regs |-> regs])]
  /\ cpu' = place /\ irq' = l /\ regs' = Clobbered
  /\ UNCHANGED <<iflag, sp>>
(* Through an interrupt gate, into a stub: what ran is on its own stack.   *)
Enter(l, place) ==
  /\ stack' = [stack EXCEPT ![sp] =
                 Append(@, [at |-> cpu, irq |-> irq, regs |-> regs])]
  /\ cpu' = place /\ irq' = l /\ regs' = Clobbered
  /\ iflag' = FALSE /\ UNCHANGED sp

StubOf(l) == CASE l = 0 -> "timer" [] l = 1 -> "read" [] OTHER -> "eoi"

Acknowledge(l) ==
  /\ iflag /\ Granted(l)
  /\ irr' = irr \ {l}
  /\ isr' = isr \cup {l} \cup {m \in {2} : l >= 8}
  /\ Enter(l, StubOf(l))
  /\ UNCHANGED <<key, rested, tasks, owns>>

(* The line was withdrawn just before the acknowledge: the controller says *)
(* 7 and puts nothing in service; the second one says 15, and the first    *)
(* has put the second in service.                                          *)
Spurious(l) ==
  /\ iflag /\ Granted(l) /\ l # 1
  /\ irr' = irr \ {l}
  /\ isr' = isr \cup {m \in {2} : l >= 8}
  /\ Enter(IF l < 8 THEN 7 ELSE 15, "eoi")
  /\ UNCHANGED <<key, rested, tasks, owns>>

(* An exception: isr_handler halts with interrupts off.                    *)
Fault ==
  /\ cpu = "task"
  /\ Enter(irq, "halted")
  /\ UNCHANGED <<chips, tasks, owns>>

-----------------------------------------------------------------------------
(* irq_handler.                                                            *)

Goto(place) == cpu' = place /\ UNCHANGED <<irq, iflag, regs, sp, stack, owns>>

(* The inb of click_on_keybord. *)
ReadKey ==
  /\ cpu = "read" /\ Goto("eoi")
  /\ key' = FALSE
  /\ UNCHANGED <<irr, isr, rested, tasks>>

(* Mutant: the second controller is not told. *)
EoiSecond_Never ==
  cpu = "eoi" /\ Goto("eoi1") /\ UNCHANGED <<chips, tasks>>
(* pic_send_eoi *)
EoiSecond ==
  /\ cpu = "eoi" /\ Goto("eoi1")
  /\ isr' = IF irq >= 8 THEN AfterEoi(Second) ELSE isr
  /\ UNCHANGED <<irr, key, rested, tasks>>
(* Mutant: either the one controller or the other. *)
EoiFirst_Either ==
  /\ cpu = "eoi1" /\ Goto("return")
  /\ isr' = IF irq >= 8 THEN isr ELSE AfterEoi(First)
  /\ UNCHANGED <<irr, key, rested, tasks>>
EoiFirst ==
  /\ cpu = "eoi1" /\ Goto("return")
  /\ isr' = AfterEoi(First)
  /\ UNCHANGED <<irr, key, rested, tasks>>

-----------------------------------------------------------------------------
(* schedule. *)

(* With no task at all it returns before the EOI. *)
Tick ==
  /\ cpu = "timer" /\ Goto(IF count = 0 THEN "return" ELSE "save")
  /\ isr' = IF count = 0 THEN isr ELSE AfterEoi(First)
  /\ UNCHANGED <<irr, key, rested, tasks>>

(* Mutant: the rsp goes to the task that comes next. *)
Save_AfterSelection ==
  /\ cpu = "save" /\ Goto("search")
  /\ rsp' = [rsp EXCEPT ![(current + 1) % count] = sp]
  /\ UNCHANGED <<chips, count, current, active>>
Save ==
  /\ cpu = "save" /\ Goto("search")
  /\ rsp' = [rsp EXCEPT ![current] = sp]
  /\ UNCHANGED <<chips, count, current, active>>

(* One turn of its loop; the stub takes what it returns for its rsp. *)
Search ==
  /\ cpu = "search"
  /\ current' = (current + 1) % count
  /\ IF active[current'] THEN cpu' = "return" /\ sp' = rsp[current']
                         ELSE UNCHANGED <<cpu, sp>>
  /\ UNCHANGED <<chips, irq, iflag, regs, count, active, rsp, stack, owns>>

Return ==
  /\ cpu = "return" /\ Pop(sp)
  /\ UNCHANGED <<chips, tasks, owns>>

-----------------------------------------------------------------------------
(* The task that has the CPU.  The processor looks for an interrupt before *)
(* every instruction.                                                      *)
Step ==
  /\ cpu = "task" /\ ~(iflag /\ \E l \in Lines : Granted(l))
  /\ \E v \in Values :
       /\ owns' = [owns EXCEPT ![current] = v]
       /\ regs' = <<current, v>>
  /\ rested' = Lines
  /\ UNCHANGED <<irr, isr, key, cpu, irq, iflag, sp, tasks, stack>>

(* delet_task *)
Stop(t) ==
  /\ cpu = "task" /\ active' = [active EXCEPT ![t] = FALSE]
  /\ UNCHANGED <<chips, processor, count, current, rsp, stack, owns>>

Code ==
  \/ SetUp \/ Create \/ Jump
  \/ ReadKey \/ EoiSecond \/ EoiFirst \/ Tick \/ Save \/ Search \/ Return \/ Step

Next ==
  \/ \E l \in Lines : Raise(l) \/ Withdraw(l) \/ Acknowledge(l) \/ Spurious(l)
  \/ Code \/ Fault
  \/ \E t \in Tasks : Stop(t)

Spec == Init /\ [][Next]_vars
(* The processor runs, and takes an interrupt it can take.                 *)
FairSpec ==
  Spec /\ WF_vars(Code) /\ \A l \in Lines : WF_vars(Acknowledge(l))

-----------------------------------------------------------------------------
(* When interrupts are let through nothing is in service, so no line is    *)
(* shut out by a handler that is over, a spurious one included.            *)
NothingLeft == iflag => isr = {}

(* An EOI, which names no line, ends the service of the line whose handler *)
(* sends it, and of no other.                                              *)
EoiIsOwn == [][\A l \in isr \ isr' : l = irq \/ (l = 2 /\ irq >= 8)]_vars

(* A task that has the CPU has its own registers, as it left them, and its *)
(* own stack with nothing of an interrupt on it.                           *)
TaskStateKept ==
  cpu = "task" =>
    regs = <<current, owns[current]>> /\ sp = current /\ stack[current] = <<>>

(* Who asks is acknowledged or gives up, and a key that was pressed is     *)
(* read, until an exception halts the machine or no task is left.          *)
Stuck == cpu = "halted" \/ \A t \in Tasks : t < count => ~active[t]
Served ==
  \A l \in Lines :
    (l \in irr \/ (l = 1 /\ key))
      ~> ((l \notin irr /\ ~(l = 1 /\ key)) \/ (cpu \notin Boot /\ Stuck))
=============================================================================
