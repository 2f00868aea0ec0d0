-------------------------------- MODULE Boot --------------------------------
(***************************************************************************)
(* The CPU from _start in Kernel.asm to threads that are interrupted and   *)
(* resumed: the descriptor tables are filled and loaded, the timer is      *)
(* calibrated, interrupts are turned on, and from then on every interrupt  *)
(* or fault goes through those tables and every switch through the words a *)
(* thread has on its stack.                                                *)
(*                                                                         *)
(* A step is a call or an instruction that the CPU checks or that an       *)
(* interrupt can see.  cpu.rip is the name of what is executed next, and   *)
(* "lost" once the CPU has shut down or runs what nobody wrote.  A stack   *)
(* is the sequence of words from its top downwards, and an address on it   *)
(* is its name and the number of words above.  Which thread the handler    *)
(* chooses is Scheduler's, its address space too; memory is KernelMemory's.*)
(***************************************************************************)
EXTENDS Descriptors, FiniteSets

CONSTANTS
    Layouts,      \* where the linker may put the tables and the handlers
    Program,      \* threads kernelMainThread creates, in this order, each named by its function
    Users,        \* those of them in user mode
    BusRates,     \* LAPIC cycles before division per tick of the PIT
    MaxLate,      \* bound: ticks of the PIT that pass unseen before and after its count
    CountTop,     \* stands for 0xFFFFFFFF, which the timer does not reach in a millisecond
    Faults,       \* exceptions that threads raise
    FaultPlans    \* bound: which threads raise which of them in one behaviour

Elements(seq) == {seq[i] : i \in DOMAIN seq}
Threads == Elements(Program)
HandlerNames == {"divideError", "doubleFault", "generalProtection", "pageFault", "timerInterruptAsm"}
FaultHandlers == HandlerNames \ {"timerInterruptAsm"}
Tables == {"gdtArray", "idt_entries", "globalTss"}

pitTicks == 1193
Main == "kernelMainThread"
None == "none"

\* The places of code that are no thread's function
Labels ==
    {"_start", "lgdt", "reload", "after_cs_reload", "initIdt", "lidt", "mask", "kmain", "Process::init",
     "xApic", "x2Apic", "spurious", "divide", "lvt", "pit", "count", "wait", "timer", "sti",
     "timerInterrupt", "popall", "Serial::write", "hlt", "lost"} \cup HandlerNames

ASSUME BootAssumption ==
    /\ Layouts \subseteq [HandlerNames \cup Tables -> [1..8 -> 0..255]]
    /\ \A layout \in Layouts : \A a, b \in DOMAIN layout : layout[a] = layout[b] => a = b
    /\ Users \subseteq Threads
    /\ Threads \cap (Labels \cup {Main, None}) = {}
    /\ BusRates \subseteq Nat /\ MaxLate \in 0..pitTicks
    /\ \A bus \in BusRates : ((pitTicks + MaxLate) * bus) \div 16 <= CountTop
    /\ Faults \subseteq {0, 6, 8, 13, 14}
    /\ CountTop \in Nat /\ FaultPlans \subseteq SUBSET ((Threads \cup {Main}) \X Faults)

VARIABLES
    layout,                      \* address of every table and handler
    cpu,                         \* registers of the CPU
    gdtArray, gdtr, globalTss,   \* Gdt.cpp
    idt_entries, idtr,           \* Idt.cpp; entries not written are zero, and no gates
    apic, pit,                   \* local APIC; PIT and the old interrupt controllers
    stacks,                      \* words on every stack
    blocks,                      \* control blocks: rsp and syscallRsp
    currentProcessControlBlock,
    left,                        \* what each thread had in its registers when it left the CPU
    raised                       \* what has raised the vectors each thread is in the handlers of

tables == <<layout, gdtArray, gdtr, globalTss, idt_entries, idtr>>
threads == <<blocks, currentProcessControlBlock, left>>
vars == <<tables, cpu, apic, pit, stacks, threads, raised>>

Bodies == Threads \cup {Main}
Running == IF currentProcessControlBlock = None THEN Main ELSE currentProcessControlBlock

Address(stack, depth) == [stack |-> stack, depth |-> depth]
Top(stack) == Address(stack, 0)
temp_kernel_stack == <<"boot", "temp_kernel_stack">>
kernel_stack == <<"boot", "kernel_stack">>
double_fault_stack == <<"boot", "double_fault_stack">>
Null == Top(<<"none", "none">>)
StackOf(t) == <<t, "stack">>
SyscallStackOf(t) == <<t, "syscall">>
Stacks == {temp_kernel_stack, kernel_stack, double_fault_stack} \cup
          {StackOf(t) : t \in Threads} \cup {SyscallStackOf(t) : t \in Users}

Pushed(sp, words) == [stacks EXCEPT ![sp.stack] = SubSeq(@, 1, sp.depth) \o words]
Below(sp, words) == Address(sp.stack, sp.depth + Len(words))

\* The function f with the value at x
With(f, x, value) == [y \in DOMAIN f \cup {x} |-> IF y = x THEN value ELSE f[y]]

At(label) == cpu.rip = label
Go(label) == cpu' = [cpu EXCEPT !.rip = label]
Lose == Go("lost") /\ UNCHANGED <<stacks, raised>>

-----------------------------------------------------------------------------
\* The registers on a thread's stack

PushOrder == <<"rax", "rbx", "rcx", "rdx", "rdi", "rsi", "rbp", "r8", "r9", "r10", "r11",
               "r12", "r13", "r14", "r15">>
PopOrder == <<"r15", "r14", "r13", "r12", "r11", "r10", "r9", "r8", "rbp", "rsi", "rdi",
              "rdx", "rcx", "rbx", "rax">>
Registers == Elements(PushOrder)

\* What an interrupt pushes and iretq pops
Frame(ss, rsp, flag, cs, rip) ==
    <<<<"selector", ss>>, <<"rsp", rsp>>, <<"flag", flag>>, <<"selector", cs>>, <<"rip", rip>>>>

Context(c) == [regs |-> c.regs, rip |-> c.rip, rsp |-> c.rsp, flag |-> c.flag, cs |-> c.cs, ss |-> c.ss]
Zero == <<"zero">>
Fresh == [r \in Registers |-> Zero]

-----------------------------------------------------------------------------
\* Descriptors as the CPU finds them

InTable(selector) ==
    /\ cpu.gdtr.offset = layout["gdtArray"]
    /\ selector \div 8 > 0 /\ 8 * (selector \div 8) + 7 <= cpu.gdtr.size
Descriptor(selector) == gdtArray[selector \div 8]

Accepts(vector) ==
    /\ cpu.idtr.offset = layout["idt_entries"]
    /\ 16 * vector + 15 <= cpu.idtr.size
    /\ vector \in DOMAIN idt_entries /\ IsGate(idt_entries[vector])
    /\ LET cs == Selector(idt_entries[vector])
       IN  InTable(cs) /\ IsCode(Descriptor(cs)) /\ Dpl(Descriptor(cs)) <= Rpl(cpu.cs)

\* An entry that is no gate, as the zero entries are, raises vector 13.  Raised
\* for one of the contributory exceptions or for a page fault, that is a double
\* fault; without a gate for the double fault the CPU shuts down.
NoVector == -1
Contributory == {0, 10, 11, 12, 13}
Accepted(vector) ==
    IF Accepts(vector) THEN vector
    ELSE IF vector \notin Contributory \cup {8, 14} /\ Accepts(13) THEN 13
    ELSE IF Accepts(8) THEN 8
    ELSE NoVector

InTss(offset) == IF cpu.tr = layout["globalTss"] THEN globalTss[MemberAt(offset)] ELSE Null
StackFor(gate) ==
    IF Ist(gate) > 0 THEN InTss(IstAt(Ist(gate)))
    ELSE IF Rpl(cpu.cs) = 3 THEN InTss(Rsp0)
    ELSE cpu.rsp

Symbol(address) ==
    IF \E s \in HandlerNames : layout[s] = address
    THEN CHOOSE s \in HandlerNames : layout[s] = address
    ELSE "lost"

\* The CPU goes into the handler of a vector.
Enter(gate) ==
    LET sp == StackFor(gate)
        frame == Frame(cpu.ss, cpu.rsp, cpu.flag, cpu.cs, cpu.rip)
    IN  /\ stacks' = Pushed(sp, frame)
        /\ cpu' = [cpu EXCEPT !.rip = Symbol(Handler(gate)), !.rsp = Below(sp, frame),
                              !.flag = @ /\ ~ClearsInterrupts(gate), !.cs = Selector(gate),
                              !.ss = IF Rpl(cpu.cs) = 3 THEN 0 ELSE @]

RaiseFor(cause, vector) ==
    LET accepted == Accepted(vector) IN
    IF accepted = NoVector \/ StackFor(idt_entries[accepted]) = Null
    THEN Lose
    ELSE /\ Enter(idt_entries[accepted])
         /\ raised' = [raised EXCEPT ![Running] = Append(@, cause)]

\* An exception
Raise(vector) == RaiseFor(vector, vector)

-----------------------------------------------------------------------------
\* Kernel.asm

NoTable == [size |-> 0, offset |-> Empty]

Init ==
    /\ layout \in Layouts
    /\ cpu = [rip |-> "_start", rsp |-> Null, flag |-> FALSE, cs |-> 40, ss |-> 48, tr |-> Empty,
              gdtr |-> NoTable, idtr |-> NoTable, regs |-> Fresh]
    /\ gdtArray = [i \in 0..6 |-> Empty]
    /\ gdtr = NoTable /\ idtr = NoTable
    /\ globalTss = [member \in DOMAIN TSS |-> Null]
    /\ idt_entries = <<>>
    /\ apic \in [base : {{}, {11}, {10, 11}}, enabled : {FALSE}, divisor : {2},
                 lvt : {[vector |-> 0, masked |-> TRUE]}, count : {0}, irr : {FALSE}, isr : {FALSE}, bus : BusRates]
    /\ pit = [port |-> {1}, gate |-> {}, irqs |-> {0}, count |-> 0, ticks |-> 0]
    /\ stacks = [s \in Stacks |-> <<>>]
    /\ blocks = <<>>
    /\ currentProcessControlBlock = None
    /\ left = <<>>
    /\ raised = [t \in Bodies |-> <<>>]

KernelCode == 8
KernelData == 16
UserData == 27
UserCode == 35
Task == 40

Segments(table) ==
    setEntry(setEntry(setEntry(setEntry(table, 1, 155, 10), 2, 147, 10), 3, 243, 10), 4, 251, 10)

initGdt ==
    /\ globalTss' = [globalTss EXCEPT !["rsp0"] = Top(kernel_stack), !["ist0"] = Top(double_fault_stack)]
    /\ gdtArray' = setSystemEntry(Segments(gdtArray), 5, layout["globalTss"], SizeOfTSS - 1, 137, 10)
    /\ gdtr' = [size |-> 7 * 8 - 1, offset |-> layout["gdtArray"]]

Start ==
    /\ At("_start")
    /\ initGdt
    /\ cpu' = [cpu EXCEPT !.rip = "lgdt", !.flag = FALSE, !.rsp = Top(temp_kernel_stack)]
    /\ UNCHANGED <<layout, idt_entries, idtr, apic, pit, stacks, threads, raised>>

LoadGdt ==
    /\ At("lgdt")
    /\ cpu' = [cpu EXCEPT !.rip = "reload", !.gdtr = gdtr]
    /\ UNCHANGED <<tables, apic, pit, stacks, threads, raised>>

\* push 0x08, retfq: checked against the table that is loaded
ReloadCs ==
    /\ At("reload")
    /\ IF InTable(KernelCode) /\ IsCode(Descriptor(KernelCode)) /\ Dpl(Descriptor(KernelCode)) = 0
       THEN cpu' = [cpu EXCEPT !.rip = "after_cs_reload", !.cs = KernelCode] /\ UNCHANGED <<stacks, raised>>
       ELSE Raise(13)
    /\ UNCHANGED <<tables, apic, pit, threads>>

\* The CPU marks the task's descriptor as busy.
LoadSegments ==
    /\ At("after_cs_reload")
    /\ IF /\ InTable(KernelData) /\ IsStack(Descriptor(KernelData)) /\ Dpl(Descriptor(KernelData)) = 0
          /\ InTable(Task) /\ IsFreeTask(Descriptor(Task))
       THEN /\ cpu' = [cpu EXCEPT !.rip = "initIdt", !.ss = KernelData,
                                  !.tr = BaseOf(Descriptor(Task), gdtArray[Task \div 8 + 1])]
            /\ gdtArray' = [gdtArray EXCEPT ![Task \div 8] = Busy(@)]
            /\ UNCHANGED <<stacks, raised>>
       ELSE Raise(13) /\ UNCHANGED gdtArray
    /\ UNCHANGED <<layout, gdtr, globalTss, idt_entries, idtr, apic, pit, threads>>

Entry(handler, ist, type) == Gate(layout[handler], ist, type)

\* Slip: the double fault goes on on the stack that may have caused it.
setIdtEntriesOneStack ==
    [vector \in {0, 8, 13, 14, 32} |->
        CASE vector = 0 -> Entry("divideError", 0, 143)
          [] vector = 8 -> Entry("doubleFault", 0, 143)
          [] vector = 13 -> Entry("generalProtection", 0, 143)
          [] vector = 14 -> Entry("pageFault", 0, 143)
          [] vector = 32 -> Entry("timerInterruptAsm", 0, 142)]

setIdtEntries ==
    [vector \in {0, 8, 13, 14, 32} |->
        CASE vector = 0 -> Entry("divideError", 0, 143)
          [] vector = 8 -> Entry("doubleFault", 1, 143)
          [] vector = 13 -> Entry("generalProtection", 0, 143)
          [] vector = 14 -> Entry("pageFault", 0, 143)
          [] vector = 32 -> Entry("timerInterruptAsm", 0, 142)]

initIdt ==
    /\ idt_entries' = setIdtEntries
    /\ idtr' = [size |-> 256 * 16 - 1, offset |-> layout["idt_entries"]]

InitIdt ==
    /\ At("initIdt")
    /\ initIdt
    /\ Go("lidt")
    /\ UNCHANGED <<layout, gdtArray, gdtr, globalTss, apic, pit, stacks, threads, raised>>

LoadIdt ==
    /\ At("lidt")
    /\ cpu' = [cpu EXCEPT !.rip = "mask", !.idtr = idtr]
    /\ UNCHANGED <<tables, apic, pit, stacks, threads, raised>>

\* The requests of both interrupt controllers of the PC are masked.
MaskPic ==
    /\ At("mask")
    /\ pit' = [pit EXCEPT !.irqs = {}]
    /\ Go("kmain")
    /\ UNCHANGED <<tables, apic, stacks, threads, raised>>

-----------------------------------------------------------------------------
\* kmain, from the framebuffer on

\* Without a framebuffer the response is a null pointer, and kmain follows it.
ClearScreen ==
    /\ At("kmain")
    /\ \/ Go("Process::init") /\ UNCHANGED <<stacks, raised>>
       \/ Raise(14)
    /\ UNCHANGED <<tables, apic, pit, threads>>

InitProcess ==
    /\ At("Process::init")
    /\ blocks' = [t \in {Main} |-> [rsp |-> Top(kernel_stack), syscallRsp |-> Null]]
    /\ currentProcessControlBlock' = Main
    /\ Go("xApic")
    /\ UNCHANGED <<tables, apic, pit, stacks, left, raised>>

\* wrmsr: x2APIC registers exist in that mode only.
Write(register, value, next) ==
    IF apic.base = {10, 11}
    THEN /\ apic' = [apic EXCEPT ![register] = value]
         /\ Go(next)
         /\ UNCHANGED <<stacks, raised>>
    ELSE Raise(13) /\ UNCHANGED apic

\* IA32_APIC_BASE: not extended without enabled, and enabled first.
SetBase(bit, next) ==
    LET base == apic.base \cup {bit} IN
    IF base = {10} \/ (apic.base = {} /\ base = {10, 11})
    THEN Raise(13) /\ UNCHANGED apic
    ELSE apic' = [apic EXCEPT !.base = base] /\ Go(next) /\ UNCHANGED <<stacks, raised>>

EnableApic ==
    /\ \/ At("xApic") /\ SetBase(11, "x2Apic")
       \/ At("x2Apic") /\ SetBase(10, "spurious")
    /\ UNCHANGED <<tables, pit, threads>>

\* Slip: the entry is written before the APIC is enabled.
EnabledLast ==
    /\ \/ At("spurious") /\ Write("lvt", [vector |-> 32, masked |-> ~apic.enabled], "divide")
       \/ At("divide") /\ Write("divisor", 16, "lvt")
       \/ At("lvt") /\ Write("enabled", TRUE, "pit")
    /\ UNCHANGED <<tables, pit, threads>>

\* While the APIC is disabled by software the timer's entry stays masked.
ConfigureTimer ==
    /\ \/ At("spurious") /\ Write("enabled", TRUE, "divide")
       \/ At("divide") /\ Write("divisor", 16, "lvt")
       \/ At("lvt") /\ Write("lvt", [vector |-> 32, masked |-> ~apic.enabled], "pit")
    /\ UNCHANGED <<tables, pit, threads>>

\* Counter 2 counts down while its gate, bit 0 of port 0x61, is open.
StartPit ==
    /\ At("pit")
    /\ pit' = [pit EXCEPT !.gate = pit.port, !.port = (@ \cap {2, 3, 4, 6, 7}) \cup {0},
                          !.ticks = (pitTicks % 256) + 256 * ((pitTicks \div 256) % 256)]
    /\ Go("count")
    /\ UNCHANGED <<tables, apic, stacks, threads, raised>>

StartCount(late) ==
    /\ At("count")
    /\ pit' = [pit EXCEPT !.ticks = IF 0 \in pit.port THEN @ - late ELSE @]
    /\ Write("count", CountTop, "wait")
    /\ UNCHANGED <<tables, threads>>

\* The loop ends when the PIT has counted to 0, and sees it late.
Wait(late) ==
    /\ At("wait")
    /\ 0 \in pit.port
    /\ apic' = [apic EXCEPT !.count = @ - ((pit.ticks + late) * apic.bus) \div apic.divisor]
    /\ pit' = [pit EXCEPT !.port = pit.gate, !.ticks = 0]
    /\ Go("timer")
    /\ UNCHANGED <<tables, stacks, threads, raised>>

\* Slip: what is left of the count is taken for what has passed.
StartTimerAtRest ==
    /\ At("timer")
    /\ Write("count", apic.count, "sti")
    /\ UNCHANGED <<tables, pit, threads>>

StartTimer ==
    /\ At("timer")
    /\ Write("count", CountTop - apic.count, "sti")
    /\ UNCHANGED <<tables, pit, threads>>

setInterrupts ==
    /\ At("sti")
    /\ cpu' = [cpu EXCEPT !.flag = TRUE, !.rip = Main]
    /\ UNCHANGED <<tables, apic, pit, stacks, threads, raised>>

-----------------------------------------------------------------------------
\* Interrupts

\* Vector 32 is requested when the periodic count has run out.
Tick ==
    /\ apic.enabled /\ ~apic.lvt.masked /\ apic.count # 0 /\ ~At("wait") /\ ~At("timer")
    /\ ~apic.irr
    /\ apic' = [apic EXCEPT !.irr = TRUE]
    /\ UNCHANGED <<tables, cpu, pit, stacks, threads, raised>>

\* History: what the thread that is interrupted has in its registers
Leave == left' = IF currentProcessControlBlock = None THEN left
                 ELSE With(left, currentProcessControlBlock, Context(cpu))

\* The old controllers request with the vectors from 8 on, those of the CPU's
\* own exceptions; their causes are counted from 256.
OldRequest(irq) == 256 + irq
Requests ==
    (IF apic.irr /\ ~apic.isr THEN {apic.lvt.vector} ELSE {}) \cup {OldRequest(irq) : irq \in pit.irqs}

Interrupt ==
    /\ cpu.flag
    /\ \E cause \in Requests :
          /\ RaiseFor(cause, IF cause < OldRequest(0) THEN cause ELSE cause - OldRequest(0) + 8)
          /\ apic' = IF cause < OldRequest(0) THEN [apic EXCEPT !.irr = FALSE, !.isr = TRUE] ELSE apic
    /\ Leave
    /\ UNCHANGED <<tables, pit, blocks, currentProcessControlBlock>>

SaveContext ==
    /\ At("timerInterruptAsm")
    /\ IF currentProcessControlBlock = None
       THEN Lose /\ UNCHANGED blocks
       ELSE LET words == [i \in DOMAIN PushOrder |-> cpu.regs[PushOrder[i]]]
                sp == Below(cpu.rsp, words)
            IN  /\ stacks' = Pushed(cpu.rsp, words)
                /\ blocks' = [blocks EXCEPT ![currentProcessControlBlock].rsp = sp]
                /\ cpu' = [cpu EXCEPT !.rip = "timerInterrupt", !.rsp = sp]
                /\ UNCHANGED raised
    /\ UNCHANGED <<tables, apic, pit, currentProcessControlBlock, left>>

\* Slip: the stack for entering the kernel stays the last thread's.
KeepRsp0 ==
    /\ At("timerInterrupt")
    /\ \E next \in DOMAIN blocks : currentProcessControlBlock' = next
    /\ apic' = [apic EXCEPT !.isr = FALSE]
    /\ Go("popall")
    /\ UNCHANGED <<tables, pit, stacks, blocks, left, raised>>

\* The C part of the handler; which thread is next, Scheduler says.
timerInterrupt ==
    /\ At("timerInterrupt")
    /\ \E next \in DOMAIN blocks :
          /\ currentProcessControlBlock' = next
          /\ globalTss' = [globalTss EXCEPT !["rsp0"] = blocks[next].syscallRsp]
    /\ apic' = [apic EXCEPT !.isr = FALSE]
    /\ Go("popall")
    /\ UNCHANGED <<layout, gdtArray, gdtr, idt_entries, idtr, pit, stacks, blocks, left, raised>>

\* iretq checks what it pops.  Inside the kernel the stack's selector may be null,
\* as it is after an interrupt in user mode.
MayReturn(cs, ss) ==
    /\ InTable(cs) /\ IsCode(Descriptor(cs)) /\ Dpl(Descriptor(cs)) = Rpl(cs)
    /\ Rpl(ss) = Rpl(cs)
    /\ \/ ss = 0
       \/ InTable(ss) /\ IsStack(Descriptor(ss)) /\ Dpl(Descriptor(ss)) = Rpl(ss)

\* The words popall and iretq find from sp upwards
Popped(sp, i) == stacks[sp.stack][sp.depth - i]
FrameStart == Len(PopOrder)
FrameKinds == <<"rip", "selector", "flag", "rsp", "selector">>

MayResume(sp) ==
    /\ FrameStart + 5 <= sp.depth /\ sp.depth <= Len(stacks[sp.stack])
    /\ \A i \in DOMAIN FrameKinds : Popped(sp, FrameStart + i - 1)[1] = FrameKinds[i]
    /\ MayReturn(Popped(sp, FrameStart + 1)[2], Popped(sp, FrameStart + 4)[2])

Resumed(sp) ==
    [cpu EXCEPT !.regs = [r \in Registers |-> Popped(sp, CHOOSE i \in 0..FrameStart - 1 : PopOrder[i + 1] = r)],
                !.rip = Popped(sp, FrameStart)[2], !.cs = Popped(sp, FrameStart + 1)[2],
                !.flag = Popped(sp, FrameStart + 2)[2], !.rsp = Popped(sp, FrameStart + 3)[2],
                !.ss = Popped(sp, FrameStart + 4)[2]]

Return ==
    /\ At("popall")
    /\ LET sp == blocks[currentProcessControlBlock].rsp
       IN  IF MayResume(sp)
           THEN /\ cpu' = Resumed(sp)
                /\ raised' = [raised EXCEPT ![currentProcessControlBlock] =
                                 IF @ = <<>> THEN @ ELSE SubSeq(@, 1, Len(@) - 1)]
                /\ UNCHANGED stacks
           ELSE Lose
    /\ UNCHANGED <<tables, apic, pit, threads>>

-----------------------------------------------------------------------------
\* The handlers of faults

\* All but divideError report the fault.
HandleFault ==
    /\ cpu.rip \in FaultHandlers
    /\ LET set == [cpu EXCEPT !.regs["rax"] = <<cpu.rip, "rax">>]
           word == <<<<"rip", "hlt">>>>
       IN  IF At("divideError")
           THEN cpu' = [set EXCEPT !.rip = "hlt"] /\ UNCHANGED stacks
           ELSE /\ cpu' = [set EXCEPT !.rip = "Serial::write", !.rsp = Below(@, word)]
                /\ stacks' = Pushed(cpu.rsp, word)
    /\ UNCHANGED <<tables, apic, pit, threads, raised>>

\* Serial::write returns to the loop around hlt, in which the CPU only waits for
\* interrupts.
WriteReturns ==
    /\ At("Serial::write")
    /\ LET word == Popped(cpu.rsp, 0)
       IN  IF word[1] = "rip"
           THEN /\ cpu' = [cpu EXCEPT !.rip = word[2], !.rsp.depth = @ - 1]
                /\ UNCHANGED <<stacks, raised>>
           ELSE Lose
    /\ UNCHANGED <<tables, apic, pit, threads>>

-----------------------------------------------------------------------------
\* Threads

\* Process::create: the words a thread is first resumed with
NewFrame(t) ==
    LET user == t \in Users
    IN  Frame(IF user THEN UserData ELSE KernelData, Top(StackOf(t)), TRUE,
              IF user THEN UserCode ELSE KernelCode, t)
        \o [i \in 1..15 |-> Zero]

\* t is the first of Program that has not been created.
IsNext(t) ==
    /\ t \notin DOMAIN blocks
    /\ \E i \in DOMAIN Program : t = Program[i] /\ \A j \in 1..i - 1 : Program[j] \in DOMAIN blocks

Create(t) ==
    /\ At(Main) /\ IsNext(t)
    /\ stacks' = [stacks EXCEPT ![StackOf(t)] = NewFrame(t)]
    /\ blocks' = With(blocks, t, [rsp |-> Address(StackOf(t), Len(NewFrame(t))),
                                  syscallRsp |-> IF t \in Users THEN Top(SyscallStackOf(t)) ELSE Null])
    /\ left' = With(left, t, [regs |-> Fresh, rip |-> t, rsp |-> Top(StackOf(t)), flag |-> TRUE,
                              cs |-> IF t \in Users THEN UserCode ELSE KernelCode,
                              ss |-> IF t \in Users THEN UserData ELSE KernelData])
    /\ UNCHANGED <<tables, cpu, apic, pit, currentProcessControlBlock, raised>>

\* A thread fills its registers and pushes a word.
Work ==
    /\ cpu.rip \in Bodies
    /\ cpu.regs # [r \in Registers |-> <<Running, r>>]
    /\ cpu' = [cpu EXCEPT !.regs = [r \in Registers |-> <<Running, r>>], !.rsp = Below(@, <<Zero>>)]
    /\ stacks' = Pushed(cpu.rsp, <<Zero>>)
    /\ UNCHANGED <<tables, apic, pit, threads, raised>>

Faulted == {fault \in Bodies \X Faults : fault[2] \in Elements(raised[fault[1]])}

\* What a thread runs raises an exception.
Fault(vector) ==
    /\ cpu.rip \in Bodies
    /\ \E plan \in FaultPlans : Faulted \cup {<<Running, vector>>} \subseteq plan
    /\ Raise(vector)
    /\ UNCHANGED <<tables, apic, pit, threads>>

-----------------------------------------------------------------------------
BootStep ==
    \/ Start \/ LoadGdt \/ ReloadCs \/ LoadSegments \/ InitIdt \/ LoadIdt \/ MaskPic
    \/ ClearScreen \/ InitProcess \/ EnableApic \/ ConfigureTimer \/ StartPit
    \/ (\E late \in 0..MaxLate : StartCount(late) \/ Wait(late))
    \/ StartTimer \/ setInterrupts

HandlerStep == SaveContext \/ timerInterrupt \/ Return \/ HandleFault \/ WriteReturns

Next ==
    \/ BootStep
    \/ Tick \/ Interrupt
    \/ HandlerStep
    \/ (\E t \in Threads : Create(t))
    \/ Work
    \/ (\E vector \in Faults : Fault(vector))

\* The CPU and the timer go on as long as one of them can: each of these steps
\* changes the state of one or the other.  That a thread creates, works or
\* faults, nothing makes it.
Spec ==
    /\ Init /\ [][Next]_vars
    /\ WF_<<cpu, apic>>(BootStep \/ HandlerStep \/ Tick \/ Interrupt)

-----------------------------------------------------------------------------
\* What is meant to handle a cause: nothing the requests of the old controllers,
\* and the handler of vector 13 an exception without a gate.
Meant(cause) ==
    CASE cause = 0 -> "divideError"
      [] cause = 8 -> "doubleFault"
      [] cause = 14 -> "pageFault"
      [] cause = 32 -> "timerInterruptAsm"
      [] cause >= OldRequest(0) -> None
      [] OTHER -> "generalProtection"

\* The threads in the handler of double faults, and whether t shares that
\* handler's stack with another one
InDoubleFault == {t \in Bodies : raised[t] # <<>> /\ raised[t][1] = 8}
Shares(t) == t \in InDoubleFault /\ InDoubleFault # {t}

\* The CPU neither shuts down nor runs what nobody wrote: whatever the CPU looks
\* up in the tables when segments are loaded, a vector is raised or a thread is
\* resumed (Kernel.asm, Gdt.cpp, Idt.cpp, Process.cpp:57-73) is there, is what
\* is needed there, and was put there before.  It is lost only in resuming a
\* thread that waits in doubleFault, when another one has come there since: the
\* gate leaves interrupts on, and what the first has saved on the one stack of
\* the handler is written over (Idt.cpp:108, Gdt.cpp:12).
NeverLost == At("lost") => Shares(Running)

\* A vector is handled by its own handler, for its own cause, and a double fault
\* on a stack of its own (Idt.cpp:104-114, Gdt.cpp:11-12, Kernel.asm:50-52).
EachToItsHandler ==
    cpu.rip \in HandlerNames =>
        /\ raised[Running] # <<>> /\ cpu.rip = Meant(raised[Running][Len(raised[Running])])
        /\ cpu.rip = "doubleFault" => cpu.rsp.stack = double_fault_stack

\* A thread resumes with all it had in its registers when it was interrupted,
\* on its own stack and in its own mode, whatever ran in between; and a new one
\* starts at its function with what create gave it (Macros.asm,
\* IdtHandlers.asm:13-25, Process.cpp:57-75).  Faults of other threads, double
\* faults too, change that only for a thread that waits in doubleFault itself.
ContextKept ==
    [][At("popall") =>
        Context(cpu') = left[currentProcessControlBlock] \/ Shares(currentProcessControlBlock)]_cpu

\* The PIT counts at 1193182 Hz: the timer's period is a millisecond but for the
\* ticks unseen and a rest of the division (Apic.cpp:15-33, 48-57).
TickIsMillisecond ==
    cpu.rip \in Bodies =>
        LET error == apic.count * apic.divisor - (1193182 \div 1000) * apic.bus
            bound == MaxLate * apic.bus + apic.divisor
        IN  -bound <= error /\ error <= bound

\* Boot comes to its end and from then on the timer interrupts forever, also
\* when threads have faulted in what they run with interrupts on, for they alone
\* stop in their handlers.  What ends it is a fault in kmain, before there is a
\* thread, or that the CPU is lost, which NeverLost confines to a second double
\* fault; faults inside a guard are not among those of the model
\* (Idt.cpp:19-50, Apic.cpp:36-58, Process.cpp:67).
TimerGoesOn ==
    \/ <>[](At("hlt") /\ currentProcessControlBlock = None)
    \/ <>[]At("lost")
    \/ []<>At("timerInterruptAsm")
=============================================================================
