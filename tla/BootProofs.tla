----------------------------- MODULE BootProofs -----------------------------
(***************************************************************************)
(* Proofs about Boot for every layout the linker may choose, any program,  *)
(* bus rate, lateness, set of exceptions and number of faults.             *)
(*                                                                         *)
(* The invariant follows boot through the tables: what is in them before   *)
(* and after each is loaded, and that all of them are, and stay, once      *)
(* kmain runs.  From then on it is about threads.  Each has stacks of its  *)
(* own: its function's, and the one its handlers run on.  The thread that  *)
(* runs is in its function or in the handler of one fault; a thread that   *)
(* does not run has a frame and fifteen registers on one of its stacks,    *)
(* and they are what it left.  Threads in double faults share one stack:   *)
(* of these only that what is on it is of one of them.  Frames are words   *)
(* in memory, so most lemmas speak of a memory mem, to be used for the     *)
(* stacks before a step and for those after it.                            *)
(***************************************************************************)
EXTENDS Boot, SequenceTheorems, TLAPS

\* Places up to kmain, those in kmain before interrupts are on, and those where a
\* fault is handled
Early == {"_start", "lgdt", "reload", "after_cs_reload", "initIdt", "lidt", "mask"}
Kmain == {"kmain", "Process::init", "xApic", "x2Apic", "spurious", "divide", "lvt", "pit", "count",
          "wait", "timer", "sti"}
FaultPlaces == FaultHandlers \cup {"Serial::write", "hlt"}

\* The exceptions that are raised, by a thread or by kmain
Exceptions == {0, 6, 8, 13, 14}

IsSeq(s) == s \in Seq({s[i] : i \in DOMAIN s})

-----------------------------------------------------------------------------
\* Tables

\* What initGdt makes of the table, and ltr of that
FilledGdt ==
    [i \in 0..6 |->
        CASE i = 0 -> Empty
          [] i = 1 -> SegmentDescriptor(155, 10)
          [] i = 2 -> SegmentDescriptor(147, 10)
          [] i = 3 -> SegmentDescriptor(243, 10)
          [] i = 4 -> SegmentDescriptor(251, 10)
          [] i = 5 -> SystemEntry(layout["globalTss"], SizeOfTSS - 1, 137, 10)[1]
          [] i = 6 -> SystemEntry(layout["globalTss"], SizeOfTSS - 1, 137, 10)[2]]
BusyGdt == [FilledGdt EXCEPT ![5] = Busy(@)]
GdtrValue == [size |-> 55, offset |-> layout["gdtArray"]]
IdtrValue == [size |-> 4095, offset |-> layout["idt_entries"]]

\* Everything that a vector, or a return from one, looks at is in place.
Loaded ==
    /\ gdtArray = BusyGdt
    /\ cpu.gdtr = GdtrValue
    /\ cpu.tr = layout["globalTss"]
    /\ idt_entries = setIdtEntries
    /\ cpu.idtr = IdtrValue
    /\ globalTss["ist0"] = Top(double_fault_stack)
    /\ pit.irqs = {}

\* How far that is, place by place
Loading ==
    /\ At("_start") => gdtArray = [i \in 0..6 |-> Empty]
    /\ cpu.rip \in {"lgdt", "reload", "after_cs_reload"} => gdtArray = FilledGdt
    /\ cpu.rip \in {"initIdt", "lidt", "mask"} => gdtArray = BusyGdt /\ cpu.tr = layout["globalTss"]
    /\ ~At("_start") => gdtr = GdtrValue /\ globalTss["ist0"] = Top(double_fault_stack)
    /\ cpu.rip \notin {"_start", "lgdt"} => cpu.gdtr = GdtrValue
    /\ cpu.rip \in {"lidt", "mask"} => idt_entries = setIdtEntries /\ idtr = IdtrValue
    /\ At("mask") => cpu.idtr = IdtrValue

TablesInv == IF cpu.rip \in Early THEN Loading ELSE Loaded

Shapes ==
    /\ layout \in Layouts
    /\ DOMAIN cpu = {"rip", "rsp", "flag", "cs", "ss", "tr", "gdtr", "idtr", "regs"}
    /\ DOMAIN globalTss = DOMAIN TSS
    /\ DOMAIN apic = {"base", "enabled", "divisor", "lvt", "count", "irr", "isr", "bus"}
    /\ DOMAIN pit = {"port", "gate", "irqs", "count", "ticks"}
    /\ DOMAIN stacks = Stacks /\ \A s \in Stacks : IsSeq(stacks[s])
    /\ DOMAIN raised = Bodies
    /\ \A t \in DOMAIN blocks : DOMAIN blocks[t] = {"rsp", "syscallRsp"}
    /\ cpu.regs = [r \in Registers |-> cpu.regs[r]]

-----------------------------------------------------------------------------
\* The timer

ApicInv ==
    /\ cpu.rip \in Early \cup {"kmain", "Process::init", "xApic"} => apic.base \in {{}, {11}, {10, 11}}
    /\ At("x2Apic") => apic.base \in {{11}, {10, 11}}
    /\ cpu.rip \in Kmain \ {"kmain", "Process::init", "xApic", "x2Apic"} => apic.base = {10, 11}
    /\ apic.irr => apic.lvt.vector = 32
    /\ ~apic.lvt.masked => apic.lvt.vector = 32

\* What x ticks of the PIT are to the APIC's counter, for the x the loop may see
Late == (1193 - MaxLate)..(1193 + MaxLate)
Measured(x) == (x * apic.bus) \div 16
TimerInv ==
    /\ apic.bus \in BusRates
    /\ cpu.rip \notin Early \cup {"kmain", "Process::init", "xApic", "x2Apic", "spurious", "divide"}
         /\ currentProcessControlBlock # None => apic.divisor = 16
    /\ At("count") => pit.ticks = 1193
    /\ cpu.rip \in {"count", "wait"} => 0 \in pit.port
    /\ At("wait") => apic.count = CountTop /\ pit.ticks \in 1193 - MaxLate..1193
    /\ At("timer") => \E x \in Late : apic.count = CountTop - Measured(x)
    /\ (At("sti") \/ cpu.rip \notin Early \cup Kmain) /\ currentProcessControlBlock # None =>
           \E x \in Late : apic.count = Measured(x)

-----------------------------------------------------------------------------
\* Threads

\* The causes of the handlers a thread is in, with and without the last
Doubled(causes) == causes # <<>> /\ causes[1] = 8
Inner(causes) == IF causes = <<>> THEN <<>> ELSE SubSeq(causes, 1, Len(causes) - 1)
Raisings == {<<>>, <<32>>} \cup {<<v>> : v \in Exceptions} \cup {<<v, 32>> : v \in Exceptions}

\* The stacks a thread may have words on: its function's and its handlers'
BodyStack(t) == IF t = Main THEN temp_kernel_stack ELSE StackOf(t)
KernelStack(t, causes) ==
    IF Doubled(causes) THEN double_fault_stack
    ELSE IF t \in Users THEN SyscallStackOf(t) ELSE BodyStack(t)
Own(t, causes) == {BodyStack(t), KernelStack(t, causes)}

OnStack(mem, sp, stack, least) == sp = Address(stack, sp.depth) /\ sp.depth \in least..Len(mem[stack])

\* With the registers c, thread t runs: its function, or the handler of a fault,
\* with the word for its way back while it reports.  The stack of double faults
\* holds nothing but what the handler has pushed.
InBody(mem, c, t) ==
    /\ c.rip = t /\ c.cs = IF t \in Users THEN UserCode ELSE KernelCode
    /\ c.ss \in (IF t \in Users THEN {UserData} ELSE {0, KernelData})
    /\ OnStack(mem, c.rsp, BodyStack(t), 0)
ReturnWord == <<"rip", "hlt">>
InFault(mem, c, t, v) ==
    /\ c.cs = KernelCode /\ c.ss \in {0, KernelData}
    /\ \/ /\ c.rip \in {Meant(v), "hlt"}
          /\ OnStack(mem, c.rsp, KernelStack(t, <<v>>), 0)
          /\ v = 8 => c.rsp.depth = 5
       \/ /\ c.rip = "Serial::write"
          /\ OnStack(mem, c.rsp, KernelStack(t, <<v>>), 1)
          /\ mem[KernelStack(t, <<v>>)][c.rsp.depth] = ReturnWord
          /\ v = 8 => c.rsp.depth = 6
Runs(mem, c, t, causes) ==
    /\ c.flag = TRUE
    /\ \/ causes = <<>> /\ InBody(mem, c, t)
       \/ \E v \in Exceptions : causes = <<v>> /\ InFault(mem, c, t, v)

\* With the context c it was interrupted there, or is to start.
FrameOf(c) == Frame(c.ss, c.rsp, c.flag, c.cs, c.rip)
IsContext(c) == c = Context(c) /\ c.regs = [r \in Registers |-> c.regs[r]]
Interrupted(mem, c, t, causes) == IsContext(c) /\ Runs(mem, c, t, Inner(causes))

\* The context is at sp, the frame above the registers.
HasFrame(mem, stack, depth, c) == \A i \in 1..5 : mem[stack][depth + i] = FrameOf(c)[i]
HasRegisters(mem, stack, depth, c) == \A i \in 1..15 : mem[stack][depth + i] = c.regs[PushOrder[i]]
Saved(mem, sp, c, t, causes) ==
    /\ Interrupted(mem, c, t, causes)
    /\ \E stack \in Own(t, causes) :
          /\ OnStack(mem, sp, stack, 20)
          /\ HasFrame(mem, stack, sp.depth - 20, c)
          /\ HasRegisters(mem, stack, sp.depth - 15, c)

\* The timer's handler begins: only the frame is there, the registers are the CPU's.
Entered(mem, now, c, t, causes) ==
    /\ Interrupted(mem, c, t, causes)
    /\ causes # <<>> /\ causes[Len(causes)] = 32
    /\ now.flag = FALSE /\ now.regs = c.regs
    /\ OnStack(mem, now.rsp, KernelStack(t, causes), 5)
    /\ now.rsp.depth = Len(mem[KernelStack(t, causes)])
    /\ Doubled(causes) => now.rsp.depth = c.rsp.depth + 5
    /\ HasFrame(mem, KernelStack(t, causes), now.rsp.depth - 5, c)

\* A thread that shares the stack of double faults has only its place there.
SavedDouble(t) ==
    raised[t] = <<8, 32>> /\ \E depth \in {25, 26} : blocks[t].rsp = Address(double_fault_stack, depth)
SavedThread(t) ==
    /\ Doubled(raised[t]) => SavedDouble(t)
    /\ ~Shares(t) => t \in DOMAIN left /\ Saved(stacks, blocks[t].rsp, left[t], t, raised[t])

Current ==
    LET t == currentProcessControlBlock IN
    /\ t \in DOMAIN blocks
    /\ t \in Users => globalTss["rsp0"] = Top(SyscallStackOf(t))
    /\ \/ cpu.rip \in Bodies \cup FaultPlaces /\ Runs(stacks, cpu, t, raised[t])
       \/ At("timerInterruptAsm") /\ t \in DOMAIN left /\ Entered(stacks, cpu, left[t], t, raised[t])
       \/ cpu.rip \in {"timerInterrupt", "popall"} /\ cpu.flag = FALSE /\ SavedThread(t)

\* At the end of that stack is what one of the threads was interrupted with, unless
\* one is running there.
DoubleRests(mem) ==
    \E c :
        /\ IsContext(c) /\ c.flag = TRUE /\ InFault(mem, c, Main, 8)
        /\ Len(mem[double_fault_stack]) = c.rsp.depth + 20
        /\ HasFrame(mem, double_fault_stack, c.rsp.depth, c)
        /\ HasRegisters(mem, double_fault_stack, c.rsp.depth + 5, c)
DoubleStack ==
    \/ \A t \in Bodies : ~Doubled(raised[t])
    \/ Doubled(raised[currentProcessControlBlock]) /\ cpu.rip \notin {"timerInterrupt", "popall"}
    \/ DoubleRests(stacks)

Others == \A t \in DOMAIN blocks \ {currentProcessControlBlock} : SavedThread(t)

ThreadsInv ==
    /\ DOMAIN blocks \subseteq Bodies
    /\ \A t \in Bodies : raised[t] \in Raisings
    /\ \A t \in Threads : t \notin DOMAIN blocks => raised[t] = <<>>
    /\ \A t \in DOMAIN blocks \cap Users : blocks[t].syscallRsp = Top(SyscallStackOf(t))

-----------------------------------------------------------------------------
\* Boot with interrupts off, its end without a framebuffer, the end of a thread,
\* and threads

Booting ==
    /\ cpu.flag = FALSE
    /\ \A t \in Bodies : raised[t] = <<>>
    /\ ~At("_start") => cpu.rsp = Top(temp_kernel_stack)
    /\ cpu.rip \notin {"_start", "lgdt", "reload"} => cpu.cs = KernelCode
    /\ cpu.rip \notin {"_start", "lgdt", "reload", "after_cs_reload"} => cpu.ss = KernelData
    /\ IF cpu.rip \in Early \cup {"kmain", "Process::init"}
       THEN currentProcessControlBlock = None
       ELSE currentProcessControlBlock = Main /\ DOMAIN blocks = {Main}

Halted ==
    /\ cpu.rip \in {"pageFault", "Serial::write", "hlt"} /\ InFault(stacks, cpu, Main, 14)
    /\ cpu.flag = FALSE /\ raised[Main] = <<14>> /\ currentProcessControlBlock = None

\* Two threads in a double fault: one of them was resumed with words of the other.
LostThread == At("lost") /\ cpu.flag = FALSE /\ currentProcessControlBlock # None /\ Shares(Running)

Booted == cpu.rip \notin Early \cup Kmain /\ currentProcessControlBlock # None

Phase ==
    \/ cpu.rip \in Early \cup Kmain /\ Booting
    \/ Halted
    \/ LostThread
    \/ Booted /\ Current /\ Others /\ DoubleStack

IInv == Shapes /\ TablesInv /\ ApicInv /\ TimerInv /\ ThreadsInv /\ Phase

-----------------------------------------------------------------------------
\* What the CPU reads of the tables is what the kernel wrote.

\* A function on 1..8 is the sequence of its values.
LEMMA Rebuilt ==
    ASSUME NEW S, NEW f \in [1..8 -> S]
    PROVE  <<f[1], f[2], f[3], f[4], f[5], f[6], f[7], f[8]>> = f
<1> DEFINE g == <<f[1], f[2], f[3], f[4], f[5], f[6], f[7], f[8]>>
<1>1. g \in Seq(S) /\ Len(g) = 8
  OBVIOUS
<1>2. g \in [1..8 -> S]
  BY <1>1
<1>3. \A i \in 1..8 : g[i] = f[i]
  OBVIOUS
<1> HIDE DEF g
<1>4. g = f
  BY <1>2, <1>3
<1> QED
  BY <1>4 DEF g

\* Tables and handlers have addresses of eight bytes, no two the same.
LEMMA LayoutTyped ==
    ASSUME layout \in Layouts
    PROVE  /\ \A a \in HandlerNames \cup Tables : layout[a] \in [1..8 -> 0..255]
           /\ \A a, b \in HandlerNames \cup Tables : layout[a] = layout[b] => a = b
  BY BootAssumption

\* The descriptors of the segments are what the CPU wants of them.
LEMMA SegmentsRight ==
    ASSUME layout \in Layouts, gdtArray \in {FilledGdt, BusyGdt}, cpu.gdtr = GdtrValue
    PROVE  /\ InTable(KernelCode) /\ IsCode(Descriptor(KernelCode)) /\ Dpl(Descriptor(KernelCode)) = 0
           /\ InTable(KernelData) /\ IsStack(Descriptor(KernelData)) /\ Dpl(Descriptor(KernelData)) = 0
           /\ InTable(UserCode) /\ IsCode(Descriptor(UserCode)) /\ Dpl(Descriptor(UserCode)) = 3
           /\ InTable(UserData) /\ IsStack(Descriptor(UserData)) /\ Dpl(Descriptor(UserData)) = 3
<1>1. /\ gdtArray[1] = SegmentDescriptor(155, 10) /\ gdtArray[2] = SegmentDescriptor(147, 10)
      /\ gdtArray[3] = SegmentDescriptor(243, 10) /\ gdtArray[4] = SegmentDescriptor(251, 10)
  <2>1. /\ FilledGdt[1] = SegmentDescriptor(155, 10) /\ FilledGdt[2] = SegmentDescriptor(147, 10)
        /\ FilledGdt[3] = SegmentDescriptor(243, 10) /\ FilledGdt[4] = SegmentDescriptor(251, 10)
    BY DEF FilledGdt
  <2>2. \A i \in 1..4 : BusyGdt[i] = FilledGdt[i]
    <3>1. DOMAIN FilledGdt = 0..6
      BY DEF FilledGdt
    <3> QED
      BY <3>1 DEF BusyGdt
  <2> QED
    BY <2>1, <2>2
<1>2. /\ \A s \in {KernelCode, KernelData, UserCode, UserData} : InTable(s)
      /\ Descriptor(KernelCode) = gdtArray[1] /\ Descriptor(KernelData) = gdtArray[2]
      /\ Descriptor(UserData) = gdtArray[3] /\ Descriptor(UserCode) = gdtArray[4]
  BY DEF InTable, Descriptor, GdtrValue, KernelCode, KernelData, UserCode, UserData
<1>3. \A a \in Nat : SegmentDescriptor(a, 10)[6] = a /\ SegmentDescriptor(a, 10)[7] = 175
  BY DEF SegmentDescriptor
<1>4. IsCode(gdtArray[1]) /\ Dpl(gdtArray[1]) = 0 /\ IsCode(gdtArray[4]) /\ Dpl(gdtArray[4]) = 3
  BY <1>1, <1>3 DEF IsCode, Present, IsSystem, Type, Long, Dpl
<1>5. IsStack(gdtArray[2]) /\ Dpl(gdtArray[2]) = 0 /\ IsStack(gdtArray[3]) /\ Dpl(gdtArray[3]) = 3
  BY <1>1, <1>3 DEF IsStack, Present, IsSystem, Type, Dpl
<1> QED
  BY <1>2, <1>4, <1>5

\* The descriptor of the task leads ltr to the task state segment (Gdt.cpp:40-49).
LEMMA TaskRight ==
    ASSUME layout \in Layouts, gdtArray = FilledGdt, cpu.gdtr = GdtrValue
    PROVE  /\ InTable(Task) /\ IsFreeTask(Descriptor(Task))
           /\ BaseOf(Descriptor(Task), gdtArray[Task \div 8 + 1]) = layout["globalTss"]
<1> DEFINE base == layout["globalTss"]
<1>1. base \in [1..8 -> 0..255]
  BY LayoutTyped DEF Tables
<1>2. Task \div 8 = 5 /\ Task \div 8 + 1 = 6 /\ InTable(Task) /\ Descriptor(Task) = gdtArray[5]
  BY DEF InTable, Descriptor, GdtrValue, Task
<1>3. /\ gdtArray[5] = SystemEntryStart(base, 103, 137, 10)
      /\ gdtArray[6] = <<base[5], base[6], base[7], base[8], 0, 0, 0, 0>>
  BY DEF FilledGdt, SystemEntry, SizeOfTSS
<1>4. IsFreeTask(gdtArray[5])
  BY <1>3 DEF IsFreeTask, SystemEntryStart, Present, IsSystem, Type
<1>5. BaseOf(gdtArray[5], gdtArray[6]) = <<base[1], base[2], base[3], base[4], base[5], base[6], base[7], base[8]>>
  BY <1>3 DEF BaseOf, SystemEntryStart
<1> HIDE DEF base
<1>6. BaseOf(gdtArray[5], gdtArray[6]) = base
  BY <1>1, <1>5, Rebuilt
<1> QED
  BY <1>2, <1>4, <1>6 DEF base

\* A gate that setIdtEntry has filled is read as it was meant.
LEMMA GateRead ==
    ASSUME NEW offset \in [1..8 -> 0..255], NEW ist \in {0, 1}, NEW type \in {142, 143}
    PROVE  LET gate == Gate(offset, ist, type)
           IN  /\ IsGate(gate) /\ (ClearsInterrupts(gate) <=> type = 142)
               /\ Handler(gate) = offset /\ Selector(gate) = 8 /\ Ist(gate) = ist
<1> DEFINE gate == Gate(offset, ist, type)
<1>1. /\ gate[3] = 8 /\ gate[4] = 0 /\ gate[5] = ist /\ gate[6] = type
      /\ gate[1] = offset[1] /\ gate[2] = offset[2] /\ gate[7] = offset[3] /\ gate[8] = offset[4]
      /\ gate[9] = offset[5] /\ gate[10] = offset[6] /\ gate[11] = offset[7] /\ gate[12] = offset[8]
  BY DEF Gate
<1> HIDE DEF gate
<1>2. Handler(gate) = offset
  BY <1>1, Rebuilt DEF Handler
<1>3. IsGate(gate) /\ (ClearsInterrupts(gate) <=> type = 142)
  BY <1>1 DEF IsGate, ClearsInterrupts, Present, Type
<1>4. Selector(gate) = 8 /\ Ist(gate) = ist
  BY <1>1 DEF Selector, Ist
<1> QED
  BY <1>2, <1>3, <1>4 DEF gate

\* The vectors that have gates, and the handler of each
Vectors == {0, 8, 13, 14, 32}
HandlerOf(vector) ==
    CASE vector = 0 -> "divideError"
      [] vector = 8 -> "doubleFault"
      [] vector = 13 -> "generalProtection"
      [] vector = 14 -> "pageFault"
      [] vector = 32 -> "timerInterruptAsm"

\* What setIdtEntries makes is read as gates to the handlers (Idt.cpp:94-110).
LEMMA EntriesRight ==
    ASSUME layout \in Layouts, idt_entries = setIdtEntries
    PROVE  /\ DOMAIN idt_entries = Vectors
           /\ \A v \in Vectors :
                 /\ IsGate(idt_entries[v]) /\ (ClearsInterrupts(idt_entries[v]) <=> v = 32)
                 /\ Handler(idt_entries[v]) = layout[HandlerOf(v)] /\ Selector(idt_entries[v]) = 8
                 /\ Ist(idt_entries[v]) = IF v = 8 THEN 1 ELSE 0
<1>1. DOMAIN idt_entries = Vectors
  BY DEF setIdtEntries, Vectors
<1>2. ASSUME NEW v \in Vectors
      PROVE  idt_entries[v] = Gate(layout[HandlerOf(v)], IF v = 8 THEN 1 ELSE 0, IF v = 32 THEN 142 ELSE 143)
  <2>1. CASE v = 0
    BY <2>1 DEF setIdtEntries, Entry, HandlerOf
  <2>2. CASE v = 8
    BY <2>2 DEF setIdtEntries, Entry, HandlerOf
  <2>3. CASE v = 13
    BY <2>3 DEF setIdtEntries, Entry, HandlerOf
  <2>4. CASE v = 14
    BY <2>4 DEF setIdtEntries, Entry, HandlerOf
  <2>5. CASE v = 32
    BY <2>5 DEF setIdtEntries, Entry, HandlerOf
  <2> QED
    BY <1>2, <2>1, <2>2, <2>3, <2>4, <2>5 DEF Vectors
<1>3. \A v \in Vectors : HandlerOf(v) \in HandlerNames
  BY DEF Vectors, HandlerOf, HandlerNames
<1>4. \A v \in Vectors : layout[HandlerOf(v)] \in [1..8 -> 0..255]
  BY <1>3, LayoutTyped
<1>5. ASSUME NEW v \in Vectors
      PROVE  /\ IsGate(idt_entries[v]) /\ (ClearsInterrupts(idt_entries[v]) <=> v = 32)
             /\ Handler(idt_entries[v]) = layout[HandlerOf(v)] /\ Selector(idt_entries[v]) = 8
             /\ Ist(idt_entries[v]) = IF v = 8 THEN 1 ELSE 0
  <2> DEFINE ist == IF v = 8 THEN 1 ELSE 0
             type == IF v = 32 THEN 142 ELSE 143
  <2>1. ist \in {0, 1} /\ type \in {142, 143} /\ (type = 142 <=> v = 32)
    OBVIOUS
  <2>2. idt_entries[v] = Gate(layout[HandlerOf(v)], ist, type)
    BY <1>2, <1>5
  <2> HIDE DEF ist, type
  <2>3. /\ IsGate(idt_entries[v]) /\ (ClearsInterrupts(idt_entries[v]) <=> type = 142)
        /\ Handler(idt_entries[v]) = layout[HandlerOf(v)] /\ Selector(idt_entries[v]) = 8
        /\ Ist(idt_entries[v]) = ist
    BY <1>4, <1>5, <2>1, <2>2, GateRead
  <2> QED
    BY <2>1, <2>3 DEF ist
<1> QED
  BY <1>1, <1>5

\* No two handlers are at one address.
LEMMA SymbolRight ==
    ASSUME layout \in Layouts, NEW s \in HandlerNames
    PROVE  Symbol(layout[s]) = s
  BY LayoutTyped DEF Symbol

\* The CPU finds rsp0 and ist0 where Gdt.cpp puts them.
LEMMA MembersRight ==
    MemberAt(Rsp0) = "rsp0" /\ MemberAt(IstAt(1)) = "ist0"
  BY DEF MemberAt, Rsp0, IstAt, TSS

-----------------------------------------------------------------------------
\* Vectors that are raised once the tables are loaded

\* The vector whose gate takes v, and where the CPU goes on then
GateFor(v) == IF v = 6 THEN 13 ELSE v
EntryStack(v) ==
    IF v = 8 THEN Top(double_fault_stack)
    ELSE IF cpu.cs = UserCode THEN globalTss["rsp0"] ELSE cpu.rsp

\* What raising v does once the tables are loaded
Enters(cause, v) ==
    /\ stacks' = Pushed(EntryStack(v), FrameOf(cpu))
    /\ cpu' = [cpu EXCEPT !.rip = HandlerOf(GateFor(v)), !.rsp = Below(EntryStack(v), FrameOf(cpu)),
                          !.flag = cpu.flag /\ v # 32, !.cs = KernelCode,
                          !.ss = IF cpu.cs = UserCode THEN 0 ELSE cpu.ss]
    /\ raised' = [raised EXCEPT ![Running] = Append(@, cause)]

\* Once the tables are loaded, a vector is taken by its own gate, and what has
\* none, 6, by that of vector 13.
LEMMA VectorTaken ==
    ASSUME layout \in Layouts, Loaded, cpu.cs \in {KernelCode, UserCode}, NEW v \in Exceptions \cup {32}
    PROVE  Accepted(v) = GateFor(v)
<1>1. /\ DOMAIN idt_entries = Vectors
      /\ \A w \in Vectors : IsGate(idt_entries[w]) /\ Selector(idt_entries[w]) = 8
  BY EntriesRight DEF Loaded
<1>2. InTable(8) /\ IsCode(Descriptor(8)) /\ Dpl(Descriptor(8)) = 0
  BY SegmentsRight DEF Loaded, KernelCode
<1>3. Rpl(cpu.cs) \in {0, 3}
  BY DEF Rpl, KernelCode, UserCode
<1>4. cpu.idtr.offset = layout["idt_entries"] /\ cpu.idtr.size = 4095
  BY DEF Loaded, IdtrValue
<1>5. \A w \in Vectors : Accepts(w)
  BY <1>1, <1>2, <1>3, <1>4 DEF Accepts, Vectors
<1>6. \A w : w \notin Vectors => ~Accepts(w)
  BY <1>1 DEF Accepts
<1> QED
  BY <1>5, <1>6 DEF Accepted, Contributory, GateFor, Vectors, Exceptions

\* The gate of a double fault has a stack of its own, the others that of the mode.
LEMMA StackTaken ==
    ASSUME layout \in Layouts, Loaded, cpu.cs \in {KernelCode, UserCode}, NEW v \in Exceptions \cup {32}
    PROVE  StackFor(idt_entries[GateFor(v)]) = EntryStack(v)
<1>1. Ist(idt_entries[GateFor(v)]) = IF v = 8 THEN 1 ELSE 0
  <2>1. GateFor(v) \in Vectors /\ (GateFor(v) = 8 <=> v = 8)
    BY DEF GateFor, Vectors, Exceptions
  <2> QED
    BY <2>1, EntriesRight DEF Loaded
<1>2. InTss(Rsp0) = globalTss["rsp0"] /\ InTss(IstAt(1)) = Top(double_fault_stack)
  BY MembersRight DEF InTss, Loaded
<1>3. Rpl(cpu.cs) = 3 <=> cpu.cs = UserCode
  BY DEF Rpl, KernelCode, UserCode
<1> QED
  BY <1>1, <1>2, <1>3 DEF StackFor, EntryStack

\* Raising a vector with the tables loaded enters its handler, and never loses the
\* CPU.
LEMMA RaiseEnters ==
    ASSUME layout \in Layouts, Loaded, cpu.cs \in {KernelCode, UserCode}, NEW v \in Exceptions \cup {32},
           NEW cause, EntryStack(v) # Null, RaiseFor(cause, v)
    PROVE  Enters(cause, v)
<1> DEFINE gate == idt_entries[GateFor(v)]
<1>1. GateFor(v) \in Vectors /\ (GateFor(v) = 32 <=> v = 32) /\ GateFor(v) # NoVector
  BY DEF GateFor, Vectors, Exceptions, NoVector
<1>2. Accepted(v) = GateFor(v) /\ StackFor(gate) = EntryStack(v)
  BY VectorTaken, StackTaken
<1>3. HandlerOf(GateFor(v)) \in HandlerNames
  BY <1>1 DEF Vectors, HandlerOf, HandlerNames
<1>4. /\ (ClearsInterrupts(gate) <=> v = 32) /\ Selector(gate) = 8
      /\ Symbol(Handler(gate)) = HandlerOf(GateFor(v))
  BY <1>1, <1>3, EntriesRight, SymbolRight DEF Loaded
<1>5. Rpl(cpu.cs) = 3 <=> cpu.cs = UserCode
  BY DEF Rpl, KernelCode, UserCode
<1>6. Enter(gate) /\ raised' = [raised EXCEPT ![Running] = Append(@, cause)]
  BY <1>1, <1>2 DEF RaiseFor
<1> HIDE DEF gate
<1>7. stacks' = Pushed(EntryStack(v), FrameOf(cpu))
  BY <1>2, <1>6 DEF Enter, FrameOf
<1>8. cpu' = [cpu EXCEPT !.rip = HandlerOf(GateFor(v)), !.rsp = Below(EntryStack(v), FrameOf(cpu)),
                         !.flag = cpu.flag /\ v # 32, !.cs = KernelCode,
                         !.ss = IF cpu.cs = UserCode THEN 0 ELSE cpu.ss]
  BY <1>2, <1>4, <1>5, <1>6 DEF Enter, FrameOf, KernelCode
<1> QED
  BY <1>6, <1>7, <1>8 DEF Enters

-----------------------------------------------------------------------------
\* Words pushed on stacks

\* A sequence over any set is one over its own values.
LEMMA SeqIsSeq ==
    ASSUME NEW S, NEW s \in Seq(S)
    PROVE  IsSeq(s)
  BY DEF IsSeq

\* The sequence s, cut at depth, with words pushed
PushedOn(s, depth, words) == SubSeq(s, 1, depth) \o words

\* The sequence new is s with words pushed.
PushedSeq(new, s, depth, words) ==
    /\ IsSeq(new) /\ Len(new) = depth + Len(words)
    /\ \A i \in 1..depth : new[i] = s[i]
    /\ \A i \in 1..Len(words) : new[depth + i] = words[i]

\* Below depth the sequence stays, and from there on it is the words.
LEMMA PushedWords ==
    ASSUME NEW s, NEW words, IsSeq(s), IsSeq(words), NEW depth \in 0..Len(s)
    PROVE  PushedSeq(PushedOn(s, depth, words), s, depth, words)
<1> DEFINE S == {s[i] : i \in DOMAIN s} \cup {words[i] : i \in DOMAIN words}
           first == SubSeq(s, 1, depth)
<1>1. s \in Seq(S) /\ words \in Seq(S)
  BY DEF IsSeq
<1> HIDE DEF S
<1>2. first \in Seq(S) /\ Len(first) = depth /\ \A i \in 1..depth : first[i] = s[i]
  BY <1>1, SubSeqProperties
<1> HIDE DEF first
<1>3. /\ first \o words \in Seq(S) /\ Len(first \o words) = depth + Len(words)
      /\ \A i \in 1..depth + Len(words) : (first \o words)[i] = IF i <= depth THEN first[i] ELSE words[i - depth]
  BY <1>1, <1>2, ConcatProperties
<1>4. Len(words) \in Nat
  BY <1>1
<1>5. IsSeq(first \o words)
  BY <1>3, SeqIsSeq
<1> HIDE DEF S, first
<1>6. ASSUME NEW i \in 1..depth
      PROVE  (first \o words)[i] = s[i]
  BY <1>2, <1>3, <1>4
<1>7. ASSUME NEW i \in 1..Len(words)
      PROVE  (first \o words)[depth + i] = words[i]
  BY <1>3, <1>4
<1> QED
  BY <1>3, <1>5, <1>6, <1>7 DEF first, PushedOn, PushedSeq

\* The memory new is mem with words pushed on a stack.
PushedMem(new, mem, stack, depth, words) ==
    /\ DOMAIN new = Stacks /\ \A s \in Stacks : IsSeq(new[s])
    /\ \A s \in Stacks : s # stack => new[s] = mem[s]
    /\ Len(new[stack]) = depth + Len(words)
    /\ \A i \in 1..depth : new[stack][i] = mem[stack][i]
    /\ \A i \in 1..Len(words) : new[stack][depth + i] = words[i]

\* Pushing on one stack leaves the others as they are.
LEMMA MemPushed ==
    ASSUME NEW mem, DOMAIN mem = Stacks, \A s \in Stacks : IsSeq(mem[s]),
           NEW stack \in Stacks, NEW depth \in 0..Len(mem[stack]), NEW words, IsSeq(words)
    PROVE  PushedMem([mem EXCEPT ![stack] = PushedOn(mem[stack], depth, words)], mem, stack, depth, words)
<1> DEFINE r == PushedOn(mem[stack], depth, words)
           new == [mem EXCEPT ![stack] = r]
<1>2. /\ IsSeq(r) /\ Len(r) = depth + Len(words)
      /\ \A i \in 1..depth : r[i] = mem[stack][i]
      /\ \A i \in 1..Len(words) : r[depth + i] = words[i]
  <2>1. PushedSeq(r, mem[stack], depth, words)
    BY PushedWords
  <2> QED
    BY <2>1 DEF PushedSeq
<1> HIDE DEF r
<1>4. DOMAIN new = Stacks /\ new[stack] = r /\ \A s \in Stacks : s # stack => new[s] = mem[s]
  OBVIOUS
<1> HIDE DEF new
<1>5. PushedMem(new, mem, stack, depth, words)
  BY <1>2, <1>4 DEF PushedMem
<1> QED
  BY <1>5 DEF new, r

\* The same of the stacks, as Boot pushes on them.
LEMMA StacksPushed ==
    ASSUME DOMAIN stacks = Stacks, \A s \in Stacks : IsSeq(stacks[s]),
           NEW stack \in Stacks, NEW depth \in 0..Len(stacks[stack]), NEW words, IsSeq(words)
    PROVE  PushedMem(Pushed(Address(stack, depth), words), stacks, stack, depth, words)
<1>1. Pushed(Address(stack, depth), words) = [stacks EXCEPT ![stack] = PushedOn(stacks[stack], depth, words)]
  BY DEF Pushed, Address, PushedOn
<1>2. \A mem : DOMAIN mem = Stacks /\ (\A s \in Stacks : IsSeq(mem[s])) /\ depth \in 0..Len(mem[stack]) =>
          PushedMem([mem EXCEPT ![stack] = PushedOn(mem[stack], depth, words)], mem, stack, depth, words)
  BY MemPushed
<1> QED
  BY <1>1, <1>2

\* An interrupt pushes five words.
LEMMA FrameWords ==
    ASSUME NEW c
    PROVE  IsSeq(FrameOf(c)) /\ Len(FrameOf(c)) = 5
<1>1. \A v, w, x, y, z : IsSeq(<<v, w, x, y, z>>) /\ Len(<<v, w, x, y, z>>) = 5
  <2> SUFFICES ASSUME NEW v, NEW w, NEW x, NEW y, NEW z
               PROVE  IsSeq(<<v, w, x, y, z>>) /\ Len(<<v, w, x, y, z>>) = 5
    OBVIOUS
  <2>1. <<v, w, x, y, z>> \in Seq({v, w, x, y, z}) /\ Len(<<v, w, x, y, z>>) = 5
    OBVIOUS
  <2> QED
    BY <2>1, SeqIsSeq
<1> QED
  BY <1>1, Zenon DEF FrameOf, Frame

\* The tables' definitions only look at the layout.
LEMMA SameLayout ==
    ASSUME UNCHANGED layout
    PROVE  /\ FilledGdt' = FilledGdt /\ BusyGdt' = BusyGdt /\ setIdtEntries' = setIdtEntries
           /\ GdtrValue' = GdtrValue /\ IdtrValue' = IdtrValue
  BY DEF FilledGdt, BusyGdt, setIdtEntries, Entry, GdtrValue, IdtrValue

\* What a step leaves alone so that tables that are loaded stay so
TablesKept ==
    /\ UNCHANGED <<layout, gdtArray, idt_entries>>
    /\ cpu'.gdtr = cpu.gdtr /\ cpu'.tr = cpu.tr /\ cpu'.idtr = cpu.idtr
    /\ globalTss'["ist0"] = globalTss["ist0"] /\ pit'.irqs = pit.irqs

\* And they do.
LEMMA LoadedKept == ASSUME Loaded, TablesKept PROVE Loaded'
  BY SameLayout DEF Loaded, TablesKept

\* ThreadsInv looks at the control blocks and at what is raised only.
LEMMA ThreadsKept == ASSUME ThreadsInv, UNCHANGED <<blocks, raised>> PROVE ThreadsInv'
  BY DEF ThreadsInv

\* initGdt fills every entry of the table, from an empty one (Gdt.cpp:15-55).
LEMMA FilledByInit ==
    ASSUME gdtArray = [i \in 0..6 |-> Empty]
    PROVE  setSystemEntry(Segments(gdtArray), 5, layout["globalTss"], SizeOfTSS - 1, 137, 10) = FilledGdt
<1> DEFINE entry == SystemEntry(layout["globalTss"], SizeOfTSS - 1, 137, 10)
<1>1. setSystemEntry(Segments(gdtArray), 5, layout["globalTss"], SizeOfTSS - 1, 137, 10) =
          [Segments(gdtArray) EXCEPT ![5] = entry[1], ![6] = entry[2]]
  BY DEF setSystemEntry
<1>2. FilledGdt = [i \in 0..6 |->
          CASE i = 0 -> Empty
            [] i = 1 -> SegmentDescriptor(155, 10)
            [] i = 2 -> SegmentDescriptor(147, 10)
            [] i = 3 -> SegmentDescriptor(243, 10)
            [] i = 4 -> SegmentDescriptor(251, 10)
            [] i = 5 -> entry[1]
            [] i = 6 -> entry[2]]
  BY DEF FilledGdt
<1> HIDE DEF entry
<1> DEFINE filled == [Segments(gdtArray) EXCEPT ![5] = entry[1], ![6] = entry[2]]
<1>3. DOMAIN filled = 0..6
  BY DEF Segments, setEntry
<1>4. ASSUME NEW i \in 0..6
      PROVE  filled[i] = FilledGdt[i]
  BY <1>2 DEF Segments, setEntry
<1>5. filled = FilledGdt
  <2>1. FilledGdt = [i \in 0..6 |-> FilledGdt[i]]
    BY <1>2
  <2>2. filled = [i \in 0..6 |-> filled[i]]
    BY <1>3
  <2> HIDE DEF filled
  <2> QED
    BY <1>4, <2>1, <2>2
<1> QED
  BY <1>1, <1>5

\* Threads, labels and stacks are told apart.
LEMMA BodiesApart ==
    /\ \A t \in Bodies : t \notin Labels /\ t # None
    /\ Main \in Bodies /\ Main \notin Users /\ Users \subseteq Bodies
<1>1. Main \notin Labels /\ Main # None
  BY DEF Labels, HandlerNames, Main, None
<1> QED
  BY <1>1, BootAssumption DEF Bodies

\* The places of boot and of the handlers are places of code.
LEMMA LabelsAre ==
    /\ Early \subseteq Labels /\ Kmain \subseteq Labels /\ HandlerNames \subseteq Labels
    /\ {"timerInterrupt", "popall", "Serial::write", "hlt", "lost"} \subseteq Labels
    /\ FaultPlaces \subseteq Labels
  BY DEF Labels, Early, Kmain, FaultPlaces, FaultHandlers

-----------------------------------------------------------------------------
\* Steps of boot

\* What a step of boot leaves as it is.
LEMMA ShapesKept ==
    ASSUME Shapes, UNCHANGED <<layout, stacks, blocks, raised>>, DOMAIN cpu' = DOMAIN cpu,
           cpu'.regs = cpu.regs, DOMAIN globalTss' = DOMAIN globalTss,
           DOMAIN apic' = DOMAIN apic, DOMAIN pit' = DOMAIN pit
    PROVE  Shapes'
  BY DEF Shapes

\* Until kmain the APIC and the timer are as they were at power-on.
LEMMA ApicKept ==
    ASSUME ApicInv, TimerInv, UNCHANGED apic, cpu.rip \in Early, cpu'.rip \in Early \cup {"kmain"}
    PROVE  ApicInv' /\ TimerInv'
  BY DEF ApicInv, TimerInv, Early, Kmain, At

\* Until interrupts are turned on, boot is what Booting says.
LEMMA InEarly ==
    ASSUME Phase, cpu.rip \in Early \cup Kmain
    PROVE  Booting
  BY DEF Phase, Halted, LostThread, Booted, Early, Kmain, At

\* Start: initGdt runs on the boot stack.
LEMMA StartKeeps == IInv /\ Start => IInv'
<1> SUFFICES ASSUME IInv, Start PROVE IInv'
  OBVIOUS
<1> USE DEF IInv
<1>1. /\ cpu.rip = "_start" /\ DOMAIN cpu = {"rip", "rsp", "flag", "cs", "ss", "tr", "gdtr", "idtr", "regs"}
      /\ cpu' = [cpu EXCEPT !.rip = "lgdt", !.flag = FALSE, !.rsp = Top(temp_kernel_stack)]
      /\ UNCHANGED <<layout, idt_entries, idtr, apic, pit, stacks, blocks, currentProcessControlBlock, left, raised>>
  BY DEF Start, At, threads, Shapes
<1>2. /\ cpu'.rip = "lgdt" /\ cpu'.flag = FALSE /\ cpu'.rsp = Top(temp_kernel_stack)
      /\ DOMAIN cpu' = DOMAIN cpu /\ cpu'.regs = cpu.regs
  BY <1>1
<1>3. DOMAIN globalTss' = DOMAIN TSS /\ globalTss'["ist0"] = Top(double_fault_stack)
  <2>1. "ist0" \in DOMAIN TSS /\ DOMAIN globalTss = DOMAIN TSS
    BY DEF TSS, Shapes
  <2> QED
    BY <2>1 DEF Start, initGdt
<1>4. Shapes'
  BY <1>1, <1>2, <1>3, ShapesKept DEF Shapes
<1>5. TablesInv'
  <2>1. gdtArray = [i \in 0..6 |-> Empty]
    BY <1>1 DEF TablesInv, Loading, At, Early
  <2>2. gdtArray' = FilledGdt /\ gdtr' = GdtrValue
    BY <2>1, FilledByInit DEF Start, initGdt, GdtrValue
  <2>3. gdtArray' = FilledGdt' /\ gdtr' = GdtrValue'
    BY <1>1, <2>2, SameLayout
  <2> QED
    BY <1>2, <1>3, <2>3 DEF TablesInv, Loading, At, Early
<1>6. ApicInv' /\ TimerInv'
  BY <1>1, <1>2, ApicKept DEF Early
<1>7. ThreadsInv'
  BY <1>1, ThreadsKept
<1>8. Phase'
  <2>1. Booting
    BY <1>1, InEarly DEF Early
  <2>2. Booting'
    BY <1>1, <1>2, <2>1 DEF Booting, At, Early
  <2> QED
    BY <1>2, <2>2 DEF Phase, Early
<1> QED
  BY <1>4, <1>5, <1>6, <1>7, <1>8

\* LoadGdt: lgdt takes the limit and the base that initGdt stored.
LEMMA LoadGdtKeeps == IInv /\ LoadGdt => IInv'
<1> SUFFICES ASSUME IInv, LoadGdt PROVE IInv'
  OBVIOUS
<1> USE DEF IInv
<1>1. /\ cpu.rip = "lgdt" /\ cpu' = [cpu EXCEPT !.rip = "reload", !.gdtr = gdtr]
      /\ UNCHANGED <<tables, apic, pit, stacks, threads, raised>>
  BY DEF LoadGdt, At
<1>2. /\ cpu'.rip = "reload" /\ cpu'.gdtr = gdtr /\ cpu'.flag = cpu.flag /\ cpu'.rsp = cpu.rsp
      /\ DOMAIN cpu' = DOMAIN cpu /\ cpu'.regs = cpu.regs
  BY <1>1 DEF Shapes
<1>3. Shapes'
  BY <1>1, <1>2, ShapesKept DEF tables, threads
<1>4. TablesInv'
  BY <1>1, <1>2, SameLayout DEF TablesInv, Loading, At, Early, tables
<1>5. ApicInv' /\ TimerInv'
  BY <1>1, <1>2, ApicKept DEF Early
<1>6. ThreadsInv'
  BY <1>1, ThreadsKept DEF threads
<1>7. Phase'
  <2>1. Booting
    BY <1>1, InEarly DEF Early
  <2>2. Booting'
    BY <1>1, <1>2, <2>1 DEF Booting, At, Early, threads
  <2> QED
    BY <1>2, <2>2 DEF Phase, Early
<1> QED
  BY <1>3, <1>4, <1>5, <1>6, <1>7

\* ReloadCs: the code segment is there and is code for ring 0, so nothing is raised.
LEMMA ReloadCsKeeps == IInv /\ ReloadCs => IInv'
<1> SUFFICES ASSUME IInv, ReloadCs PROVE IInv'
  OBVIOUS
<1> USE DEF IInv
<1>1. cpu.rip = "reload" /\ UNCHANGED <<tables, apic, pit, threads>>
  BY DEF ReloadCs, At
<1>2. cpu' = [cpu EXCEPT !.rip = "after_cs_reload", !.cs = KernelCode] /\ UNCHANGED <<stacks, raised>>
  <2>1. layout \in Layouts /\ gdtArray = FilledGdt /\ cpu.gdtr = GdtrValue
    BY <1>1 DEF Shapes, TablesInv, Loading, At, Early
  <2>2. InTable(KernelCode) /\ IsCode(Descriptor(KernelCode)) /\ Dpl(Descriptor(KernelCode)) = 0
    BY <2>1, SegmentsRight
  <2> QED
    BY <2>2 DEF ReloadCs
<1>3. /\ cpu'.rip = "after_cs_reload" /\ cpu'.cs = KernelCode /\ cpu'.gdtr = cpu.gdtr /\ cpu'.flag = cpu.flag
      /\ cpu'.rsp = cpu.rsp /\ DOMAIN cpu' = DOMAIN cpu /\ cpu'.regs = cpu.regs
  BY <1>2 DEF Shapes
<1>4. Shapes'
  BY <1>1, <1>2, <1>3, ShapesKept DEF tables, threads
<1>5. TablesInv'
  BY <1>1, <1>3, SameLayout DEF TablesInv, Loading, At, Early, tables
<1>6. ApicInv' /\ TimerInv'
  BY <1>1, <1>3, ApicKept DEF Early
<1>7. ThreadsInv'
  BY <1>1, <1>2, ThreadsKept DEF threads
<1>8. Phase'
  <2>1. Booting
    BY <1>1, InEarly DEF Early
  <2>2. Booting'
    BY <1>1, <1>2, <1>3, <2>1 DEF Booting, At, Early, threads
  <2> QED
    BY <1>3, <2>2 DEF Phase, Early
<1> QED
  BY <1>4, <1>5, <1>6, <1>7, <1>8

\* LoadSegments: so are the data segment and the task.
LEMMA LoadSegmentsKeeps == IInv /\ LoadSegments => IInv'
<1> SUFFICES ASSUME IInv, LoadSegments PROVE IInv'
  OBVIOUS
<1> USE DEF IInv
<1>1. /\ cpu.rip = "after_cs_reload"
      /\ UNCHANGED <<layout, gdtr, globalTss, idt_entries, idtr, apic, pit, threads>>
  BY DEF LoadSegments, At
<1>2. layout \in Layouts /\ gdtArray = FilledGdt /\ cpu.gdtr = GdtrValue
  BY <1>1 DEF Shapes, TablesInv, Loading, At, Early
<1>3. /\ cpu' = [cpu EXCEPT !.rip = "initIdt", !.ss = KernelData, !.tr = layout["globalTss"]]
      /\ gdtArray' = BusyGdt /\ UNCHANGED <<stacks, raised>>
  <2>1. InTable(KernelData) /\ IsStack(Descriptor(KernelData)) /\ Dpl(Descriptor(KernelData)) = 0
    BY <1>2, SegmentsRight
  <2>2. /\ InTable(Task) /\ IsFreeTask(Descriptor(Task))
        /\ BaseOf(Descriptor(Task), gdtArray[Task \div 8 + 1]) = layout["globalTss"]
    BY <1>2, TaskRight
  <2>3. gdtArray' = [gdtArray EXCEPT ![Task \div 8] = Busy(@)]
    BY <2>1, <2>2 DEF LoadSegments
  <2>4. Task \div 8 = 5
    BY DEF Task
  <2> QED
    BY <1>2, <2>1, <2>2, <2>3, <2>4 DEF LoadSegments, BusyGdt
<1>4. /\ cpu'.rip = "initIdt" /\ cpu'.ss = KernelData /\ cpu'.tr = layout["globalTss"] /\ cpu'.cs = cpu.cs
      /\ cpu'.gdtr = cpu.gdtr /\ cpu'.flag = cpu.flag /\ cpu'.rsp = cpu.rsp
      /\ DOMAIN cpu' = DOMAIN cpu /\ cpu'.regs = cpu.regs
  BY <1>3 DEF Shapes
<1>5. Shapes'
  BY <1>1, <1>3, <1>4, ShapesKept DEF threads
<1>6. TablesInv'
  BY <1>1, <1>3, <1>4, SameLayout DEF TablesInv, Loading, At, Early
<1>7. ApicInv' /\ TimerInv'
  BY <1>1, <1>4, ApicKept DEF Early
<1>8. ThreadsInv'
  BY <1>1, <1>3, ThreadsKept DEF threads
<1>9. Phase'
  <2>1. Booting
    BY <1>1, InEarly DEF Early
  <2>2. Booting'
    BY <1>1, <1>3, <1>4, <2>1 DEF Booting, At, Early, threads
  <2> QED
    BY <1>4, <2>2 DEF Phase, Early
<1> QED
  BY <1>5, <1>6, <1>7, <1>8, <1>9

\* InitIdt: the table of gates is filled but not loaded.
LEMMA InitIdtKeeps == IInv /\ InitIdt => IInv'
<1> SUFFICES ASSUME IInv, InitIdt PROVE IInv'
  OBVIOUS
<1> USE DEF IInv
<1>1. /\ cpu.rip = "initIdt" /\ cpu' = [cpu EXCEPT !.rip = "lidt"]
      /\ idt_entries' = setIdtEntries /\ idtr' = IdtrValue
      /\ UNCHANGED <<layout, gdtArray, gdtr, globalTss, apic, pit, stacks, threads, raised>>
  BY DEF InitIdt, At, Go, initIdt, IdtrValue
<1>2. /\ cpu'.rip = "lidt" /\ cpu'.tr = cpu.tr /\ cpu'.cs = cpu.cs /\ cpu'.ss = cpu.ss
      /\ cpu'.gdtr = cpu.gdtr /\ cpu'.flag = cpu.flag /\ cpu'.rsp = cpu.rsp
      /\ DOMAIN cpu' = DOMAIN cpu /\ cpu'.regs = cpu.regs
  BY <1>1 DEF Shapes
<1>3. Shapes'
  BY <1>1, <1>2, ShapesKept DEF threads
<1>4. TablesInv'
  BY <1>1, <1>2, SameLayout DEF TablesInv, Loading, At, Early
<1>5. ApicInv' /\ TimerInv'
  BY <1>1, <1>2, ApicKept DEF Early
<1>6. ThreadsInv'
  BY <1>1, ThreadsKept DEF threads
<1>7. Phase'
  <2>1. Booting
    BY <1>1, InEarly DEF Early
  <2>2. Booting'
    BY <1>1, <1>2, <2>1 DEF Booting, At, Early, threads
  <2> QED
    BY <1>2, <2>2 DEF Phase, Early
<1> QED
  BY <1>3, <1>4, <1>5, <1>6, <1>7

\* LoadIdt: from here on every vector of Exceptions has a gate.
LEMMA LoadIdtKeeps == IInv /\ LoadIdt => IInv'
<1> SUFFICES ASSUME IInv, LoadIdt PROVE IInv'
  OBVIOUS
<1> USE DEF IInv
<1>1. /\ cpu.rip = "lidt" /\ cpu' = [cpu EXCEPT !.rip = "mask", !.idtr = idtr]
      /\ UNCHANGED <<tables, apic, pit, stacks, threads, raised>>
  BY DEF LoadIdt, At
<1>2. /\ cpu'.rip = "mask" /\ cpu'.idtr = idtr /\ cpu'.tr = cpu.tr /\ cpu'.cs = cpu.cs /\ cpu'.ss = cpu.ss
      /\ cpu'.gdtr = cpu.gdtr /\ cpu'.flag = cpu.flag /\ cpu'.rsp = cpu.rsp
      /\ DOMAIN cpu' = DOMAIN cpu /\ cpu'.regs = cpu.regs
  BY <1>1 DEF Shapes
<1>3. Shapes'
  BY <1>1, <1>2, ShapesKept DEF tables, threads
<1>4. TablesInv'
  BY <1>1, <1>2, SameLayout DEF TablesInv, Loading, At, Early, tables
<1>5. ApicInv' /\ TimerInv'
  BY <1>1, <1>2, ApicKept DEF Early
<1>6. ThreadsInv'
  BY <1>1, ThreadsKept DEF threads
<1>7. Phase'
  <2>1. Booting
    BY <1>1, InEarly DEF Early
  <2>2. Booting'
    BY <1>1, <1>2, <2>1 DEF Booting, At, Early, threads
  <2> QED
    BY <1>2, <2>2 DEF Phase, Early
<1> QED
  BY <1>3, <1>4, <1>5, <1>6, <1>7

\* MaskPic: and from here on nothing but the APIC requests one.
LEMMA MaskPicKeeps == IInv /\ MaskPic => IInv'
<1> SUFFICES ASSUME IInv, MaskPic PROVE IInv'
  OBVIOUS
<1> USE DEF IInv
<1>1. /\ cpu.rip = "mask" /\ cpu' = [cpu EXCEPT !.rip = "kmain"] /\ pit' = [pit EXCEPT !.irqs = {}]
      /\ UNCHANGED <<tables, apic, stacks, threads, raised>>
  BY DEF MaskPic, At, Go
<1>2. /\ cpu'.rip = "kmain" /\ cpu'.idtr = cpu.idtr /\ cpu'.tr = cpu.tr /\ cpu'.cs = cpu.cs /\ cpu'.ss = cpu.ss
      /\ cpu'.gdtr = cpu.gdtr /\ cpu'.flag = cpu.flag /\ cpu'.rsp = cpu.rsp
      /\ DOMAIN cpu' = DOMAIN cpu /\ cpu'.regs = cpu.regs
  BY <1>1 DEF Shapes
<1>3. DOMAIN pit' = DOMAIN pit /\ pit'.irqs = {}
  BY <1>1 DEF Shapes
<1>4. Shapes'
  BY <1>1, <1>2, <1>3, ShapesKept DEF tables, threads
<1>5. TablesInv'
  <2>1. Loaded'
    BY <1>1, <1>2, <1>3, SameLayout DEF TablesInv, Loading, Loaded, At, Early, tables
  <2> QED
    BY <1>2, <2>1 DEF TablesInv, Early
<1>6. ApicInv' /\ TimerInv'
  BY <1>1, <1>2, ApicKept DEF Early
<1>7. ThreadsInv'
  BY <1>1, ThreadsKept DEF threads
<1>8. Phase'
  <2>1. Booting
    BY <1>1, InEarly DEF Early
  <2>2. Booting'
    BY <1>1, <1>2, <2>1 DEF Booting, At, Early, threads
  <2> QED
    BY <1>2, <2>2 DEF Phase, Kmain
<1> QED
  BY <1>4, <1>5, <1>6, <1>7, <1>8

\* The registers after a vector was taken
LEMMA EntersCpu ==
    ASSUME Shapes, NEW cause, NEW v, Enters(cause, v)
    PROVE  /\ cpu'.rip = HandlerOf(GateFor(v)) /\ cpu'.rsp = Below(EntryStack(v), FrameOf(cpu))
           /\ cpu'.flag = (cpu.flag /\ v # 32) /\ cpu'.cs = KernelCode
           /\ cpu'.ss = IF cpu.cs = UserCode THEN 0 ELSE cpu.ss
           /\ cpu'.gdtr = cpu.gdtr /\ cpu'.idtr = cpu.idtr /\ cpu'.tr = cpu.tr
           /\ cpu'.regs = cpu.regs /\ DOMAIN cpu' = DOMAIN cpu
<1> DEFINE rip == HandlerOf(GateFor(v))
           rsp == Below(EntryStack(v), FrameOf(cpu))
           flag == cpu.flag /\ v # 32
           ss == IF cpu.cs = UserCode THEN 0 ELSE cpu.ss
<1>1. cpu' = [cpu EXCEPT !.rip = rip, !.rsp = rsp, !.flag = flag, !.cs = KernelCode, !.ss = ss]
  BY DEF Enters
<1> HIDE DEF rip, rsp, flag, ss
<1>2. /\ cpu'.rip = rip /\ cpu'.rsp = rsp /\ cpu'.flag = flag /\ cpu'.cs = KernelCode /\ cpu'.ss = ss
      /\ cpu'.gdtr = cpu.gdtr /\ cpu'.idtr = cpu.idtr /\ cpu'.tr = cpu.tr
      /\ cpu'.regs = cpu.regs /\ DOMAIN cpu' = DOMAIN cpu
  BY <1>1 DEF Shapes
<1> QED
  BY <1>2, Zenon DEF rip, rsp, flag, ss

\* ClearScreen: without a framebuffer the page fault is kernelMainThread's, and boot
\* ends there.
LEMMA ClearScreenKeeps == IInv /\ ClearScreen => IInv'
<1> SUFFICES ASSUME IInv, ClearScreen PROVE IInv'
  OBVIOUS
<1> USE DEF IInv
<1>1. /\ cpu.rip = "kmain" /\ UNCHANGED <<tables, apic, pit, threads>>
  BY DEF ClearScreen, At
<1>2. Booting /\ Loaded
  BY <1>1, InEarly DEF Kmain, TablesInv, Early
<1>3. CASE Go("Process::init") /\ UNCHANGED <<stacks, raised>>
  <2>1. /\ cpu'.rip = "Process::init" /\ cpu'.idtr = cpu.idtr /\ cpu'.tr = cpu.tr /\ cpu'.cs = cpu.cs
        /\ cpu'.ss = cpu.ss /\ cpu'.gdtr = cpu.gdtr /\ cpu'.flag = cpu.flag /\ cpu'.rsp = cpu.rsp
        /\ DOMAIN cpu' = DOMAIN cpu /\ cpu'.regs = cpu.regs
    BY <1>3 DEF Shapes, Go
  <2>2. Shapes'
    BY <1>1, <1>3, <2>1, ShapesKept DEF tables, threads
  <2>3. TablesInv'
    BY <1>1, <1>2, <2>1, LoadedKept DEF TablesKept, tables, TablesInv, Early
  <2>4. ApicInv' /\ TimerInv'
    BY <1>1, <2>1 DEF ApicInv, TimerInv, Early, Kmain, At
  <2>5. ThreadsInv'
    BY <1>1, <1>3, ThreadsKept DEF threads
  <2>6. Phase'
    <3>1. Booting'
      BY <1>1, <1>2, <1>3, <2>1 DEF Booting, At, Early, threads
    <3> QED
      BY <2>1, <3>1 DEF Phase, Kmain
  <2> QED
    BY <2>2, <2>3, <2>4, <2>5, <2>6
<1>4. CASE Raise(14)
  <2>1. /\ cpu.cs = KernelCode /\ cpu.rsp = Top(temp_kernel_stack) /\ cpu.flag = FALSE
        /\ currentProcessControlBlock = None /\ Running = Main /\ raised[Main] = <<>> /\ Main \in Bodies
    BY <1>1, <1>2 DEF Booting, At, Early, Running, Bodies
  <2>2. EntryStack(14) = Top(temp_kernel_stack) /\ EntryStack(14) # Null
    BY <2>1 DEF EntryStack, KernelCode, UserCode, Top, Address, Null, temp_kernel_stack
  <2>3. Enters(14, 14)
    BY <1>2, <1>4, <2>1, <2>2, RaiseEnters DEF Raise, Exceptions, Shapes
  <2>4. /\ cpu'.rip = "pageFault" /\ cpu'.idtr = cpu.idtr /\ cpu'.tr = cpu.tr
        /\ cpu'.gdtr = cpu.gdtr /\ cpu'.flag = FALSE
        /\ DOMAIN cpu' = DOMAIN cpu /\ cpu'.regs = cpu.regs
    <3>1. HandlerOf(GateFor(14)) = "pageFault"
      BY DEF HandlerOf, GateFor
    <3>2. cpu'.flag = (cpu.flag /\ 14 # 32)
      BY <2>3, EntersCpu
    <3>3. cpu'.flag = FALSE
      BY <2>1, <3>2
    <3> QED
      BY <2>3, <3>1, <3>3, EntersCpu
  <2>5. /\ DOMAIN raised' = Bodies /\ raised'[Main] = <<14>>
        /\ \A t \in Bodies : t # Main => raised'[t] = raised[t]
    <3>1. raised' = [raised EXCEPT ![Main] = Append(raised[Main], 14)] /\ DOMAIN raised = Bodies
      BY <2>1, <2>3 DEF Enters, Shapes
    <3>2. Append(raised[Main], 14) = <<14>>
      BY <2>1
    <3> QED
      BY <2>1, <3>1, <3>2
  <2>6. DOMAIN stacks' = Stacks /\ \A s \in Stacks : IsSeq(stacks'[s])
    <3>1. temp_kernel_stack \in Stacks
      BY DEF Stacks
    <3>2. DOMAIN stacks = Stacks /\ \A s \in Stacks : IsSeq(stacks[s])
      BY DEF Shapes
    <3>3. Len(stacks[temp_kernel_stack]) \in Nat
      BY <3>1, <3>2 DEF IsSeq
    <3>4. stacks' = Pushed(Address(temp_kernel_stack, 0), FrameOf(cpu))
      BY <2>2, <2>3 DEF Enters, Top
    <3> QED
      BY <3>1, <3>2, <3>3, <3>4, FrameWords, StacksPushed DEF PushedMem
  <2>7. Shapes'
    BY <1>1, <2>4, <2>5, <2>6 DEF Shapes, tables, threads
  <2>8. TablesInv'
    BY <1>1, <1>2, <2>4, LoadedKept DEF TablesKept, tables, TablesInv, Early
  <2>9. ApicInv' /\ TimerInv'
    BY <1>1, <2>1, <2>4 DEF ApicInv, TimerInv, Early, Kmain, At, threads
  <2>10. ThreadsInv'
    <3>1. \A t \in Bodies : raised[t] = <<>>
      BY <1>2 DEF Booting
    <3>2. \A t \in Bodies : raised'[t] = IF t = Main THEN <<14>> ELSE <<>>
      BY <2>1, <2>5, <3>1
    <3>3. \A t \in Bodies : raised'[t] \in Raisings
      <4>1. <<14>> \in Raisings /\ <<>> \in Raisings
        BY DEF Raisings, Exceptions
      <4> QED
        BY <3>2, <4>1
    <3>4. \A t \in Threads : t \in Bodies /\ t # Main
      BY BootAssumption DEF Bodies
    <3> QED
      BY <1>1, <3>2, <3>3, <3>4 DEF ThreadsInv, threads
  <2>11. Halted'
    <3>1. cpu'.cs = KernelCode /\ cpu'.ss = KernelData /\ cpu'.rsp = Address(temp_kernel_stack, 5)
      <4>1. cpu'.cs = KernelCode /\ cpu'.rsp = Below(Top(temp_kernel_stack), FrameOf(cpu))
            /\ cpu'.ss = IF cpu.cs = UserCode THEN 0 ELSE cpu.ss
        BY <2>2, <2>3, EntersCpu
      <4>2. cpu.ss = KernelData
        BY <1>1, <1>2 DEF Booting, At
      <4>3. Top(temp_kernel_stack).stack = temp_kernel_stack /\ Top(temp_kernel_stack).depth = 0
        BY DEF Top, Address
      <4>4. Len(FrameOf(cpu)) = 5
        BY FrameWords
      <4>5. Below(Top(temp_kernel_stack), FrameOf(cpu)) = Address(temp_kernel_stack, 5)
        BY <4>3, <4>4 DEF Below
      <4> QED
        BY <2>1, <4>1, <4>2, <4>5 DEF KernelCode, UserCode
    <3>2. KernelStack(Main, <<14>>) = temp_kernel_stack
      BY BodiesApart DEF KernelStack, Doubled, BodyStack
    <3>3. OnStack(stacks', cpu'.rsp, temp_kernel_stack, 0)
      <4>1. temp_kernel_stack \in Stacks
        BY DEF Stacks
      <4>2. DOMAIN stacks = Stacks /\ \A s \in Stacks : IsSeq(stacks[s])
        BY DEF Shapes
      <4>3. Len(stacks[temp_kernel_stack]) \in Nat
        BY <4>1, <4>2 DEF IsSeq
      <4>4. stacks' = Pushed(Address(temp_kernel_stack, 0), FrameOf(cpu))
        BY <2>2, <2>3 DEF Enters, Top
      <4>5. Len(stacks'[temp_kernel_stack]) = 0 + Len(FrameOf(cpu))
        BY <4>1, <4>2, <4>3, <4>4, FrameWords, StacksPushed DEF PushedMem
      <4>6. Address(temp_kernel_stack, 5).depth = 5
        BY DEF Address
      <4>7. Len(FrameOf(cpu)) = 5
        BY FrameWords
      <4>8. Len(stacks'[temp_kernel_stack]) = 5
        BY <4>5, <4>7
      <4> QED
        BY <3>1, <4>6, <4>8 DEF OnStack
    <3>4. Meant(14) = "pageFault"
      BY DEF Meant, OldRequest
    <3>5. InFault(stacks', cpu', Main, 14)
      BY <2>4, <3>1, <3>2, <3>3, <3>4 DEF InFault
    <3> QED
      BY <1>1, <2>1, <2>4, <2>5, <3>5 DEF Halted, threads
  <2> QED
    BY <2>7, <2>8, <2>9, <2>10, <2>11 DEF Phase
<1> QED
  BY <1>3, <1>4 DEF ClearScreen

\* InitProcess: boot has a control block.
LEMMA InitProcessKeeps == IInv /\ InitProcess => IInv'
<1> SUFFICES ASSUME IInv, InitProcess PROVE IInv'
  OBVIOUS
<1> USE DEF IInv
<1>1. /\ cpu.rip = "Process::init" /\ cpu' = [cpu EXCEPT !.rip = "xApic"]
      /\ blocks' = [t \in {Main} |-> [rsp |-> Top(kernel_stack), syscallRsp |-> Null]]
      /\ currentProcessControlBlock' = Main
      /\ UNCHANGED <<tables, apic, pit, stacks, left, raised>>
  BY DEF InitProcess, At, Go
<1>2. Booting /\ Loaded
  BY <1>1, InEarly DEF Kmain, TablesInv, Early
<1>3. /\ cpu'.rip = "xApic" /\ cpu'.idtr = cpu.idtr /\ cpu'.tr = cpu.tr /\ cpu'.cs = cpu.cs
      /\ cpu'.ss = cpu.ss /\ cpu'.gdtr = cpu.gdtr /\ cpu'.flag = cpu.flag /\ cpu'.rsp = cpu.rsp
      /\ DOMAIN cpu' = DOMAIN cpu /\ cpu'.regs = cpu.regs
  BY <1>1 DEF Shapes
<1>4. DOMAIN blocks' = {Main} /\ DOMAIN blocks'[Main] = {"rsp", "syscallRsp"}
  BY <1>1
<1>5. Shapes'
  BY <1>1, <1>3, <1>4 DEF Shapes, tables
<1>6. TablesInv'
  BY <1>1, <1>2, <1>3, LoadedKept DEF TablesKept, tables, TablesInv, Early
<1>7. ApicInv' /\ TimerInv'
  BY <1>1, <1>3 DEF ApicInv, TimerInv, Early, Kmain, At
<1>8. ThreadsInv'
  <2>1. Main \in Bodies /\ Main \notin Threads /\ Users \subseteq Threads
    BY BootAssumption DEF Bodies
  <2>2. \A t \in Bodies : raised'[t] = <<>>
    BY <1>1, <1>2 DEF Booting
  <2>3. <<>> \in Raisings /\ ~Doubled(<<>>)
    BY DEF Raisings, Doubled
  <2>4. \A t \in Threads : t \in Bodies
    BY DEF Bodies
  <2> QED
    BY <1>4, <2>1, <2>2, <2>3, <2>4 DEF ThreadsInv
<1>9. Phase'
  <2>1. Booting'
    BY <1>1, <1>2, <1>3, <1>4 DEF Booting, At, Early
  <2> QED
    BY <1>3, <2>1 DEF Phase, Kmain
<1> QED
  BY <1>5, <1>6, <1>7, <1>8, <1>9

-----------------------------------------------------------------------------
\* Steps of boot that write to devices

\* The part of kmain that only writes to devices
Devices == Kmain \ {"kmain", "Process::init"}

\* The steps of Apic::init move the CPU on and write a device.
LEMMA DeviceStep ==
    ASSUME IInv, cpu.rip \in Devices, NEW label \in Devices, Go(label),
           UNCHANGED <<tables, stacks, threads, raised>>,
           DOMAIN apic' = DOMAIN apic, DOMAIN pit' = DOMAIN pit, pit'.irqs = pit.irqs
    PROVE  cpu'.rip = label /\ Shapes' /\ TablesInv' /\ ThreadsInv' /\ Phase'
<1> USE DEF IInv
<1>1. /\ cpu'.rip = label /\ cpu'.idtr = cpu.idtr /\ cpu'.tr = cpu.tr /\ cpu'.cs = cpu.cs
      /\ cpu'.ss = cpu.ss /\ cpu'.gdtr = cpu.gdtr /\ cpu'.flag = cpu.flag /\ cpu'.rsp = cpu.rsp
      /\ DOMAIN cpu' = DOMAIN cpu /\ cpu'.regs = cpu.regs
  BY DEF Shapes, Go
<1>2. Booting /\ Loaded
  BY InEarly DEF Devices, Kmain, TablesInv, Early
<1>3. Shapes'
  BY <1>1, ShapesKept DEF tables, threads
<1>4. TablesInv'
  BY <1>1, <1>2, LoadedKept DEF TablesKept, tables, TablesInv, Early, Devices, Kmain
<1>5. ThreadsInv'
  BY ThreadsKept DEF threads
<1>6. Booting'
  BY <1>1, <1>2 DEF Booting, At, Early, Devices, Kmain, threads
<1> QED
  BY <1>1, <1>3, <1>4, <1>5, <1>6 DEF Phase, Devices

\* EnableApic: enabled, then extended, in whichever mode the boot loader left it
LEMMA EnableApicKeeps == IInv /\ EnableApic => IInv'
<1> SUFFICES ASSUME IInv, EnableApic PROVE IInv'
  OBVIOUS
<1> USE DEF IInv
<1>1. ASSUME cpu.rip = "xApic", SetBase(11, "x2Apic")
      PROVE  IInv'
  <2>1. apic.base \in {{}, {11}, {10, 11}}
    BY <1>1 DEF ApicInv
  <2>2. apic.base \cup {11} \in {{11}, {10, 11}}
    BY <2>1
  <2>3. apic' = [apic EXCEPT !.base = apic.base \cup {11}] /\ Go("x2Apic") /\ UNCHANGED <<stacks, raised>>
    <3>1. apic.base \cup {11} # {10} /\ ~(apic.base = {} /\ apic.base \cup {11} = {10, 11})
      BY <2>1
    <3> QED
      BY <1>1, <3>1 DEF SetBase
  <2>4. cpu'.rip = "x2Apic" /\ Shapes' /\ TablesInv' /\ ThreadsInv' /\ Phase'
    BY <1>1, <2>3, DeviceStep DEF EnableApic, Devices, Kmain, Shapes
  <2>5. /\ apic'.base = apic.base \cup {11} /\ apic'.irr = apic.irr /\ apic'.lvt = apic.lvt
        /\ apic'.bus = apic.bus
    BY <2>3 DEF Shapes
  <2>6. ApicInv'
    BY <2>2, <2>4, <2>5 DEF ApicInv, At, Early, Kmain
  <2>7. TimerInv'
    BY <2>4, <2>5 DEF TimerInv, At, Early, Kmain
  <2> QED
    BY <2>4, <2>6, <2>7
<1>2. ASSUME cpu.rip = "x2Apic", SetBase(10, "spurious")
      PROVE  IInv'
  <2>1. apic.base \in {{11}, {10, 11}}
    BY <1>2 DEF ApicInv, At
  <2>2. apic.base \cup {10} = {10, 11}
    BY <2>1
  <2>3. apic' = [apic EXCEPT !.base = apic.base \cup {10}] /\ Go("spurious") /\ UNCHANGED <<stacks, raised>>
    <3>1. apic.base \cup {10} # {10} /\ apic.base # {}
      BY <2>1
    <3> QED
      BY <1>2, <3>1 DEF SetBase
  <2>4. cpu'.rip = "spurious" /\ Shapes' /\ TablesInv' /\ ThreadsInv' /\ Phase'
    BY <1>2, <2>3, DeviceStep DEF EnableApic, Devices, Kmain, Shapes
  <2>5. /\ apic'.base = {10, 11} /\ apic'.irr = apic.irr /\ apic'.lvt = apic.lvt
        /\ apic'.bus = apic.bus
    BY <2>2, <2>3 DEF Shapes
  <2>6. ApicInv'
    BY <2>4, <2>5 DEF ApicInv, At, Early, Kmain
  <2>7. TimerInv'
    BY <2>4, <2>5 DEF TimerInv, At, Early, Kmain
  <2> QED
    BY <2>4, <2>6, <2>7
<1> QED
  BY <1>1, <1>2 DEF EnableApic, At

\* In Apic::init the registers of the x2APIC are there.
LEMMA WriteWrites ==
    ASSUME IInv, cpu.rip \in {"spurious", "divide", "lvt", "count", "timer"}, NEW register, NEW value, NEW next,
           Write(register, value, next)
    PROVE  apic' = [apic EXCEPT ![register] = value] /\ Go(next) /\ UNCHANGED <<stacks, raised>>
  BY DEF IInv, ApicInv, Kmain, Write

\* ConfigureTimer: a timer that is not masked has vector 32.
LEMMA ConfigureTimerKeeps == IInv /\ ConfigureTimer => IInv'
<1> SUFFICES ASSUME IInv, ConfigureTimer PROVE IInv'
  OBVIOUS
<1>1. apic.irr => apic.lvt.vector = 32
  BY DEF IInv, ApicInv
<1>2. ASSUME cpu.rip = "spurious", Write("enabled", TRUE, "divide")
      PROVE  IInv'
  <2>1. apic' = [apic EXCEPT !.enabled = TRUE] /\ Go("divide") /\ UNCHANGED <<stacks, raised>>
    BY <1>2, WriteWrites
  <2>2. cpu'.rip = "divide" /\ Shapes' /\ TablesInv' /\ ThreadsInv' /\ Phase'
    BY <1>2, <2>1, DeviceStep DEF ConfigureTimer, Devices, Kmain, Shapes, IInv
  <2>3. apic'.base = apic.base /\ apic'.irr = apic.irr /\ apic'.lvt = apic.lvt /\ apic'.bus = apic.bus
    BY <2>1 DEF Shapes, IInv
  <2>4. ApicInv' /\ TimerInv'
    BY <1>2, <2>2, <2>3 DEF ApicInv, TimerInv, At, Early, Kmain, IInv
  <2> QED
    BY <2>2, <2>4 DEF IInv
<1>3. ASSUME cpu.rip = "divide", Write("divisor", 16, "lvt")
      PROVE  IInv'
  <2>1. apic' = [apic EXCEPT !.divisor = 16] /\ Go("lvt") /\ UNCHANGED <<stacks, raised>>
    BY <1>3, WriteWrites
  <2>2. cpu'.rip = "lvt" /\ Shapes' /\ TablesInv' /\ ThreadsInv' /\ Phase'
    BY <1>3, <2>1, DeviceStep DEF ConfigureTimer, Devices, Kmain, Shapes, IInv
  <2>3. /\ apic'.base = apic.base /\ apic'.irr = apic.irr /\ apic'.lvt = apic.lvt /\ apic'.bus = apic.bus
        /\ apic'.divisor = 16
    BY <2>1 DEF Shapes, IInv
  <2>4. ApicInv' /\ TimerInv'
    BY <1>3, <2>2, <2>3 DEF ApicInv, TimerInv, At, Early, Kmain, IInv
  <2> QED
    BY <2>2, <2>4 DEF IInv
<1>4. ASSUME cpu.rip = "lvt", Write("lvt", [vector |-> 32, masked |-> ~apic.enabled], "pit")
      PROVE  IInv'
  <2>1. /\ apic' = [apic EXCEPT !.lvt = [vector |-> 32, masked |-> ~apic.enabled]]
        /\ Go("pit") /\ UNCHANGED <<stacks, raised>>
    BY <1>4, WriteWrites
  <2>2. cpu'.rip = "pit" /\ Shapes' /\ TablesInv' /\ ThreadsInv' /\ Phase'
    BY <1>4, <2>1, DeviceStep DEF ConfigureTimer, Devices, Kmain, Shapes, IInv
  <2>3. /\ apic'.base = apic.base /\ apic'.irr = apic.irr /\ apic'.lvt.vector = 32 /\ apic'.bus = apic.bus
        /\ apic'.divisor = apic.divisor
    BY <2>1 DEF Shapes, IInv
  <2>4. ApicInv'
    BY <1>4, <2>2, <2>3 DEF ApicInv, At, Early, Kmain, IInv
  <2>5. TimerInv'
    BY <1>4, <2>2, <2>3 DEF ConfigureTimer, TimerInv, At, Early, Kmain, IInv, threads
  <2> QED
    BY <2>2, <2>4, <2>5 DEF IInv
<1> QED
  BY <1>2, <1>3, <1>4 DEF ConfigureTimer, At

\* What BootAssumption says of the numbers
LEMMA Rates == BusRates \subseteq Nat /\ MaxLate \in Nat /\ CountTop \in Nat
<1>1. pitTicks \in Nat
  BY DEF pitTicks
<1> QED
  BY <1>1, BootAssumption

\* StartPit: 1193 ticks, by two bytes
LEMMA StartPitKeeps == IInv /\ StartPit => IInv'
<1> SUFFICES ASSUME IInv, StartPit PROVE IInv'
  OBVIOUS
<1>1. /\ cpu.rip = "pit" /\ Go("count") /\ UNCHANGED <<tables, apic, stacks, threads, raised>>
      /\ pit' = [pit EXCEPT !.gate = pit.port, !.port = (@ \cap {2, 3, 4, 6, 7}) \cup {0},
                            !.ticks = (pitTicks % 256) + 256 * ((pitTicks \div 256) % 256)]
  BY DEF StartPit, At
<1>2. DOMAIN pit' = DOMAIN pit /\ pit'.irqs = pit.irqs /\ 0 \in pit'.port /\ pit'.ticks = 1193
  <2>1. (pitTicks % 256) + 256 * ((pitTicks \div 256) % 256) = 1193
    BY DEF pitTicks
  <2> QED
    BY <1>1, <2>1 DEF Shapes, IInv
<1>3. cpu'.rip = "count" /\ Shapes' /\ TablesInv' /\ ThreadsInv' /\ Phase'
  BY <1>1, <1>2, DeviceStep DEF Devices, Kmain
<1>4. ApicInv'
  BY <1>1, <1>3 DEF ApicInv, At, Early, Kmain, IInv
<1>5. TimerInv'
  BY <1>1, <1>2, <1>3 DEF TimerInv, At, Early, Kmain, IInv, threads
<1> QED
  BY <1>3, <1>4, <1>5 DEF IInv

\* StartCount: the count starts up to MaxLate ticks behind the PIT.
LEMMA StartCountKeeps == ASSUME NEW late \in 0..MaxLate PROVE IInv /\ StartCount(late) => IInv'
<1> SUFFICES ASSUME IInv, StartCount(late) PROVE IInv'
  OBVIOUS
<1>1. /\ cpu.rip = "count" /\ UNCHANGED <<tables, threads>>
      /\ pit' = [pit EXCEPT !.ticks = IF 0 \in pit.port THEN @ - late ELSE @]
      /\ Write("count", CountTop, "wait")
  BY DEF StartCount, At
<1>2. apic' = [apic EXCEPT !.count = CountTop] /\ Go("wait") /\ UNCHANGED <<stacks, raised>>
  BY <1>1, WriteWrites
<1>3. /\ DOMAIN pit' = DOMAIN pit /\ pit'.irqs = pit.irqs /\ 0 \in pit'.port
      /\ pit'.ticks \in 1193 - MaxLate..1193
  <2>1. pit.ticks = 1193 /\ 0 \in pit.port
    BY <1>1 DEF IInv, TimerInv, At
  <2>2. MaxLate \in Nat
    BY Rates
  <2> QED
    BY <1>1, <2>1, <2>2 DEF Shapes, IInv
<1>4. /\ apic'.base = apic.base /\ apic'.irr = apic.irr /\ apic'.lvt = apic.lvt /\ apic'.bus = apic.bus
      /\ apic'.divisor = apic.divisor /\ apic'.count = CountTop /\ DOMAIN apic' = DOMAIN apic
  BY <1>2 DEF Shapes, IInv
<1>5. cpu'.rip = "wait" /\ Shapes' /\ TablesInv' /\ ThreadsInv' /\ Phase'
  BY <1>1, <1>2, <1>3, <1>4, DeviceStep DEF Devices, Kmain
<1>6. ApicInv'
  BY <1>1, <1>4, <1>5 DEF ApicInv, At, Early, Kmain, IInv
<1>7. TimerInv'
  BY <1>1, <1>3, <1>4, <1>5 DEF TimerInv, At, Early, Kmain, IInv, threads
<1> QED
  BY <1>5, <1>6, <1>7 DEF IInv

\* Wait: what passed on the bus was measured over 1193 ticks but for MaxLate.
LEMMA WaitKeeps == ASSUME NEW late \in 0..MaxLate PROVE IInv /\ Wait(late) => IInv'
<1> SUFFICES ASSUME IInv, Wait(late) PROVE IInv'
  OBVIOUS
<1>1. /\ cpu.rip = "wait" /\ UNCHANGED <<tables, stacks, threads, raised>> /\ Go("timer")
      /\ pit' = [pit EXCEPT !.port = pit.gate, !.ticks = 0]
      /\ apic' = [apic EXCEPT !.count = @ - ((pit.ticks + late) * apic.bus) \div apic.divisor]
  BY DEF Wait, At
<1>2. DOMAIN pit' = DOMAIN pit /\ pit'.irqs = pit.irqs
  BY <1>1 DEF Shapes, IInv
<1>3. /\ apic'.base = apic.base /\ apic'.irr = apic.irr /\ apic'.lvt = apic.lvt /\ apic'.bus = apic.bus
      /\ apic'.divisor = apic.divisor /\ DOMAIN apic' = DOMAIN apic
  BY <1>1 DEF Shapes, IInv
<1>4. cpu'.rip = "timer" /\ Shapes' /\ TablesInv' /\ ThreadsInv' /\ Phase'
  BY <1>1, <1>2, <1>3, DeviceStep DEF Devices, Kmain
<1>5. pit.ticks + late \in Late /\ apic'.count = CountTop - Measured(pit.ticks + late)
  <2>1. currentProcessControlBlock # None
    BY <1>1, InEarly DEF IInv, Booting, Early, Kmain, Main, None
  <2>2. apic.divisor = 16 /\ apic.count = CountTop /\ pit.ticks \in 1193 - MaxLate..1193
    BY <1>1, <2>1 DEF IInv, TimerInv, At, Early
  <2>3. MaxLate \in Nat
    BY Rates
  <2>4. pit.ticks + late \in Late
    BY <2>2, <2>3 DEF Late
  <2>5. apic'.count = apic.count - ((pit.ticks + late) * apic.bus) \div apic.divisor
    BY <1>1 DEF Shapes, IInv
  <2> QED
    BY <2>2, <2>4, <2>5 DEF Measured
<1>6. \E x \in Late : apic'.count = CountTop - (x * apic'.bus) \div 16
  BY <1>3, <1>5 DEF Measured
<1>7. ApicInv'
  BY <1>1, <1>3, <1>4 DEF ApicInv, At, Early, Kmain, IInv
<1>8. TimerInv'
  BY <1>1, <1>3, <1>4, <1>6 DEF TimerInv, At, Early, Kmain, IInv, threads, Measured, Late
<1> QED
  BY <1>4, <1>7, <1>8 DEF IInv

\* StartTimer: the period is what was measured.
LEMMA StartTimerKeeps == IInv /\ StartTimer => IInv'
<1> SUFFICES ASSUME IInv, StartTimer PROVE IInv'
  OBVIOUS
<1>1. /\ cpu.rip = "timer" /\ UNCHANGED <<tables, pit, threads>>
      /\ Write("count", CountTop - apic.count, "sti")
  BY DEF StartTimer, At
<1>2. apic' = [apic EXCEPT !.count = CountTop - apic.count] /\ Go("sti") /\ UNCHANGED <<stacks, raised>>
  BY <1>1, WriteWrites
<1>3. /\ apic'.base = apic.base /\ apic'.irr = apic.irr /\ apic'.lvt = apic.lvt /\ apic'.bus = apic.bus
      /\ apic'.divisor = apic.divisor /\ apic'.count = CountTop - apic.count /\ DOMAIN apic' = DOMAIN apic
  BY <1>2 DEF Shapes, IInv
<1>4. cpu'.rip = "sti" /\ Shapes' /\ TablesInv' /\ ThreadsInv' /\ Phase'
  BY <1>1, <1>2, <1>3, DeviceStep DEF Devices, Kmain
<1>5. \E x \in Late : apic'.count = (x * apic'.bus) \div 16
  <2>1. PICK x \in Late : apic.count = CountTop - Measured(x)
    BY <1>1 DEF IInv, TimerInv, At
  <2>2. apic.bus \in Nat /\ CountTop \in Nat /\ MaxLate \in Nat
    <3>1. apic.bus \in BusRates
      BY DEF IInv, TimerInv
    <3> QED
      BY <3>1, Rates
  <2>3. Measured(x) \in Int
    <3>1. x \in Int
      BY <2>2 DEF Late
    <3>2. x * apic.bus \in Int
      BY <2>2, <3>1
    <3> QED
      BY <3>2 DEF Measured
  <2> HIDE DEF Measured
  <2>4. apic'.count = Measured(x)
    BY <1>3, <2>1, <2>2, <2>3
  <2> QED
    BY <1>3, <2>4 DEF Measured
<1>6. ApicInv'
  BY <1>1, <1>3, <1>4 DEF ApicInv, At, Early, Kmain, IInv
<1>7. TimerInv'
  BY <1>1, <1>3, <1>4, <1>5 DEF TimerInv, At, Early, Kmain, IInv, threads, Measured, Late
<1> QED
  BY <1>4, <1>6, <1>7 DEF IInv

\* setInterrupts: boot becomes the first thread, on the boot stack.
LEMMA setInterruptsKeeps == IInv /\ setInterrupts => IInv'
<1> SUFFICES ASSUME IInv, setInterrupts PROVE IInv'
  OBVIOUS
<1> USE DEF IInv
<1>1. /\ cpu.rip = "sti" /\ cpu' = [cpu EXCEPT !.flag = TRUE, !.rip = Main]
      /\ UNCHANGED <<tables, apic, pit, stacks, threads, raised>>
  BY DEF setInterrupts, At
<1>2. /\ cpu'.rip = Main /\ cpu'.idtr = cpu.idtr /\ cpu'.tr = cpu.tr /\ cpu'.cs = cpu.cs
      /\ cpu'.ss = cpu.ss /\ cpu'.gdtr = cpu.gdtr /\ cpu'.flag = TRUE /\ cpu'.rsp = cpu.rsp
      /\ DOMAIN cpu' = DOMAIN cpu /\ cpu'.regs = cpu.regs
  BY <1>1 DEF Shapes
<1>3. Main \notin Early \cup Kmain /\ Main # None /\ Main \notin Users /\ Main \in Bodies
  <2>1. Main \notin Users /\ Main \in Bodies
    BY BootAssumption DEF Bodies
  <2> QED
    BY <2>1 DEF Main, None, Early, Kmain
<1>4. Booting /\ Loaded
  BY <1>1, InEarly DEF Kmain, TablesInv, Early
<1>5. /\ cpu.cs = KernelCode /\ cpu.ss = KernelData /\ cpu.rsp = Top(temp_kernel_stack)
      /\ currentProcessControlBlock = Main /\ DOMAIN blocks = {Main}
      /\ \A t \in Bodies : raised[t] = <<>>
  BY <1>1, <1>4 DEF Booting, At, Early
<1>6. Shapes'
  BY <1>1, <1>2, ShapesKept DEF tables, threads
<1>7. TablesInv'
  BY <1>1, <1>2, <1>3, <1>4, LoadedKept DEF TablesKept, tables, TablesInv
<1>8. ApicInv'
  BY <1>1, <1>2 DEF ApicInv, At, Early, Kmain, Main
<1>9. TimerInv'
  BY <1>1, <1>2 DEF TimerInv, At, Early, Kmain, Main, threads, Measured, Late
<1>10. ThreadsInv'
  BY <1>1, ThreadsKept DEF threads
<1>11. Phase'
  <2>1. OnStack(stacks', cpu'.rsp, BodyStack(Main), 0)
    <3>1. BodyStack(Main) = temp_kernel_stack
      BY DEF BodyStack
    <3>2. temp_kernel_stack \in Stacks
      BY DEF Stacks
    <3>3. Len(stacks[temp_kernel_stack]) \in Nat
      BY <3>2 DEF Shapes, IsSeq
    <3>4. stacks' = stacks /\ cpu'.rsp = Address(temp_kernel_stack, 0)
      BY <1>1, <1>2, <1>5 DEF Top
    <3> QED
      BY <3>1, <3>3, <3>4 DEF OnStack, Address
  <2>2. InBody(stacks', cpu', Main)
    BY <1>2, <1>3, <1>5, <2>1 DEF InBody
  <2>3. raised'[Main] = <<>> /\ currentProcessControlBlock' = Main /\ DOMAIN blocks' = {Main}
    BY <1>1, <1>3, <1>5 DEF threads
  <2>4. Runs(stacks', cpu', Main, raised'[Main])
    BY <1>2, <2>2, <2>3 DEF Runs
  <2>5. Current' /\ Others' /\ Booted'
    BY <1>2, <1>3, <2>3, <2>4 DEF Current, Others, Booted
  <2>6. DoubleStack'
    <3>1. \A t \in Bodies : raised'[t] = <<>>
      BY <1>1, <1>5
    <3> QED
      BY <3>1 DEF DoubleStack, Doubled
  <2> QED
    BY <2>5, <2>6 DEF Phase
<1> QED
  BY <1>6, <1>7, <1>8, <1>9, <1>10, <1>11

\* Tick: only a timer that is not masked requests, so with vector 32.
LEMMA TickKeeps == IInv /\ Tick => IInv'
<1> SUFFICES ASSUME IInv, Tick PROVE IInv'
  OBVIOUS
<1> USE DEF IInv
<1>1. /\ ~apic.lvt.masked /\ apic' = [apic EXCEPT !.irr = TRUE]
      /\ UNCHANGED <<tables, cpu, pit, stacks, threads, raised>>
  BY DEF Tick
<1>2. /\ apic'.base = apic.base /\ apic'.lvt = apic.lvt /\ apic'.bus = apic.bus /\ apic'.count = apic.count
      /\ apic'.divisor = apic.divisor /\ DOMAIN apic' = DOMAIN apic
  BY <1>1 DEF Shapes
<1>3. Shapes'
  BY <1>1, <1>2 DEF Shapes, tables, threads
<1>4. TablesInv'
  BY <1>1, SameLayout DEF TablesInv, Loading, Loaded, At, tables
<1>5. ApicInv'
  BY <1>1, <1>2 DEF ApicInv, At
<1>6. TimerInv'
  BY <1>1, <1>2 DEF TimerInv, At, threads, Measured, Late
<1>7. ThreadsInv'
  BY <1>1, ThreadsKept DEF threads
<1>8. Phase'
  BY <1>1 DEF Phase, Booting, Halted, LostThread, Booted, Current, Others, DoubleStack, DoubleRests,
              SavedThread, SavedDouble, Shares, InDoubleFault, Running, At, tables, threads
<1> QED
  BY <1>3, <1>4, <1>5, <1>6, <1>7, <1>8

-----------------------------------------------------------------------------
\* Threads and their stacks

\* The gate that takes a fault leads to the handler that is meant for it.
LEMMA FaultHandled ==
    ASSUME NEW v \in Exceptions
    PROVE  Meant(v) = HandlerOf(GateFor(v)) /\ Meant(v) \in FaultHandlers /\ v # 32
  BY DEF Exceptions, Meant, OldRequest, HandlerOf, GateFor, FaultPlaces, FaultHandlers, HandlerNames

\* A thread that is at its function is in no handler.
LEMMA BodyRuns ==
    ASSUME NEW mem, NEW c, NEW t, NEW causes, Runs(mem, c, t, causes), c.rip \in Bodies
    PROVE  causes = <<>> /\ InBody(mem, c, t)
<1>1. \A v \in Exceptions : Meant(v) \notin Bodies
  BY FaultHandled, BodiesApart, LabelsAre DEF FaultPlaces
<1>2. "Serial::write" \notin Bodies /\ "hlt" \notin Bodies
  BY BodiesApart, LabelsAre
<1> QED
  BY <1>1, <1>2 DEF Runs, InFault

\* The handler of a fault has its place on the stack of that fault.
LEMMA FaultOnStack ==
    ASSUME NEW mem, NEW c, NEW t, NEW v, InFault(mem, c, t, v)
    PROVE  OnStack(mem, c.rsp, KernelStack(t, <<v>>), 0)
  BY DEF InFault, OnStack

\* What a thread may have words on is a stack.
LEMMA OwnStacks ==
    ASSUME NEW t \in Bodies, NEW causes
    PROVE  Own(t, causes) \subseteq Stacks
<1>1. t # Main => t \in Threads
  BY DEF Bodies
<1> QED
  BY <1>1 DEF Own, BodyStack, KernelStack, Stacks

\* Two threads share no stack unless both are in a double fault.
LEMMA OwnApart ==
    ASSUME NEW t \in Bodies, NEW u \in Bodies, t # u, NEW a, NEW b, ~(Doubled(a) /\ Doubled(b))
    PROVE  Own(t, a) \cap Own(u, b) = {}
<1> DEFINE Named(x) == {temp_kernel_stack, StackOf(x), SyscallStackOf(x)}
<1>1. /\ StackOf(t) # StackOf(u) /\ SyscallStackOf(t) # SyscallStackOf(u)
      /\ StackOf(t) # SyscallStackOf(u) /\ StackOf(u) # SyscallStackOf(t)
  BY DEF StackOf, SyscallStackOf
<1>2. \A x : /\ StackOf(x) \notin {temp_kernel_stack, double_fault_stack}
             /\ SyscallStackOf(x) \notin {temp_kernel_stack, double_fault_stack}
  BY DEF StackOf, SyscallStackOf, temp_kernel_stack, double_fault_stack
<1>3. temp_kernel_stack # double_fault_stack
  BY DEF temp_kernel_stack, double_fault_stack
<1>4. Main \notin Users
  BY BodiesApart
<1> QED
  BY <1>1, <1>2, <1>3, <1>4 DEF Own, BodyStack, KernelStack

\* Inside the timer's interrupt is the function or one fault.
LEMMA InnerIs ==
    ASSUME NEW causes \in Raisings
    PROVE  \/ Inner(causes) = <<>>
           \/ \E v \in Exceptions : causes = <<v, 32>> /\ Inner(causes) = <<v>>
<1>1. CASE causes = <<>>
  BY <1>1 DEF Inner
<1>2. ASSUME NEW v, causes = <<v>>
      PROVE  Inner(causes) = <<>>
  <2>1. Inner(<<v>>) = <<>>
    BY DEF Inner
  <2> QED
    BY <1>2, <2>1
<1>3. ASSUME NEW v \in Exceptions, causes = <<v, 32>>
      PROVE  Inner(causes) = <<v>>
  <2> DEFINE s == <<v, 32>>
             r == SubSeq(s, 1, 1)
  <2>1. s # <<>> /\ Len(s) = 2 /\ s[1] = v /\ s \in Seq(Int)
    BY DEF Exceptions
  <2>2. r \in Seq(Int) /\ Len(r) = 1 /\ r[1] = v
    <3>1. \A i \in 1..1 : s[i] \in Int
      BY <2>1
    <3> HIDE DEF s
    <3> QED
      BY <2>1, <3>1, SubSeqProperties
  <2> HIDE DEF r
  <2>3. r = <<v>>
    BY <2>2
  <2>4. Inner(causes) = r
    BY <1>3, <2>1 DEF Inner, r
  <2> QED
    BY <2>3, <2>4
<1> QED
  BY <1>1, <1>2, <1>3 DEF Raisings

\* A thread that was interrupted in doubleFault has its place near the top of the
\* stack.
LEMMA DoubleIs ==
    ASSUME NEW causes \in Raisings, Doubled(causes), causes[Len(causes)] = 32,
           NEW mem, NEW c, NEW t, Runs(mem, c, t, Inner(causes))
    PROVE  causes = <<8, 32>> /\ Inner(causes) = <<8>> /\ InFault(mem, c, t, 8) /\ c.rsp.depth \in {5, 6}
<1>1. \A v : <<v>>[Len(<<v>>)] = v /\ <<v>>[1] = v /\ <<v, 32>>[1] = v
  OBVIOUS
<1>2. causes = <<8, 32>>
  BY <1>1 DEF Raisings, Doubled, Exceptions
<1>3. Inner(causes) = <<8>>
  <2>1. <<8, 32>> \in Seq(Int) /\ Inner(<<8, 32>>) = SubSeq(<<8, 32>>, 1, 1)
    BY DEF Inner
  <2> QED
    BY <1>2, <2>1
<1>4. InFault(mem, c, t, 8)
  BY <1>1, <1>3 DEF Runs
<1> QED
  BY <1>2, <1>3, <1>4 DEF InFault

\* Where a stack has had words, new has the same.
Grown(mem, new, stack) ==
    /\ Len(mem[stack]) \in Nat /\ Len(new[stack]) \in Nat /\ Len(mem[stack]) <= Len(new[stack])
    /\ \A i \in 1..Len(mem[stack]) : new[stack][i] = mem[stack][i]

\* An address on a stack stays one when the stack grows.
LEMMA OnStackKept ==
    ASSUME NEW mem, NEW new, NEW sp, NEW stack, NEW least \in Nat, OnStack(mem, sp, stack, least),
           Grown(mem, new, stack)
    PROVE  OnStack(new, sp, stack, least)
  BY DEF OnStack, Grown

\* So a handler goes on where it is,
LEMMA InFaultKept ==
    ASSUME NEW mem, NEW new, NEW c, NEW t, NEW v, InFault(mem, c, t, v), Grown(mem, new, KernelStack(t, <<v>>))
    PROVE  InFault(new, c, t, v)
<1> DEFINE stack == KernelStack(t, <<v>>)
<1> HIDE DEF stack
<1>1. CASE c.rip \in {Meant(v), "hlt"} /\ OnStack(mem, c.rsp, stack, 0) /\ (v = 8 => c.rsp.depth = 5)
  <2>1. OnStack(new, c.rsp, stack, 0)
    BY <1>1, OnStackKept DEF stack
  <2> QED
    BY <1>1, <2>1 DEF InFault, stack
<1>2. CASE /\ c.rip = "Serial::write" /\ OnStack(mem, c.rsp, stack, 1)
           /\ mem[stack][c.rsp.depth] = ReturnWord /\ (v = 8 => c.rsp.depth = 6)
  <2>1. OnStack(new, c.rsp, stack, 1)
    BY <1>2, OnStackKept DEF stack
  <2>2. c.rsp.depth \in 1..Len(mem[stack])
    BY <1>2 DEF OnStack
  <2>3. new[stack][c.rsp.depth] = ReturnWord
    BY <1>2, <2>2 DEF Grown, stack
  <2> QED
    BY <1>2, <2>1, <2>3 DEF InFault, stack
<1> QED
  BY <1>1, <1>2 DEF InFault, stack

\* a thread stays able to run where it does,
LEMMA RunsKept ==
    ASSUME NEW mem, NEW new, NEW c, NEW t, NEW causes, Runs(mem, c, t, causes),
           \A s \in Own(t, causes) : Grown(mem, new, s)
    PROVE  Runs(new, c, t, causes)
<1>1. CASE causes = <<>> /\ InBody(mem, c, t)
  <2>1. OnStack(new, c.rsp, BodyStack(t), 0)
    BY <1>1, OnStackKept DEF InBody, Own
  <2> QED
    BY <1>1, <2>1 DEF Runs, InBody
<1>2. ASSUME NEW v \in Exceptions, causes = <<v>>, InFault(mem, c, t, v)
      PROVE  Runs(new, c, t, causes)
  <2>1. InFault(new, c, t, v)
    BY <1>2, InFaultKept DEF Own
  <2> QED
    BY <1>2, <2>1 DEF Runs
<1> QED
  BY <1>1, <1>2 DEF Runs

\* or where it was interrupted,
LEMMA InterruptedKept ==
    ASSUME NEW mem, NEW new, NEW c, NEW t, NEW causes \in Raisings, Interrupted(mem, c, t, causes),
           \A s \in Own(t, causes) : Grown(mem, new, s)
    PROVE  Interrupted(new, c, t, causes)
<1>1. Runs(mem, c, t, Inner(causes)) /\ IsContext(c)
  BY DEF Interrupted
<1>2. CASE Inner(causes) = <<>>
  <2>1. InBody(mem, c, t) /\ c.flag = TRUE
    BY <1>1, <1>2 DEF Runs
  <2>2. OnStack(new, c.rsp, BodyStack(t), 0)
    BY <2>1, OnStackKept DEF InBody, Own
  <2> QED
    BY <1>1, <1>2, <2>1, <2>2 DEF Interrupted, Runs, InBody
<1>3. ASSUME NEW v \in Exceptions, causes = <<v, 32>>, Inner(causes) = <<v>>
      PROVE  Interrupted(new, c, t, causes)
  <2>1. Doubled(<<v, 32>>) <=> Doubled(<<v>>)
    BY DEF Doubled
  <2>2. Own(t, Inner(causes)) = Own(t, causes)
    BY <1>3, <2>1 DEF Own, KernelStack
  <2> QED
    BY <1>1, <2>2, RunsKept DEF Interrupted
<1> QED
  BY <1>2, <1>3, InnerIs

\* and what it saved is there as long as nobody writes to its stacks.
LEMMA SavedKept ==
    ASSUME NEW mem, NEW new, NEW sp, NEW c, NEW t, NEW causes \in Raisings, Saved(mem, sp, c, t, causes),
           \A s \in Own(t, causes) : Len(mem[s]) \in Nat /\ new[s] = mem[s]
    PROVE  Saved(new, sp, c, t, causes)
<1>1. Interrupted(new, c, t, causes)
  <2>1. \A s \in Own(t, causes) : Grown(mem, new, s)
    BY DEF Grown
  <2> QED
    BY <2>1, InterruptedKept DEF Saved
<1>2. PICK stack \in Own(t, causes) :
          /\ OnStack(mem, sp, stack, 20)
          /\ HasFrame(mem, stack, sp.depth - 20, c)
          /\ HasRegisters(mem, stack, sp.depth - 15, c)
  BY DEF Saved
<1>3. new[stack] = mem[stack]
  OBVIOUS
<1>4. /\ OnStack(new, sp, stack, 20)
      /\ HasFrame(new, stack, sp.depth - 20, c)
      /\ HasRegisters(new, stack, sp.depth - 15, c)
  BY <1>2, <1>3 DEF OnStack, HasFrame, HasRegisters
<1> QED
  BY <1>1, <1>4 DEF Saved

-----------------------------------------------------------------------------
\* Steps of threads

\* The thread that runs
cur == currentProcessControlBlock

\* Where a thread or a handler runs with a control block, or interrupts are on, boot
\* is over.
LEMMA InBooted ==
    ASSUME IInv,
           \/ cpu.rip \in Bodies \cup {"timerInterruptAsm", "timerInterrupt", "popall"}
           \/ cpu.rip \in FaultPlaces /\ currentProcessControlBlock # None
           \/ cpu.flag = TRUE
    PROVE  /\ Booted /\ Current /\ Others /\ DoubleStack /\ Loaded
           /\ cur \in Bodies /\ cur \in DOMAIN blocks /\ raised[cur] \in Raisings /\ Running = cur
<1>1. /\ \A t \in Bodies : t \notin Early \cup Kmain /\ t \notin {"pageFault", "Serial::write", "hlt", "lost"}
      /\ "timerInterruptAsm" \notin Early \cup Kmain
      /\ "timerInterrupt" \notin Early \cup Kmain /\ "popall" \notin Early \cup Kmain
  <2>1. \A t \in Bodies : t \notin Labels
    BY BodiesApart
  <2>2. "pageFault" \in Labels
    BY LabelsAre DEF HandlerNames
  <2> QED
    BY <2>1, <2>2, LabelsAre DEF Early, Kmain
<1>2. FaultPlaces \cap (Early \cup Kmain \cup {"lost"}) = {}
  BY DEF FaultPlaces, FaultHandlers, HandlerNames, Early, Kmain
<1>3. ~(cpu.rip \in Early \cup Kmain /\ Booting) /\ ~Halted /\ ~LostThread
  <2>1. ~(cpu.rip \in Early \cup Kmain /\ Booting)
    BY <1>1, <1>2 DEF Booting
  <2>2. ~Halted
    BY <1>1 DEF Halted
  <2>3. ~LostThread
    BY <1>1, <1>2 DEF LostThread, At
  <2> QED
    BY <2>1, <2>2, <2>3
<1>4. Booted /\ Current /\ Others /\ DoubleStack
  BY <1>3 DEF IInv, Phase
<1>5. Loaded
  BY <1>4 DEF Booted, IInv, TablesInv
<1>6. cur \in DOMAIN blocks /\ cur # None
  BY <1>4 DEF Booted, Current, cur
<1> QED
  BY <1>4, <1>5, <1>6 DEF IInv, ThreadsInv, Running, cur

\* Stacks have lengths.
LEMMA StackLengths ==
    ASSUME Shapes
    PROVE  \A s \in Stacks : Len(stacks[s]) \in Nat
  BY DEF Shapes, IsSeq

\* The threads in a double fault, by what is raised
LEMMA SharesIs ==
    ASSUME NEW t \in Bodies
    PROVE  Shares(t) <=> Doubled(raised[t]) /\ \E u \in Bodies : u # t /\ Doubled(raised[u])
  BY DEF Shares, InDoubleFault, Doubled

\* The stack of double faults is no other thread's.
LEMMA NotDouble ==
    ASSUME NEW t \in Bodies, NEW causes, ~Doubled(causes)
    PROVE  double_fault_stack \notin Own(t, causes)
  BY DEF Own, BodyStack, KernelStack, StackOf, SyscallStackOf, temp_kernel_stack, double_fault_stack

\* The threads that do not run keep what they have.
LEMMA OthersStay ==
    ASSUME IInv, Others, cur \in Bodies, cur' = cur,
           NEW stack \in Own(cur, raised'[cur]), \A s \in Stacks : s # stack => stacks'[s] = stacks[s],
           DOMAIN blocks' = DOMAIN blocks, Doubled(raised[cur]) => Doubled(raised'[cur]),
           \A t \in Bodies : t # cur => raised'[t] = raised[t],
           \A t \in DOMAIN blocks : t # cur =>
               /\ blocks'[t].rsp = blocks[t].rsp
               /\ t \in DOMAIN left => t \in DOMAIN left' /\ left'[t] = left[t]
    PROVE  Others'
<1> SUFFICES ASSUME NEW t \in DOMAIN blocks, t # cur
             PROVE  SavedThread(t)'
  BY DEF Others, cur
<1>1. t \in Bodies /\ raised[t] \in Raisings /\ raised'[t] = raised[t] /\ blocks'[t].rsp = blocks[t].rsp
  BY DEF IInv, ThreadsInv
<1>2. /\ Doubled(raised[t]) => SavedDouble(t)
      /\ ~Shares(t) => t \in DOMAIN left /\ Saved(stacks, blocks[t].rsp, left[t], t, raised[t])
  BY DEF Others, SavedThread, cur
<1>3. Doubled(raised'[t]) => SavedDouble(t)'
  BY <1>1, <1>2 DEF SavedDouble
<1>4. ASSUME ~Shares(t)'
      PROVE  t \in DOMAIN left' /\ Saved(stacks', blocks'[t].rsp, left'[t], t, raised'[t])
  <2>1. \A u \in Bodies : u # t => ~(Doubled(raised'[t]) /\ Doubled(raised'[u]))
    BY <1>1, <1>4 DEF Shares, InDoubleFault, Doubled
  <2>2. ~Shares(t)
    BY <1>1, <2>1, SharesIs
  <2>3. Own(t, raised[t]) \cap Own(cur, raised'[cur]) = {}
    BY <1>1, <2>1, OwnApart
  <2>4. \A s \in Own(t, raised[t]) : Len(stacks[s]) \in Nat /\ stacks'[s] = stacks[s]
    BY <1>1, <2>3, OwnStacks, StackLengths DEF IInv
  <2>5. Saved(stacks', blocks[t].rsp, left[t], t, raised[t])
    BY <1>1, <1>2, <2>2, <2>4, SavedKept
  <2> QED
    BY <1>1, <1>2, <2>2, <2>5
<1> QED
  BY <1>3, <1>4 DEF SavedThread

\* The stack of double faults rests as long as it is not written to.
LEMMA RestsKept ==
    ASSUME NEW mem, NEW new, DoubleRests(mem), new[double_fault_stack] = mem[double_fault_stack]
    PROVE  DoubleRests(new)
<1>1. KernelStack(Main, <<8>>) = double_fault_stack
  BY DEF KernelStack, Doubled
<1>2. PICK c :
        /\ IsContext(c) /\ c.flag = TRUE /\ InFault(mem, c, Main, 8)
        /\ Len(mem[double_fault_stack]) = c.rsp.depth + 20
        /\ HasFrame(mem, double_fault_stack, c.rsp.depth, c)
        /\ HasRegisters(mem, double_fault_stack, c.rsp.depth + 5, c)
  BY DEF DoubleRests
<1>3. InFault(new, c, Main, 8)
  BY <1>1, <1>2 DEF InFault, OnStack
<1>4. HasFrame(new, double_fault_stack, c.rsp.depth, c) /\ HasRegisters(new, double_fault_stack, c.rsp.depth + 5, c)
  BY <1>2 DEF HasFrame, HasRegisters
<1> QED
  BY <1>2, <1>3, <1>4 DEF DoubleRests

\* Nobody writes to it but a thread that runs there.
LEMMA DoubleStays ==
    ASSUME DoubleStack, cur' = cur, cur \in Bodies, cpu'.rip \notin {"timerInterrupt", "popall"},
           \A t \in Bodies : t # cur => raised'[t] = raised[t],
           Doubled(raised[cur]) => Doubled(raised'[cur]),
           Doubled(raised'[cur]) \/ stacks'[double_fault_stack] = stacks[double_fault_stack]
    PROVE  DoubleStack'
<1>1. CASE Doubled(raised'[cur])
  BY <1>1 DEF DoubleStack, cur
<1>2. CASE ~Doubled(raised'[cur]) /\ \A t \in Bodies : ~Doubled(raised[t])
  BY <1>2 DEF DoubleStack
<1>3. CASE ~Doubled(raised'[cur]) /\ DoubleRests(stacks)
  <2>1. DoubleRests(stacks')
    BY <1>3, RestsKept
  <2> QED
    BY <2>1 DEF DoubleStack, DoubleRests
<1> QED
  BY <1>1, <1>2, <1>3 DEF DoubleStack, cur

\* Work: the thread that runs pushes on a stack of its own.
LEMMA WorkKeeps == IInv /\ Work => IInv'
<1> SUFFICES ASSUME IInv, Work PROVE IInv'
  OBVIOUS
<1>1. /\ cpu.rip \in Bodies /\ stacks' = Pushed(cpu.rsp, <<Zero>>)
      /\ cpu' = [cpu EXCEPT !.regs = [r \in Registers |-> <<Running, r>>], !.rsp = Below(@, <<Zero>>)]
      /\ UNCHANGED <<tables, apic, pit, threads, raised>>
  BY DEF Work
<1>2. /\ Booted /\ Current /\ Others /\ DoubleStack /\ Loaded
      /\ cur \in Bodies /\ cur \in DOMAIN blocks /\ raised[cur] \in Raisings
  BY <1>1, InBooted
<1>3. raised[cur] = <<>> /\ InBody(stacks, cpu, cur) /\ cpu.flag = TRUE
  <2>1. cpu.rip \notin {"timerInterruptAsm", "timerInterrupt", "popall"}
    BY <1>1, BodiesApart, LabelsAre DEF HandlerNames
  <2>2. Runs(stacks, cpu, cur, raised[cur])
    BY <1>2, <2>1 DEF Current, At, cur
  <2> QED
    BY <1>1, <2>2, BodyRuns DEF Runs
<1> DEFINE stack == BodyStack(cur)
           depth == cpu.rsp.depth
<1>4. /\ cpu.rsp = Address(stack, depth) /\ depth \in 0..Len(stacks[stack]) /\ stack \in Stacks
      /\ stack \in Own(cur, raised[cur])
  BY <1>2, <1>3, OwnStacks DEF InBody, OnStack, Own
<1>5. /\ DOMAIN stacks' = Stacks /\ \A s \in Stacks : IsSeq(stacks'[s])
      /\ \A s \in Stacks : s # stack => stacks'[s] = stacks[s]
      /\ Len(stacks'[stack]) = depth + 1
  <2> DEFINE words == <<Zero>>
  <2>1. IsSeq(words) /\ Len(words) = 1
    <3>1. words \in Seq({Zero}) /\ Len(words) = 1
      OBVIOUS
    <3> HIDE DEF words
    <3> QED
      BY <3>1, SeqIsSeq
  <2>2. stacks' = Pushed(Address(stack, depth), words)
    BY <1>1, <1>4
  <2>3. DOMAIN stacks = Stacks /\ \A s \in Stacks : IsSeq(stacks[s])
    BY DEF IInv, Shapes
  <2> HIDE DEF stack, depth, words
  <2>4. PushedMem(stacks', stacks, stack, depth, words)
    BY <1>4, <2>1, <2>2, <2>3, StacksPushed
  <2> QED
    BY <2>1, <2>4 DEF PushedMem
<1>6. cpu'.rsp = Address(stack, depth + 1)
  <2>1. cpu'.rsp = Below(cpu.rsp, <<Zero>>)
    BY <1>1 DEF IInv, Shapes
  <2>2. Address(stack, depth).stack = stack /\ Address(stack, depth).depth = depth
    BY DEF Address
  <2> QED
    BY <1>4, <2>1, <2>2 DEF Below
<1>7. /\ cpu'.rip = cpu.rip /\ cpu'.idtr = cpu.idtr /\ cpu'.tr = cpu.tr /\ cpu'.cs = cpu.cs
      /\ cpu'.ss = cpu.ss /\ cpu'.gdtr = cpu.gdtr /\ cpu'.flag = cpu.flag
      /\ cpu'.regs = [r \in Registers |-> <<Running, r>>] /\ DOMAIN cpu' = DOMAIN cpu
  BY <1>1 DEF IInv, Shapes
<1>8. Shapes'
  <2>1. cpu'.regs = [r \in Registers |-> cpu'.regs[r]]
    BY <1>7
  <2> QED
    BY <1>1, <1>5, <1>7, <2>1 DEF Shapes, tables, threads, IInv
<1>9. TablesInv'
  BY <1>1, <1>2, <1>7, LoadedKept DEF TablesKept, tables, TablesInv, Booted
<1>10. ApicInv' /\ TimerInv'
  BY <1>1, <1>7 DEF ApicInv, TimerInv, At, threads, Measured, Late, IInv
<1>11. ThreadsInv'
  BY <1>1, ThreadsKept DEF threads, IInv
<1>12. Current'
  <2>1. OnStack(stacks', cpu'.rsp, stack, 0)
    <3>1. Address(stack, depth + 1).depth = depth + 1
      BY DEF Address
    <3> HIDE DEF stack, depth
    <3> QED
      BY <1>4, <1>5, <1>6, <3>1 DEF OnStack
  <2>2. InBody(stacks', cpu', cur)
    BY <1>3, <1>7, <2>1 DEF InBody
  <2>3. Runs(stacks', cpu', cur, raised[cur])
    BY <1>3, <1>7, <2>2 DEF Runs
  <2> QED
    BY <1>1, <1>2, <1>7, <2>3 DEF Current, tables, threads, cur
<1>13. Others'
  BY <1>1, <1>2, <1>4, <1>5, OthersStay DEF threads, cur
<1>14. DoubleStack'
  <2>1. cpu'.rip \notin {"timerInterrupt", "popall"}
    BY <1>1, <1>7, BodiesApart, LabelsAre
  <2>2. double_fault_stack \in Stacks /\ double_fault_stack # stack
    BY <1>2, <1>3, <1>4, NotDouble DEF Doubled, Stacks
  <2> QED
    BY <1>1, <1>2, <1>5, <2>1, <2>2, DoubleStays DEF threads, cur
<1> QED
  BY <1>1, <1>2, <1>7, <1>8, <1>9, <1>10, <1>11, <1>12, <1>13, <1>14 DEF IInv, Phase, Booted, threads

\* What a new thread has in its registers
Created(t) ==
    [regs |-> Fresh, rip |-> t, rsp |-> Top(StackOf(t)), flag |-> TRUE,
     cs |-> IF t \in Users THEN UserCode ELSE KernelCode,
     ss |-> IF t \in Users THEN UserData ELSE KernelData]

\* create puts that context on the new stack as an interrupt and pushall would
\* (Process.cpp:57-75).
LEMMA NewFrameWords ==
    ASSUME NEW t
    PROVE  /\ IsSeq(NewFrame(t)) /\ Len(NewFrame(t)) = 20
           /\ \A i \in 1..5 : NewFrame(t)[i] = FrameOf(Created(t))[i]
           /\ \A i \in 1..15 : NewFrame(t)[5 + i] = Zero
<1> DEFINE frame == FrameOf(Created(t))
           zeros == [i \in 1..15 |-> Zero]
<1>1. NewFrame(t) = frame \o zeros
  BY DEF NewFrame, FrameOf, Created
<1>2. IsSeq(frame) /\ Len(frame) = 5
  BY FrameWords
<1>3. zeros \in Seq({Zero}) /\ Len(zeros) = 15 /\ \A i \in 1..15 : zeros[i] = Zero
  OBVIOUS
<1> HIDE DEF frame, zeros
<1>4. IsSeq(zeros)
  BY <1>3, SeqIsSeq
<1>5. SubSeq(frame, 1, 5) = frame
  <2>1. frame \in Seq({frame[i] : i \in DOMAIN frame})
    BY <1>2 DEF IsSeq
  <2> DEFINE S == {frame[i] : i \in DOMAIN frame}
  <2> HIDE DEF S
  <2>2. frame \in Seq(S)
    BY <2>1 DEF S
  <2>3. SubSeq(frame, 1, 5) \in Seq(S) /\ Len(SubSeq(frame, 1, 5)) = 5 /\ \A i \in 1..5 : SubSeq(frame, 1, 5)[i] = frame[i]
    <3>1. \A i \in 1..5 : frame[i] \in S
      <4>1. DOMAIN frame = 1..5
        BY <1>2, <2>2
      <4> QED
        BY <4>1 DEF S
    <3> QED
      BY <1>2, <2>2, <3>1, SubSeqProperties
  <2> QED
    BY <1>2, <2>2, <2>3, SeqEqual
<1>6. NewFrame(t) = PushedOn(frame, 5, zeros)
  BY <1>1, <1>5 DEF PushedOn
<1>7. 5 \in 0..Len(frame)
  BY <1>2
<1>8. PushedSeq(NewFrame(t), frame, 5, zeros)
  BY <1>2, <1>4, <1>6, <1>7, PushedWords
<1>9. \A i \in 1..15 : zeros[i] = Zero /\ i \in 1..Len(zeros)
  BY <1>3
<1> QED
  BY <1>3, <1>8, <1>9 DEF frame, PushedSeq

\* It is at its function, in its mode, on its own stack.
LEMMA CreatedContext ==
    ASSUME NEW t \in Threads
    PROVE  /\ IsContext(Created(t)) /\ Created(t).flag = TRUE /\ Created(t).rip = t
           /\ Created(t).cs = IF t \in Users THEN UserCode ELSE KernelCode
           /\ Created(t).ss = IF t \in Users THEN UserData ELSE KernelData
           /\ Created(t).rsp = Address(BodyStack(t), 0)
           /\ \A i \in 1..15 : Created(t).regs[PushOrder[i]] = Zero
<1>1. t # Main
  BY BootAssumption
<1>2. Created(t).regs = Fresh /\ Fresh = [r \in Registers |-> Fresh[r]]
  BY DEF Created, Fresh
<1>3. \A i \in 1..15 : PushOrder[i] \in Registers
  BY DEF PushOrder, Registers, Elements
<1>4. \A i \in 1..15 : Fresh[PushOrder[i]] = Zero
  BY <1>3 DEF Fresh
<1>5. Created(t) = Context(Created(t))
  BY DEF Created, Context
<1>6. Created(t).rsp = Address(BodyStack(t), 0)
  BY <1>1 DEF Created, BodyStack, Top
<1> QED
  BY <1>2, <1>4, <1>5, <1>6 DEF IsContext, Created

\* Create: the new stack is nobody else's.
LEMMA CreateKeeps == ASSUME NEW t \in Threads PROVE IInv /\ Create(t) => IInv'
<1> SUFFICES ASSUME IInv, Create(t) PROVE IInv'
  OBVIOUS
<1> DEFINE sp == Address(StackOf(t), 20)
           c == Created(t)
           syscall == IF t \in Users THEN Top(SyscallStackOf(t)) ELSE Null
<1>1. /\ cpu.rip = Main /\ t \notin DOMAIN blocks /\ t \in Bodies /\ t # Main
      /\ stacks' = [stacks EXCEPT ![StackOf(t)] = NewFrame(t)]
      /\ blocks' = With(blocks, t, [rsp |-> sp, syscallRsp |-> syscall])
      /\ left' = With(left, t, c)
      /\ UNCHANGED <<tables, cpu, apic, pit, currentProcessControlBlock, raised>>
  BY BootAssumption, NewFrameWords DEF Create, At, IsNext, Bodies, Created
<1>2. Main \in Bodies
  BY DEF Bodies
<1>3. /\ Booted /\ Current /\ Others /\ DoubleStack /\ Loaded
      /\ cur \in Bodies /\ cur \in DOMAIN blocks /\ raised[cur] \in Raisings
  BY <1>1, <1>2, InBooted
<1>4. cur = Main /\ raised[cur] = <<>> /\ Runs(stacks, cpu, cur, <<>>)
  <2>1. cpu.rip \notin {"timerInterruptAsm", "timerInterrupt", "popall"}
    BY <1>1, <1>2, BodiesApart, LabelsAre DEF HandlerNames
  <2>2. Runs(stacks, cpu, cur, raised[cur])
    BY <1>3, <2>1 DEF Current, At, cur
  <2>3. raised[cur] = <<>> /\ InBody(stacks, cpu, cur)
    BY <1>1, <1>2, <2>2, BodyRuns
  <2> QED
    BY <1>1, <2>2, <2>3 DEF InBody
<1>5. /\ DOMAIN blocks' = DOMAIN blocks \cup {t} /\ blocks'[t] = [rsp |-> sp, syscallRsp |-> syscall]
      /\ \A u \in DOMAIN blocks : blocks'[u] = blocks[u]
      /\ DOMAIN left' = DOMAIN left \cup {t} /\ left'[t] = c
      /\ \A u \in DOMAIN left : u # t => left'[u] = left[u]
  <2> DEFINE block == [rsp |-> sp, syscallRsp |-> syscall]
  <2> HIDE DEF block, c
  <2> QED
    BY <1>1 DEF With, block
<1>6. /\ StackOf(t) \in Stacks /\ DOMAIN stacks' = Stacks /\ \A s \in Stacks : IsSeq(stacks'[s])
      /\ stacks'[StackOf(t)] = NewFrame(t) /\ \A s \in Stacks : s # StackOf(t) => stacks'[s] = stacks[s]
  <2>1. StackOf(t) \in Stacks /\ DOMAIN stacks = Stacks /\ \A s \in Stacks : IsSeq(stacks[s])
    BY DEF Stacks, IInv, Shapes
  <2>2. IsSeq(NewFrame(t))
    BY NewFrameWords
  <2> QED
    BY <1>1, <2>1, <2>2
<1>7. \A u \in DOMAIN blocks : \A s \in Own(u, raised[u]) : Len(stacks[s]) \in Nat /\ stacks'[s] = stacks[s]
  <2> SUFFICES ASSUME NEW u \in DOMAIN blocks
               PROVE  \A s \in Own(u, raised[u]) : Len(stacks[s]) \in Nat /\ stacks'[s] = stacks[s]
    OBVIOUS
  <2>1. u \in Bodies /\ u # t /\ ~Doubled(<<>>)
    BY <1>1 DEF IInv, ThreadsInv, Doubled
  <2>2. Own(t, <<>>) \cap Own(u, raised[u]) = {}
    BY <1>1, <2>1, OwnApart
  <2>3. StackOf(t) \in Own(t, <<>>)
    BY <1>1 DEF Own, BodyStack
  <2> QED
    BY <1>6, <2>1, <2>2, <2>3, OwnStacks, StackLengths DEF IInv
<1>8. Saved(stacks', sp, c, t, <<>>)
  <2>1. /\ IsContext(c) /\ c.flag = TRUE /\ c.rip = t /\ c.rsp = Address(BodyStack(t), 0)
        /\ c.cs = IF t \in Users THEN UserCode ELSE KernelCode
        /\ c.ss \in (IF t \in Users THEN {UserData} ELSE {0, KernelData})
        /\ \A i \in 1..15 : c.regs[PushOrder[i]] = Zero
    BY CreatedContext
  <2>2. /\ Len(NewFrame(t)) = 20
        /\ \A i \in 1..5 : NewFrame(t)[i] = FrameOf(c)[i]
        /\ \A i \in 1..15 : NewFrame(t)[5 + i] = Zero
    BY NewFrameWords
  <2> HIDE DEF c
  <2>3. BodyStack(t) = StackOf(t) /\ sp.depth = 20 /\ sp = Address(StackOf(t), sp.depth)
    BY <1>1 DEF BodyStack, Address
  <2> HIDE DEF sp
  <2>4. OnStack(stacks', c.rsp, BodyStack(t), 0)
    <3>1. Address(BodyStack(t), 0).depth = 0
      BY DEF Address
    <3> QED
      BY <1>6, <2>1, <2>2, <2>3, <3>1 DEF OnStack
  <2>5. Runs(stacks', c, t, <<>>)
    BY <2>1, <2>4 DEF Runs, InBody
  <2>6. Interrupted(stacks', c, t, <<>>)
    BY <2>1, <2>5 DEF Interrupted, Inner
  <2>7. OnStack(stacks', sp, StackOf(t), 20)
    BY <1>6, <2>2, <2>3 DEF OnStack
  <2>8. HasFrame(stacks', StackOf(t), sp.depth - 20, c)
    BY <1>6, <2>2, <2>3 DEF HasFrame
  <2>9. HasRegisters(stacks', StackOf(t), sp.depth - 15, c)
    BY <1>6, <2>1, <2>2, <2>3 DEF HasRegisters
  <2>10. StackOf(t) \in Own(t, <<>>)
    BY <2>3 DEF Own
  <2> QED
    BY <2>6, <2>7, <2>8, <2>9, <2>10 DEF Saved
<1> HIDE DEF c, sp, syscall
<1>9. Shapes'
  <2>1. \A u \in DOMAIN blocks' : DOMAIN blocks'[u] = {"rsp", "syscallRsp"}
    BY <1>5 DEF IInv, Shapes
  <2> QED
    BY <1>1, <1>6, <2>1 DEF Shapes, tables, IInv
<1>10. TablesInv'
  BY <1>1, <1>3, LoadedKept DEF TablesKept, tables, TablesInv, Booted
<1>11. ApicInv' /\ TimerInv'
  BY <1>1 DEF ApicInv, TimerInv, At, Measured, Late, IInv
<1>12. ThreadsInv'
  <2>1. \A u \in DOMAIN blocks' \cap Users : blocks'[u].syscallRsp = Top(SyscallStackOf(u))
    BY <1>5 DEF IInv, ThreadsInv, syscall
  <2> QED
    BY <1>1, <1>5, <2>1 DEF IInv, ThreadsInv
<1>13. raised[t] = <<>>
  BY <1>1 DEF IInv, ThreadsInv
<1>14. Current'
  <2>1. \A s \in Own(cur, <<>>) : Grown(stacks, stacks', s)
    BY <1>3, <1>4, <1>7 DEF Grown
  <2>2. Runs(stacks', cpu, cur, <<>>)
    BY <1>4, <2>1, RunsKept
  <2> QED
    BY <1>1, <1>2, <1>3, <1>4, <1>5, <2>2 DEF Current, tables, cur
<1>15. Others'
  <2> SUFFICES ASSUME NEW u \in DOMAIN blocks', u # cur
               PROVE  SavedThread(u)'
    BY <1>1 DEF Others, cur
  <2>1. CASE u = t
    BY <1>1, <1>5, <1>8, <1>13, <2>1 DEF SavedThread, Doubled
  <2>2. CASE u # t
    <3>1. u \in DOMAIN blocks /\ raised'[u] = raised[u] /\ blocks'[u] = blocks[u] /\ (Shares(u)' <=> Shares(u))
      BY <1>1, <1>5, <2>2 DEF Shares, InDoubleFault
    <3>2. /\ Doubled(raised[u]) => SavedDouble(u)
          /\ ~Shares(u) => u \in DOMAIN left /\ Saved(stacks, blocks[u].rsp, left[u], u, raised[u])
      BY <1>3, <2>2, <3>1 DEF Others, SavedThread, cur
    <3>3. raised[u] \in Raisings
      BY <3>1 DEF IInv, ThreadsInv
    <3>4. ASSUME ~Shares(u)
          PROVE  u \in DOMAIN left' /\ Saved(stacks', blocks'[u].rsp, left'[u], u, raised'[u])
      <4>1. Saved(stacks', blocks[u].rsp, left[u], u, raised[u])
        BY <1>7, <3>1, <3>2, <3>3, <3>4, SavedKept
      <4> QED
        BY <1>5, <2>2, <3>1, <3>2, <3>4, <4>1
    <3>5. Doubled(raised'[u]) => SavedDouble(u)'
      BY <3>1, <3>2 DEF SavedDouble
    <3> QED
      BY <3>1, <3>4, <3>5 DEF SavedThread
  <2> QED
    BY <2>1, <2>2
<1>16. DoubleStack'
  <2>1. cpu'.rip \notin {"timerInterrupt", "popall"}
    BY <1>1, <1>2, BodiesApart, LabelsAre
  <2>2. double_fault_stack \in Stacks /\ double_fault_stack # StackOf(t)
    BY DEF Stacks, double_fault_stack, StackOf
  <2> QED
    BY <1>1, <1>3, <1>6, <2>1, <2>2, DoubleStays DEF cur
<1> QED
  BY <1>1, <1>3, <1>9, <1>10, <1>11, <1>12, <1>14, <1>15, <1>16 DEF IInv, Phase, Booted

\* No address on a stack is null.
LEMMA NotNull ==
    ASSUME NEW stack \in Stacks, NEW depth
    PROVE  Address(stack, depth) # Null
<1>1. stack # <<"none", "none">>
  BY DEF Stacks, StackOf, SyscallStackOf, temp_kernel_stack, kernel_stack, double_fault_stack
<1> QED
  BY <1>1 DEF Address, Null, Top

\* Where the CPU goes to the stack of the thread that runs, it goes to its words.
LEMMA EntryOnStack ==
    ASSUME IInv, Current, cur \in Bodies, NEW v \in Exceptions \cup {32},
           \/ InBody(stacks, cpu, cur)
           \/ v = 32 /\ cpu.cs = KernelCode /\ OnStack(stacks, cpu.rsp, KernelStack(cur, <<v>>), 0)
    PROVE  OnStack(stacks, EntryStack(v), KernelStack(cur, <<v>>), 0)
<1>1. Doubled(<<v>>) <=> v = 8
  BY DEF Doubled
<1>2. \A s \in Stacks : OnStack(stacks, Top(s), s, 0)
  BY StackLengths DEF OnStack, Top, Address, IInv
<1>3. double_fault_stack \in Stacks /\ KernelStack(cur, <<v>>) \in Stacks
  BY OwnStacks DEF Own, Stacks
<1>4. CASE v = 8
  BY <1>1, <1>2, <1>3, <1>4 DEF EntryStack, KernelStack
<1>5. CASE v # 8 /\ InBody(stacks, cpu, cur) /\ cur \in Users
  <2>1. globalTss["rsp0"] = Top(SyscallStackOf(cur)) /\ cpu.cs = UserCode
    BY <1>5 DEF Current, cur, InBody
  <2>2. KernelStack(cur, <<v>>) = SyscallStackOf(cur)
    BY <1>1, <1>5 DEF KernelStack
  <2> QED
    BY <1>2, <1>3, <1>5, <2>1, <2>2 DEF EntryStack
<1>6. CASE v # 8 /\ InBody(stacks, cpu, cur) /\ cur \notin Users
  <2>1. KernelStack(cur, <<v>>) = BodyStack(cur)
    BY <1>1, <1>6 DEF KernelStack
  <2>2. cpu.cs = KernelCode /\ KernelCode # UserCode
    BY <1>6 DEF InBody, KernelCode, UserCode
  <2> QED
    BY <1>6, <2>1, <2>2 DEF EntryStack, InBody
<1>7. CASE v = 32 /\ cpu.cs = KernelCode /\ OnStack(stacks, cpu.rsp, KernelStack(cur, <<v>>), 0)
  BY <1>7 DEF EntryStack, KernelCode, UserCode
<1> QED
  BY <1>4, <1>5, <1>6, <1>7

\* What a raised vector does, once the tables are loaded.
LEMMA RaiseStep ==
    ASSUME IInv, Loaded, Running = cur, cur \in Bodies, NEW v \in Exceptions \cup {32},
           cpu.cs \in {KernelCode, UserCode}, RaiseFor(v, v),
           EntryStack(v) = Address(EntryStack(v).stack, EntryStack(v).depth),
           EntryStack(v).stack \in Stacks, EntryStack(v).depth \in 0..Len(stacks[EntryStack(v).stack])
    PROVE  /\ PushedMem(stacks', stacks, EntryStack(v).stack, EntryStack(v).depth, FrameOf(cpu))
           /\ cpu'.rsp = Address(EntryStack(v).stack, EntryStack(v).depth + 5)
           /\ cpu'.rip = HandlerOf(GateFor(v))
           /\ cpu'.flag = (cpu.flag /\ v # 32) /\ cpu'.cs = KernelCode
           /\ cpu'.ss = IF cpu.cs = UserCode THEN 0 ELSE cpu.ss
           /\ cpu'.gdtr = cpu.gdtr /\ cpu'.idtr = cpu.idtr /\ cpu'.tr = cpu.tr
           /\ cpu'.regs = cpu.regs /\ DOMAIN cpu' = DOMAIN cpu
           /\ raised' = [raised EXCEPT ![cur] = Append(raised[cur], v)]
           /\ \A s \in Stacks : IsSeq(stacks'[s]) /\ DOMAIN stacks' = Stacks
<1> DEFINE stack == EntryStack(v).stack
           depth == EntryStack(v).depth
<1>1. EntryStack(v) # Null
  BY NotNull
<1>2. Enters(v, v)
  BY <1>1, RaiseEnters DEF IInv, Shapes
<1>3. stacks' = Pushed(EntryStack(v), FrameOf(cpu)) /\ raised' = [raised EXCEPT ![cur] = Append(raised[cur], v)]
  BY <1>2 DEF Enters
<1>4. DOMAIN stacks = Stacks /\ \A s \in Stacks : IsSeq(stacks[s])
  BY DEF IInv, Shapes
<1>5. IsSeq(FrameOf(cpu)) /\ Len(FrameOf(cpu)) = 5
  BY FrameWords
<1>6. PushedMem(stacks', stacks, EntryStack(v).stack, EntryStack(v).depth, FrameOf(cpu))
  <2>1. stacks' = Pushed(Address(stack, depth), FrameOf(cpu)) /\ stack \in Stacks /\ depth \in 0..Len(stacks[stack])
    BY <1>3
  <2> HIDE DEF stack, depth
  <2>2. PushedMem(stacks', stacks, stack, depth, FrameOf(cpu))
    BY <1>4, <1>5, <2>1, StacksPushed
  <2> QED
    BY <2>2 DEF stack, depth
<1>7. cpu'.rsp = Address(EntryStack(v).stack, EntryStack(v).depth + 5)
  <2>1. cpu'.rsp = Below(EntryStack(v), FrameOf(cpu))
    BY <1>2, EntersCpu DEF IInv
  <2> QED
    BY <1>5, <2>1 DEF Below
<1> QED
  BY <1>2, <1>3, <1>6, <1>7, EntersCpu DEF IInv, PushedMem

\* How raised grows
LEMMA RaisingsAre ==
    ASSUME NEW v \in Exceptions
    PROVE  /\ Append(<<>>, v) = <<v>> /\ Append(<<>>, 32) = <<32>> /\ Append(<<v>>, 32) = <<v, 32>>
           /\ <<v>> \in Raisings /\ <<32>> \in Raisings /\ <<v, 32>> \in Raisings /\ <<>> \in Raisings
           /\ ~Doubled(<<>>) /\ ~Doubled(<<32>>)
           /\ Doubled(<<v>>) <=> v = 8
           /\ Doubled(<<v, 32>>) <=> v = 8
<1>1. Append(<<>>, v) = <<v>> /\ Append(<<>>, 32) = <<32>> /\ Append(<<v>>, 32) = <<v, 32>>
  <2> DEFINE s == <<v>>
             r == Append(s, 32)
  <2>1. s \in Seq(Int) /\ Len(s) = 1 /\ s[1] = v
    BY DEF Exceptions
  <2> HIDE DEF s
  <2>2. r \in Seq(Int) /\ Len(r) = 2 /\ r[1] = v /\ r[2] = 32
    <3>1. s \in Seq(Int) /\ 32 \in Int
      BY <2>1
    <3>2. Append(s, 32) \in Seq(Int)
      BY <3>1, AppendProperties
    <3>3. Len(Append(s, 32)) = Len(s) + 1 /\ Append(s, 32)[Len(s) + 1] = 32
      BY <3>1, AppendProperties
    <3>4. Append(s, 32)[1] = s[1]
      <4>1. \A i \in 1..Len(s) : Append(s, 32)[i] = s[i]
        BY <3>1, AppendProperties
      <4> QED
        BY <2>1, <4>1
    <3> HIDE DEF r
    <3> QED
      BY <2>1, <3>2, <3>3, <3>4 DEF r
  <2> HIDE DEF r
  <2>3. r = <<v, 32>>
    BY <2>2
  <2>4. Append(<<v>>, 32) = <<v, 32>>
    BY <2>3 DEF r, s
  <2>5. Append(<<>>, v) = <<v>>
    OBVIOUS
  <2>6. Append(<<>>, 32) = <<32>>
    OBVIOUS
  <2> QED
    BY <2>4, <2>5, <2>6
<1>2. ~Doubled(<<>>) /\ ~Doubled(<<32>>) /\ (Doubled(<<v>>) <=> v = 8) /\ (Doubled(<<v, 32>>) <=> v = 8)
  BY DEF Doubled
<1> QED
  BY <1>1, <1>2 DEF Raisings

\* Fault: the handler goes on on a stack of the thread's, or at the top of that of
\* double faults.
LEMMA FaultKeeps == ASSUME NEW v \in Faults PROVE IInv /\ Fault(v) => IInv'
<1> SUFFICES ASSUME IInv, Fault(v) PROVE IInv'
  OBVIOUS
<1>1. /\ cpu.rip \in Bodies /\ RaiseFor(v, v) /\ UNCHANGED <<tables, apic, pit, threads>>
      /\ v \in Exceptions
  BY BootAssumption DEF Fault, Raise, Exceptions
<1>2. /\ Booted /\ Current /\ Others /\ DoubleStack /\ Loaded /\ Running = cur
      /\ cur \in Bodies /\ cur \in DOMAIN blocks /\ raised[cur] \in Raisings
  BY <1>1, InBooted
<1>3. raised[cur] = <<>> /\ InBody(stacks, cpu, cur) /\ cpu.flag = TRUE
  <2>1. cpu.rip \notin {"timerInterruptAsm", "timerInterrupt", "popall"}
    BY <1>1, BodiesApart, LabelsAre DEF HandlerNames
  <2>2. Runs(stacks, cpu, cur, raised[cur])
    BY <1>2, <2>1 DEF Current, At, cur
  <2> QED
    BY <1>1, <2>2, BodyRuns DEF Runs
<1> DEFINE causes == <<v>>
           stack == KernelStack(cur, causes)
           depth == EntryStack(v).depth
<1>4. EntryStack(v) = Address(stack, depth) /\ depth \in 0..Len(stacks[stack]) /\ stack \in Stacks
      /\ EntryStack(v).stack = stack
  <2>1. OnStack(stacks, EntryStack(v), stack, 0)
    BY <1>1, <1>2, <1>3, EntryOnStack
  <2>2. \A d : Address(stack, d).stack = stack
    BY DEF Address
  <2> QED
    BY <1>2, <2>1, <2>2, OwnStacks DEF OnStack, Own
<1>5. /\ PushedMem(stacks', stacks, stack, depth, FrameOf(cpu))
      /\ cpu'.rsp = Address(stack, depth + 5) /\ cpu'.rip = HandlerOf(GateFor(v))
      /\ cpu'.flag = (cpu.flag /\ v # 32) /\ cpu'.cs = KernelCode
      /\ cpu'.ss = (IF cpu.cs = UserCode THEN 0 ELSE cpu.ss)
      /\ cpu'.gdtr = cpu.gdtr /\ cpu'.idtr = cpu.idtr /\ cpu'.tr = cpu.tr
      /\ cpu'.regs = cpu.regs /\ DOMAIN cpu' = DOMAIN cpu
      /\ raised' = [raised EXCEPT ![cur] = Append(raised[cur], v)]
  <2>1. cpu.cs \in {KernelCode, UserCode}
    BY <1>3 DEF InBody
  <2> QED
    BY <1>1, <1>2, <1>4, <2>1, RaiseStep
<1>6. cpu'.rip = Meant(v) /\ cpu'.rip \in FaultHandlers /\ cpu'.flag = TRUE /\ cpu'.ss \in {0, KernelData}
  <2>1. cpu'.ss \in {0, KernelData}
    BY <1>3, <1>5 DEF InBody, KernelCode, UserCode
  <2>2. v # 32 /\ Meant(v) = HandlerOf(GateFor(v)) /\ Meant(v) \in FaultHandlers
    BY <1>1, FaultHandled
  <2>3. cpu'.flag = TRUE
    BY <1>3, <1>5, <2>2
  <2> QED
    BY <1>5, <2>1, <2>2, <2>3
<1>7. cpu'.rip \notin Early \cup Kmain /\ cpu'.rip \notin {"count", "wait", "timer", "sti", "x2Apic"}
  BY <1>6 DEF FaultHandlers, HandlerNames, Early, Kmain
<1>8. DOMAIN raised' = Bodies /\ raised'[cur] = causes /\ \A t \in Bodies : t # cur => raised'[t] = raised[t]
  BY <1>1, <1>2, <1>3, <1>5, RaisingsAre DEF IInv, Shapes
<1>9. DOMAIN stacks' = Stacks /\ (\A s \in Stacks : IsSeq(stacks'[s])) /\ Len(stacks'[stack]) = depth + 5
      /\ \A s \in Stacks : s # stack => stacks'[s] = stacks[s]
  BY <1>5, FrameWords DEF PushedMem
<1> HIDE DEF stack, depth, causes
<1>10. Shapes'
  <2>1. cpu'.regs = [r \in Registers |-> cpu'.regs[r]]
    BY <1>5 DEF IInv, Shapes
  <2> QED
    BY <1>1, <1>5, <1>8, <1>9, <2>1 DEF Shapes, tables, threads, IInv
<1>11. TablesInv'
  BY <1>1, <1>2, <1>5, <1>7, LoadedKept DEF TablesKept, tables, TablesInv, Booted
<1>12. ApicInv' /\ TimerInv'
  <2>1. cpu.rip \notin Early \cup Kmain /\ cpu.rip \notin {"count", "wait", "timer", "sti", "x2Apic"}
    BY <1>2 DEF Booted, Kmain
  <2> QED
    BY <1>1, <1>2, <1>7, <2>1 DEF ApicInv, TimerInv, At, threads, Measured, Late, IInv, Booted, Kmain, Early
<1>13. ThreadsInv'
  <2>1. causes \in Raisings
    BY <1>1, RaisingsAre DEF causes
  <2>2. \A t \in Bodies : raised'[t] \in Raisings
    BY <1>8, <2>1 DEF IInv, ThreadsInv
  <2>3. \A t \in Threads : t \notin DOMAIN blocks => raised'[t] = <<>>
    BY <1>2, <1>8 DEF IInv, ThreadsInv, Bodies
  <2> QED
    BY <1>1, <2>2, <2>3 DEF IInv, ThreadsInv, threads
<1>14. Current'
  <2>1. OnStack(stacks', cpu'.rsp, stack, 0)
    <3>1. Address(stack, depth + 5).depth = depth + 5
      BY DEF Address
    <3> QED
      BY <1>4, <1>5, <1>9, <3>1 DEF OnStack
  <2>2. v = 8 => cpu'.rsp.depth = 5
    <3>1. ASSUME v = 8 PROVE depth = 0
      BY <3>1 DEF depth, EntryStack, Top, Address
    <3>2. Address(stack, depth + 5).depth = depth + 5
      BY DEF Address
    <3> QED
      BY <1>5, <3>1, <3>2
  <2>3. InFault(stacks', cpu', cur, v)
    BY <1>5, <1>6, <2>1, <2>2 DEF InFault, stack, causes
  <2>4. Runs(stacks', cpu', cur, raised'[cur])
    BY <1>1, <1>6, <1>8, <2>3 DEF Runs, causes
  <2> QED
    BY <1>1, <1>2, <1>6, <2>4 DEF Current, tables, threads, cur, FaultPlaces
<1>15. stack \in Own(cur, raised'[cur]) /\ ~Doubled(raised[cur])
  BY <1>3, <1>8 DEF stack, Own, Doubled
<1>16. Others'
  BY <1>1, <1>2, <1>8, <1>9, <1>15, OthersStay DEF threads, cur
<1>17. DoubleStack'
  <2>1. cpu'.rip \notin {"timerInterrupt", "popall"}
    BY <1>6 DEF FaultHandlers, HandlerNames
  <2>2. Doubled(raised'[cur]) \/ stacks'[double_fault_stack] = stacks[double_fault_stack]
    <3>1. double_fault_stack \in Stacks
      BY DEF Stacks
    <3> QED
      BY <1>2, <1>9, <1>15, <3>1, NotDouble
  <2> QED
    BY <1>1, <1>2, <1>8, <1>15, <2>1, <2>2, DoubleStays DEF threads, cur
<1> QED
  BY <1>1, <1>2, <1>7, <1>10, <1>11, <1>12, <1>13, <1>14, <1>16, <1>17 DEF IInv, Phase, Booted, threads

-----------------------------------------------------------------------------
\* Interrupts

\* The interrupt of a thread is inside of nothing or of one fault.
LEMMA InnerPushed ==
    ASSUME NEW causes, causes = <<>> \/ \E w \in Exceptions : causes = <<w>>
    PROVE  /\ Inner(Append(causes, 32)) = causes /\ Append(causes, 32) \in Raisings
           /\ (Doubled(Append(causes, 32)) <=> Doubled(causes))
           /\ Append(causes, 32) # <<>> /\ Append(causes, 32)[Len(Append(causes, 32))] = 32
<1>1. CASE causes = <<>>
  <2>1. Append(<<>>, 32) = <<32>> /\ <<32>> \in Raisings /\ ~Doubled(<<>>) /\ ~Doubled(<<32>>)
    BY RaisingsAre DEF Exceptions
  <2>2. Inner(<<32>>) = <<>>
    BY DEF Inner
  <2>3. <<32>> # <<>> /\ <<32>>[Len(<<32>>)] = 32
    OBVIOUS
  <2> QED
    BY <1>1, <2>1, <2>2, <2>3
<1>2. ASSUME NEW w \in Exceptions, causes = <<w>>
      PROVE  /\ Inner(Append(causes, 32)) = causes /\ Append(causes, 32) \in Raisings
             /\ (Doubled(Append(causes, 32)) <=> Doubled(causes))
             /\ Append(causes, 32) # <<>> /\ Append(causes, 32)[Len(Append(causes, 32))] = 32
  <2>1. Append(<<w>>, 32) = <<w, 32>> /\ <<w, 32>> \in Raisings /\ (Doubled(<<w, 32>>) <=> Doubled(<<w>>))
    BY RaisingsAre
  <2>2. Inner(<<w, 32>>) = <<w>>
    <3>1. \/ Inner(<<w, 32>>) = <<>>
          \/ \E v \in Exceptions : <<w, 32>> = <<v, 32>> /\ Inner(<<w, 32>>) = <<v>>
      BY <2>1, InnerIs
    <3>2. Inner(<<w, 32>>) # <<>>
      <4>1. Inner(<<w, 32>>) = SubSeq(<<w, 32>>, 1, 1)
        BY DEF Inner
      <4>2. <<w, 32>> \in Seq(Int)
        BY DEF Exceptions
      <4> QED
        BY <4>1, <4>2
    <3>3. \A v : <<w, 32>> = <<v, 32>> => v = w
      OBVIOUS
    <3> QED
      BY <3>1, <3>2, <3>3
  <2>3. <<w, 32>> # <<>> /\ <<w, 32>>[Len(<<w, 32>>)] = 32
    OBVIOUS
  <2> QED
    BY <1>2, <2>1, <2>2, <2>3
<1> QED
  BY <1>1, <1>2

\* A context has what the CPU has.
LEMMA ContextOfCpu ==
    ASSUME Shapes
    PROVE  /\ IsContext(Context(cpu)) /\ FrameOf(Context(cpu)) = FrameOf(cpu)
           /\ Context(cpu).regs = cpu.regs /\ Context(cpu).rip = cpu.rip /\ Context(cpu).rsp = cpu.rsp
           /\ Context(cpu).flag = cpu.flag /\ Context(cpu).cs = cpu.cs /\ Context(cpu).ss = cpu.ss
<1> DEFINE c == Context(cpu)
<1>1. /\ c.regs = cpu.regs /\ c.rip = cpu.rip /\ c.rsp = cpu.rsp
      /\ c.flag = cpu.flag /\ c.cs = cpu.cs /\ c.ss = cpu.ss
  BY DEF Context
<1>2. c = Context(c)
  BY <1>1 DEF Context
<1>3. cpu.regs = [r \in Registers |-> cpu.regs[r]]
  BY DEF Shapes
<1> HIDE DEF c
<1>4. FrameOf(c) = FrameOf(cpu)
  BY <1>1 DEF FrameOf
<1>5. c.regs = [r \in Registers |-> c.regs[r]]
  BY <1>1, <1>3
<1> QED
  BY <1>1, <1>2, <1>4, <1>5 DEF IsContext, c

\* Only the timer is ever requested once the old controllers are masked.
LEMMA RequestIsTimer ==
    ASSUME IInv, Loaded, Interrupt
    PROVE  apic.irr /\ RaiseFor(32, 32) /\ apic' = [apic EXCEPT !.irr = FALSE, !.isr = TRUE]
<1>1. PICK cause \in Requests :
          /\ RaiseFor(cause, IF cause < OldRequest(0) THEN cause ELSE cause - OldRequest(0) + 8)
          /\ apic' = IF cause < OldRequest(0) THEN [apic EXCEPT !.irr = FALSE, !.isr = TRUE] ELSE apic
  BY DEF Interrupt
<1>2. pit.irqs = {}
  BY DEF Loaded
<1>3. apic.irr /\ cause = apic.lvt.vector
  BY <1>1, <1>2 DEF Requests
<1>4. cause = 32
  BY <1>3 DEF IInv, ApicInv
<1> QED
  BY <1>1, <1>3, <1>4 DEF OldRequest

\* Interrupt: the frame on the handler's stack is what the thread left.
LEMMA InterruptKeeps == IInv /\ Interrupt => IInv'
<1> SUFFICES ASSUME IInv, Interrupt PROVE IInv'
  OBVIOUS
<1>1. cpu.flag /\ Leave /\ UNCHANGED <<tables, pit, blocks, currentProcessControlBlock>>
  BY DEF Interrupt
<1>2. cpu.flag = TRUE
  BY <1>1 DEF IInv, Phase, Booting, Halted, LostThread, Current, Entered, Runs
<1>3. /\ Booted /\ Current /\ Others /\ DoubleStack /\ Loaded /\ Running = cur
      /\ cur \in Bodies /\ cur \in DOMAIN blocks /\ raised[cur] \in Raisings
  BY <1>2, InBooted
<1>4. Runs(stacks, cpu, cur, raised[cur])
  BY <1>2, <1>3 DEF Current, Entered, cur
<1>5. apic.irr /\ RaiseFor(32, 32) /\ apic' = [apic EXCEPT !.irr = FALSE, !.isr = TRUE]
  BY <1>3, RequestIsTimer
<1> DEFINE causes == Append(raised[cur], 32)
           stack == KernelStack(cur, causes)
           depth == EntryStack(32).depth
           c == Context(cpu)
<1>6. /\ Inner(causes) = raised[cur] /\ causes \in Raisings /\ (Doubled(causes) <=> Doubled(raised[cur]))
      /\ causes # <<>> /\ causes[Len(causes)] = 32
  <2>1. raised[cur] = <<>> \/ \E w \in Exceptions : raised[cur] = <<w>>
    BY <1>4 DEF Runs
  <2> HIDE DEF cur
  <2> QED
    BY <2>1, InnerPushed
<1> HIDE DEF causes
<1>7. /\ cpu.cs \in {KernelCode, UserCode} /\ OnStack(stacks, EntryStack(32), stack, 0)
      /\ \/ cpu.rsp = EntryStack(32)
         \/ InBody(stacks, cpu, cur) /\ raised[cur] = <<>> /\ cpu.rsp.stack # stack
      /\ cpu.ss \in {0, KernelData, UserData} /\ (cpu.cs = KernelCode => cpu.ss \in {0, KernelData})
  <2>1. CASE raised[cur] = <<>> /\ InBody(stacks, cpu, cur)
    <3>1. KernelStack(cur, <<32>>) = stack
      BY <1>6, <2>1, RaisingsAre DEF KernelStack, Exceptions
    <3>2. OnStack(stacks, EntryStack(32), stack, 0)
      BY <1>3, <2>1, <3>1, EntryOnStack
    <3>3. cpu.cs = (IF cur \in Users THEN UserCode ELSE KernelCode) /\ cpu.rsp = Address(BodyStack(cur), cpu.rsp.depth)
      BY <2>1 DEF InBody, OnStack
    <3>4. CASE cur \in Users
      <4>1. cur # Main
        BY <3>4, BodiesApart
      <4>2. stack = SyscallStackOf(cur) /\ BodyStack(cur) = StackOf(cur)
        BY <1>6, <2>1, <3>4, <4>1 DEF KernelStack, BodyStack, Doubled
      <4>3. cpu.rsp.stack = BodyStack(cur)
        <5>1. \A s, d : Address(s, d).stack = s
          BY DEF Address
        <5> QED
          BY <3>3, <5>1
      <4>4. StackOf(cur) # SyscallStackOf(cur)
        BY DEF StackOf, SyscallStackOf
      <4> QED
        BY <2>1, <3>2, <3>3, <3>4, <4>2, <4>3, <4>4 DEF InBody, UserCode, KernelCode
    <3>5. CASE cur \notin Users
      <4>1. cpu.rsp = EntryStack(32)
        BY <3>3, <3>5 DEF EntryStack, UserCode, KernelCode
      <4> QED
        BY <2>1, <3>2, <3>3, <3>5, <4>1 DEF InBody
    <3> QED
      BY <3>4, <3>5
  <2>2. ASSUME NEW w \in Exceptions, raised[cur] = <<w>>, InFault(stacks, cpu, cur, w)
        PROVE  /\ cpu.cs = KernelCode /\ OnStack(stacks, EntryStack(32), stack, 0)
               /\ cpu.rsp = EntryStack(32) /\ cpu.ss \in {0, KernelData}
    <3>1. KernelStack(cur, <<w>>) = stack
      BY <1>6, <2>2 DEF KernelStack
    <3>2. cpu.rsp = EntryStack(32)
      BY <2>2 DEF EntryStack, InFault, UserCode, KernelCode
    <3> QED
      BY <2>2, <3>1, <3>2, FaultOnStack DEF InFault
  <2> QED
    BY <1>4, <2>1, <2>2 DEF Runs
<1>8. EntryStack(32) = Address(stack, depth) /\ depth \in 0..Len(stacks[stack]) /\ stack \in Stacks
      /\ EntryStack(32).stack = stack
  <2>1. \A d : Address(stack, d).stack = stack
    BY DEF Address
  <2> QED
    BY <1>3, <1>7, <2>1, OwnStacks DEF OnStack, Own
<1>9. /\ PushedMem(stacks', stacks, stack, depth, FrameOf(cpu))
      /\ cpu'.rsp = Address(stack, depth + 5) /\ cpu'.rip = HandlerOf(GateFor(32))
      /\ cpu'.flag = (cpu.flag /\ 32 # 32) /\ cpu'.cs = KernelCode
      /\ cpu'.gdtr = cpu.gdtr /\ cpu'.idtr = cpu.idtr /\ cpu'.tr = cpu.tr
      /\ cpu'.regs = cpu.regs /\ DOMAIN cpu' = DOMAIN cpu
      /\ raised' = [raised EXCEPT ![cur] = causes]
  BY <1>3, <1>5, <1>7, <1>8, RaiseStep DEF causes
<1>10. cpu'.rip = "timerInterruptAsm" /\ cpu'.flag = FALSE
  <2>1. HandlerOf(GateFor(32)) = "timerInterruptAsm"
    BY DEF HandlerOf, GateFor
  <2>2. (cpu.flag /\ 32 # 32) = FALSE
    OBVIOUS
  <2> QED
    BY <1>9, <2>1, <2>2
<1>11. cpu'.rip \notin Early \cup Kmain /\ cpu'.rip \notin {"count", "wait", "timer", "sti", "x2Apic"}
  BY <1>10 DEF Early, Kmain
<1>12. DOMAIN raised' = Bodies /\ raised'[cur] = causes /\ \A t \in Bodies : t # cur => raised'[t] = raised[t]
  BY <1>3, <1>9 DEF IInv, Shapes
<1>13. /\ DOMAIN stacks' = Stacks /\ (\A s \in Stacks : IsSeq(stacks'[s])) /\ Len(stacks'[stack]) = depth + 5
       /\ \A s \in Stacks : s # stack => stacks'[s] = stacks[s]
       /\ \A i \in 1..5 : stacks'[stack][depth + i] = FrameOf(cpu)[i]
  BY <1>9, FrameWords DEF PushedMem
<1>14. cur \in DOMAIN left' /\ left'[cur] = c /\ \A t \in DOMAIN left : t \in DOMAIN left' /\ (t # cur => left'[t] = left[t])
  <2>1. left' = With(left, cur, c)
    BY <1>1, <1>3 DEF Leave, cur, Booted
  <2> HIDE DEF c, cur
  <2> QED
    BY <2>1 DEF With
<1>15. /\ IsContext(c) /\ FrameOf(c) = FrameOf(cpu)
       /\ c.regs = cpu.regs /\ c.rip = cpu.rip /\ c.rsp = cpu.rsp
       /\ c.flag = cpu.flag /\ c.cs = cpu.cs /\ c.ss = cpu.ss
  BY ContextOfCpu DEF IInv
<1> HIDE DEF stack, depth, c
<1>16. Shapes'
  <2>1. cpu'.regs = [r \in Registers |-> cpu'.regs[r]]
    BY <1>9 DEF IInv, Shapes
  <2>2. DOMAIN apic' = DOMAIN apic
    BY <1>5
  <2> QED
    BY <1>1, <1>9, <1>12, <1>13, <2>1, <2>2 DEF Shapes, tables, IInv
<1>17. TablesInv'
  BY <1>1, <1>3, <1>9, <1>11, LoadedKept DEF TablesKept, tables, TablesInv, Booted
<1>18. ApicInv' /\ TimerInv'
  <2>1. cpu.rip \notin Early \cup Kmain /\ cpu.rip \notin {"count", "wait", "timer", "sti", "x2Apic"}
    BY <1>3 DEF Booted, Kmain
  <2>2. /\ apic'.irr = FALSE /\ apic'.base = apic.base /\ apic'.lvt = apic.lvt /\ apic'.bus = apic.bus
        /\ apic'.divisor = apic.divisor /\ apic'.count = apic.count
    BY <1>5 DEF IInv, Shapes
  <2> QED
    BY <1>1, <1>3, <1>11, <2>1, <2>2 DEF ApicInv, TimerInv, At, Measured, Late, IInv, Booted, Kmain, Early
<1>19. ThreadsInv'
  <2>1. \A t \in Bodies : raised'[t] \in Raisings
    BY <1>6, <1>12 DEF IInv, ThreadsInv
  <2>2. \A t \in Threads : t \notin DOMAIN blocks => raised'[t] = <<>>
    BY <1>3, <1>12 DEF IInv, ThreadsInv, Bodies
  <2> QED
    BY <1>1, <2>1, <2>2 DEF IInv, ThreadsInv
<1>20. Current'
  <2>1. Address(stack, depth + 5).depth = depth + 5
    BY DEF Address
  <2>2. OnStack(stacks', cpu'.rsp, stack, 5)
    BY <1>8, <1>9, <1>13, <2>1 DEF OnStack
  <2>3. HasFrame(stacks', stack, cpu'.rsp.depth - 5, c)
    <3>1. cpu'.rsp.depth - 5 = depth
      BY <1>8, <1>9, <2>1
    <3>2. HasFrame(stacks', stack, depth, c)
      BY <1>13, <1>15 DEF HasFrame
    <3> QED
      BY <3>1, <3>2
  <2>4. Runs(stacks', c, cur, raised[cur])
    <3>1. ASSUME NEW s, OnStack(stacks, c.rsp, s, 0), s \in Stacks
          PROVE  OnStack(stacks', c.rsp, s, 0)
      <4>1. c.rsp.stack = s
        <5>1. \A d : Address(s, d).stack = s
          BY DEF Address
        <5> QED
          BY <3>1, <5>1 DEF OnStack
      <4>2. CASE s = stack
        <5>1. c.rsp.depth = depth
          BY <1>7, <1>15, <4>1, <4>2 DEF depth
        <5> QED
          BY <1>8, <1>13, <3>1, <4>2, <5>1 DEF OnStack
      <4>3. CASE s # stack
        BY <1>13, <3>1, <4>3 DEF OnStack
      <4> QED
        BY <4>2, <4>3
    <3>2. BodyStack(cur) \in Stacks /\ \A a : KernelStack(cur, a) \in Stacks
      BY <1>3, OwnStacks DEF Own
    <3>3. CASE raised[cur] = <<>> /\ InBody(stacks, cpu, cur)
      BY <1>2, <1>15, <3>1, <3>2, <3>3 DEF Runs, InBody
    <3>4. ASSUME NEW w \in Exceptions, raised[cur] = <<w>>, InFault(stacks, cpu, cur, w)
          PROVE  Runs(stacks', c, cur, raised[cur])
      <4>1. KernelStack(cur, <<w>>) = stack /\ cpu.rsp = EntryStack(32)
        BY <1>6, <3>4 DEF KernelStack, stack, EntryStack, InFault, UserCode, KernelCode
      <4>2. cpu.rsp = Address(stack, depth) /\ cpu.rsp.depth = depth
        BY <1>8, <4>1 DEF Address
      <4>3. InFault(stacks', c, cur, w)
        <5>1. CASE cpu.rip \in {Meant(w), "hlt"} /\ (w = 8 => cpu.rsp.depth = 5)
          <6>1. OnStack(stacks', c.rsp, stack, 0)
            BY <1>8, <1>13, <1>15, <4>2 DEF OnStack
          <6> QED
            BY <1>15, <3>4, <4>1, <5>1, <6>1 DEF InFault
        <5>2. CASE /\ cpu.rip = "Serial::write" /\ OnStack(stacks, cpu.rsp, stack, 1)
                   /\ stacks[stack][cpu.rsp.depth] = ReturnWord /\ (w = 8 => cpu.rsp.depth = 6)
          <6>1. OnStack(stacks', c.rsp, stack, 1)
            BY <1>8, <1>13, <1>15, <4>2, <5>2 DEF OnStack
          <6>2. depth \in 1..depth
            BY <4>2, <5>2 DEF OnStack
          <6>3. stacks'[stack][c.rsp.depth] = ReturnWord
            BY <1>9, <1>15, <4>2, <5>2, <6>2 DEF PushedMem
          <6> QED
            BY <1>15, <3>4, <4>1, <5>2, <6>1, <6>3 DEF InFault
        <5> QED
          BY <3>4, <4>1, <5>1, <5>2 DEF InFault
      <4> QED
        BY <1>2, <1>15, <3>4, <4>3 DEF Runs
    <3> QED
      BY <1>4, <3>3, <3>4 DEF Runs
  <2>5. Interrupted(stacks', c, cur, causes)
    BY <1>6, <1>15, <2>4 DEF Interrupted
  <2>6. Entered(stacks', cpu', c, cur, causes)
    <3>1. cpu'.rsp.depth = Len(stacks'[stack])
      BY <1>9, <1>13, <2>1
    <3>2. Doubled(causes) => cpu'.rsp.depth = c.rsp.depth + 5
      <4>1. ASSUME Doubled(causes) PROVE cpu.rsp = EntryStack(32)
        BY <1>6, <1>7, <4>1 DEF Doubled
      <4>2. Address(stack, depth).depth = depth
        BY DEF Address
      <4> QED
        BY <1>8, <1>9, <1>15, <2>1, <4>1, <4>2
    <3> QED
      BY <1>6, <1>9, <1>10, <1>15, <2>2, <2>3, <2>5, <3>1, <3>2 DEF Entered, stack
  <2> QED
    BY <1>1, <1>3, <1>10, <1>12, <1>14, <2>6 DEF Current, tables, cur, At
<1>21. stack \in Own(cur, raised'[cur])
  BY <1>12 DEF stack, Own
<1>22. Others'
  BY <1>1, <1>3, <1>6, <1>12, <1>13, <1>14, <1>21, OthersStay DEF cur
<1>23. DoubleStack'
  <2>1. cpu'.rip \notin {"timerInterrupt", "popall"}
    BY <1>10
  <2>2. Doubled(raised'[cur]) \/ stacks'[double_fault_stack] = stacks[double_fault_stack]
    <3>1. double_fault_stack \in Stacks
      BY DEF Stacks
    <3> QED
      BY <1>3, <1>13, <1>21, <3>1, NotDouble
  <2> QED
    BY <1>1, <1>3, <1>6, <1>12, <2>1, <2>2, DoubleStays DEF cur
<1> QED
  BY <1>1, <1>3, <1>11, <1>16, <1>17, <1>18, <1>19, <1>20, <1>22, <1>23 DEF IInv, Phase, Booted

\* The registers that are pushed, in the order they are pushed in
SavedRegisters == [i \in DOMAIN PushOrder |-> cpu.regs[PushOrder[i]]]

\* There are fifteen.
LEMMA SavedWords ==
    /\ IsSeq(SavedRegisters) /\ Len(SavedRegisters) = 15
    /\ \A i \in 1..15 : SavedRegisters[i] = cpu.regs[PushOrder[i]]
<1>1. DOMAIN PushOrder = 1..15
  BY DEF PushOrder
<1> DEFINE S == {cpu.regs[PushOrder[i]] : i \in 1..15}
<1>2. SavedRegisters = [i \in 1..15 |-> cpu.regs[PushOrder[i]]]
  BY <1>1 DEF SavedRegisters
<1>4. SavedRegisters \in Seq(S) /\ Len(SavedRegisters) = 15
  <2> DEFINE words == [i \in 1..15 |-> cpu.regs[PushOrder[i]]]
  <2>1. Len(words) = 15
    OBVIOUS
  <2>2. \A i \in 1..15 : cpu.regs[PushOrder[i]] \in S
    OBVIOUS
  <2> HIDE DEF S
  <2>3. words \in Seq(S)
    BY <2>2
  <2> HIDE DEF words
  <2> QED
    BY <1>2, <2>1, <2>3 DEF words
<1> QED
  BY <1>2, <1>4, SeqIsSeq

\* SaveContext: with the registers below the frame, the thread is saved.
LEMMA SaveContextKeeps == IInv /\ SaveContext => IInv'
<1> SUFFICES ASSUME IInv, SaveContext PROVE IInv'
  OBVIOUS
<1>1. cpu.rip = "timerInterruptAsm" /\ UNCHANGED <<tables, apic, pit, currentProcessControlBlock, left>>
  BY DEF SaveContext, At
<1>2. /\ Booted /\ Current /\ Others /\ DoubleStack /\ Loaded
      /\ cur \in Bodies /\ cur \in DOMAIN blocks /\ raised[cur] \in Raisings
  BY <1>1, InBooted
<1> DEFINE causes == raised[cur]
           c == left[cur]
           stack == KernelStack(cur, causes)
           depth == cpu.rsp.depth
           sp == Below(cpu.rsp, SavedRegisters)
<1>3. cur \in DOMAIN left /\ Entered(stacks, cpu, c, cur, causes)
  <2>1. cpu.rip \notin Bodies /\ cpu.rip \notin FaultPlaces
    BY <1>1, BodiesApart, LabelsAre DEF FaultPlaces, FaultHandlers, HandlerNames
  <2> QED
    BY <1>1, <1>2, <2>1 DEF Current, cur
<1>4. /\ stacks' = Pushed(cpu.rsp, SavedRegisters)
      /\ blocks' = [blocks EXCEPT ![cur].rsp = sp]
      /\ cpu' = [cpu EXCEPT !.rip = "timerInterrupt", !.rsp = sp]
      /\ UNCHANGED raised
  BY <1>2 DEF SaveContext, SavedRegisters, Booted, cur
<1>5. /\ OnStack(stacks, cpu.rsp, stack, 5) /\ depth = Len(stacks[stack])
      /\ cpu.flag = FALSE /\ cpu.regs = c.regs
      /\ HasFrame(stacks, stack, depth - 5, c) /\ Interrupted(stacks, c, cur, causes)
      /\ stack \in Stacks /\ stack \in Own(cur, causes)
  BY <1>2, <1>3, OwnStacks DEF Entered, Own
<1>6. depth \in Nat /\ depth >= 5 /\ cpu.rsp = Address(stack, depth)
  BY <1>5, StackLengths DEF OnStack, IInv
<1>7. sp = Address(stack, depth + 15) /\ sp.depth = depth + 15
  <2>1. Address(stack, depth).stack = stack /\ Address(stack, depth).depth = depth
        /\ Address(stack, depth + 15).depth = depth + 15
    BY DEF Address
  <2> QED
    BY <1>6, <2>1, SavedWords DEF Below
<1>8. PushedMem(stacks', stacks, stack, depth, SavedRegisters)
  <2>1. stacks' = Pushed(Address(stack, depth), SavedRegisters) /\ depth \in 0..Len(stacks[stack])
    BY <1>4, <1>5, <1>6
  <2>2. DOMAIN stacks = Stacks /\ \A s \in Stacks : IsSeq(stacks[s])
    BY DEF IInv, Shapes
  <2> HIDE DEF stack, depth
  <2> QED
    BY <1>5, <2>1, <2>2, SavedWords, StacksPushed
<1>9. /\ DOMAIN stacks' = Stacks /\ (\A s \in Stacks : IsSeq(stacks'[s])) /\ Len(stacks'[stack]) = depth + 15
      /\ \A s \in Stacks : s # stack => stacks'[s] = stacks[s]
      /\ \A i \in 1..depth : stacks'[stack][i] = stacks[stack][i]
      /\ \A i \in 1..15 : stacks'[stack][depth + i] = cpu.regs[PushOrder[i]]
  BY <1>8, SavedWords DEF PushedMem
<1>10. /\ cpu'.rip = "timerInterrupt" /\ cpu'.idtr = cpu.idtr /\ cpu'.tr = cpu.tr
       /\ cpu'.gdtr = cpu.gdtr /\ cpu'.flag = cpu.flag
       /\ cpu'.regs = cpu.regs /\ DOMAIN cpu' = DOMAIN cpu
  <2> HIDE DEF sp
  <2> QED
    BY <1>4 DEF IInv, Shapes
<1>11. cpu'.rip \notin Early \cup Kmain /\ cpu'.rip \notin {"count", "wait", "timer", "sti", "x2Apic"}
  BY <1>10 DEF Early, Kmain
<1>12. /\ DOMAIN blocks' = DOMAIN blocks /\ blocks'[cur].rsp = sp
       /\ \A t \in DOMAIN blocks : /\ DOMAIN blocks'[t] = DOMAIN blocks[t]
                                   /\ t # cur => blocks'[t] = blocks[t]
                                   /\ blocks'[t].syscallRsp = blocks[t].syscallRsp
  <2>1. \A t \in DOMAIN blocks : DOMAIN blocks[t] = {"rsp", "syscallRsp"}
    BY DEF IInv, Shapes
  <2> HIDE DEF sp
  <2> QED
    BY <1>2, <1>4, <2>1
<1> HIDE DEF stack, depth, c, sp, causes
<1>13. Shapes'
  <2>1. cpu'.regs = [r \in Registers |-> cpu'.regs[r]]
    BY <1>10 DEF IInv, Shapes
  <2>2. \A t \in DOMAIN blocks' : DOMAIN blocks'[t] = {"rsp", "syscallRsp"}
    BY <1>12 DEF IInv, Shapes
  <2> QED
    BY <1>1, <1>4, <1>9, <1>10, <2>1, <2>2 DEF Shapes, tables, IInv
<1>14. TablesInv'
  BY <1>1, <1>2, <1>10, <1>11, LoadedKept DEF TablesKept, tables, TablesInv, Booted
<1>15. ApicInv' /\ TimerInv'
  <2>1. cpu.rip \notin Early \cup Kmain /\ cpu.rip \notin {"count", "wait", "timer", "sti", "x2Apic"}
    BY <1>2 DEF Booted, Kmain
  <2> QED
    BY <1>1, <1>2, <1>11, <2>1 DEF ApicInv, TimerInv, At, Measured, Late, IInv, Booted, Kmain, Early
<1>16. ThreadsInv'
  BY <1>4, <1>12 DEF IInv, ThreadsInv
<1>17. Interrupted(stacks', c, cur, causes)
  <2>1. ASSUME NEW s \in Own(cur, causes)
        PROVE  Grown(stacks, stacks', s)
    <3>1. s \in Stacks /\ Len(stacks[s]) \in Nat
      BY <1>2, OwnStacks, StackLengths DEF IInv
    <3>2. CASE s = stack
      <4>1. Len(stacks[s]) = depth /\ Len(stacks'[s]) = depth + 15 /\ depth \in Nat
        BY <1>5, <1>6, <1>9, <3>2
      <4>2. \A i \in 1..depth : stacks'[s][i] = stacks[s][i]
        BY <1>9, <3>2
      <4>3. \A n \in Nat : n + 15 \in Nat /\ n <= n + 15
        OBVIOUS
      <4> QED
        BY <4>1, <4>2, <4>3 DEF Grown
    <3>3. CASE s # stack
      <4>1. stacks'[s] = stacks[s]
        BY <1>9, <3>1, <3>3
      <4> QED
        BY <3>1, <4>1 DEF Grown
    <3> QED
      BY <3>2, <3>3
  <2> QED
    BY <1>2, <1>5, <2>1, InterruptedKept DEF causes
<1>18. Doubled(causes) => /\ causes = <<8, 32>> /\ InFault(stacks', c, cur, 8) /\ c.flag = TRUE
                          /\ c.rsp.depth \in {5, 6} /\ depth = c.rsp.depth + 5 /\ stack = double_fault_stack
  <2> SUFFICES ASSUME Doubled(causes)
               PROVE  /\ causes = <<8, 32>> /\ InFault(stacks', c, cur, 8) /\ c.flag = TRUE
                      /\ c.rsp.depth \in {5, 6} /\ depth = c.rsp.depth + 5 /\ stack = double_fault_stack
    OBVIOUS
  <2>1. Runs(stacks', c, cur, Inner(causes)) /\ causes \in Raisings
    BY <1>2, <1>17 DEF Interrupted, causes
  <2>2. causes[Len(causes)] = 32 /\ depth = c.rsp.depth + 5 /\ stack = double_fault_stack
    BY <1>3 DEF Entered, depth, stack, KernelStack, causes
  <2>3. c.flag = TRUE
    BY <2>1 DEF Runs
  <2> QED
    BY <2>1, <2>2, <2>3, DoubleIs
<1>19. HasFrame(stacks', stack, depth - 5, c) /\ HasRegisters(stacks', stack, depth, c)
  <2>1. \A i \in 1..5 : (depth - 5) + i \in 1..depth
    BY <1>6
  <2>2. \A i \in 1..5 : stacks[stack][(depth - 5) + i] = FrameOf(c)[i]
    BY <1>5 DEF HasFrame
  <2>3. \A i \in 1..5 : stacks'[stack][(depth - 5) + i] = FrameOf(c)[i]
    BY <1>9, <2>1, <2>2
  <2>4. \A i \in 1..15 : stacks'[stack][depth + i] = c.regs[PushOrder[i]]
    BY <1>5, <1>9
  <2> QED
    BY <2>3, <2>4 DEF HasFrame, HasRegisters
<1>20. Current'
  <2> DEFINE below == depth + 15
  <2>1. below \in Nat /\ below >= 20 /\ below - 20 = depth - 5 /\ below - 15 = depth
    BY <1>6
  <2>2. sp = Address(stack, below) /\ sp.depth = below /\ Len(stacks'[stack]) = below
    BY <1>7, <1>9
  <2> HIDE DEF below
  <2>3. OnStack(stacks', sp, stack, 20)
    BY <2>1, <2>2 DEF OnStack
  <2>4. HasFrame(stacks', stack, sp.depth - 20, c) /\ HasRegisters(stacks', stack, sp.depth - 15, c)
    BY <1>19, <2>1, <2>2
  <2>5. Saved(stacks', sp, c, cur, causes)
    BY <1>5, <1>17, <2>3, <2>4 DEF Saved
  <2>6. ASSUME Doubled(causes)
        PROVE  causes = <<8, 32>> /\ \E d \in {25, 26} : sp = Address(double_fault_stack, d)
    <3>1. depth + 15 \in {25, 26}
      BY <1>18, <2>6
    <3> QED
      BY <1>7, <1>18, <2>6, <3>1
  <2>7. SavedThread(cur)'
    BY <1>1, <1>3, <1>4, <1>12, <2>5, <2>6 DEF SavedThread, SavedDouble, c, causes, cur
  <2> QED
    BY <1>1, <1>2, <1>5, <1>10, <1>12, <2>7 DEF Current, tables, cur
<1>21. Others'
  BY <1>1, <1>2, <1>4, <1>5, <1>9, <1>12, OthersStay DEF cur, causes
<1>22. DoubleStack'
  <2>1. CASE Doubled(causes)
    <3>1. KernelStack(cur, <<8>>) = double_fault_stack /\ KernelStack(Main, <<8>>) = double_fault_stack
      BY DEF KernelStack, Doubled
    <3>2. InFault(stacks', c, Main, 8) /\ IsContext(c) /\ c.flag = TRUE
      BY <1>17, <1>18, <2>1, <3>1 DEF InFault, Interrupted
    <3>3. depth - 5 = c.rsp.depth /\ depth = c.rsp.depth + 5 /\ depth + 15 = c.rsp.depth + 20
      BY <1>18, <2>1
    <3>4. /\ Len(stacks'[double_fault_stack]) = c.rsp.depth + 20
          /\ HasFrame(stacks', double_fault_stack, c.rsp.depth, c)
          /\ HasRegisters(stacks', double_fault_stack, c.rsp.depth + 5, c)
      BY <1>9, <1>18, <1>19, <2>1, <3>3
    <3>5. DoubleRests(stacks')
      BY <3>2, <3>4 DEF DoubleRests
    <3> QED
      BY <3>5 DEF DoubleStack, DoubleRests
  <2>2. CASE ~Doubled(causes) /\ \A t \in Bodies : ~Doubled(raised[t])
    BY <1>4, <2>2 DEF DoubleStack
  <2>3. CASE ~Doubled(causes) /\ DoubleRests(stacks)
    <3>1. double_fault_stack \in Stacks /\ double_fault_stack # stack
      BY <1>2, <1>5, <2>3, NotDouble DEF Stacks
    <3>2. DoubleRests(stacks')
      BY <1>9, <2>3, <3>1, RestsKept
    <3> QED
      BY <3>2 DEF DoubleStack, DoubleRests
  <2> QED
    BY <1>2, <2>1, <2>2, <2>3 DEF DoubleStack, causes, cur
<1> QED
  BY <1>1, <1>2, <1>11, <1>13, <1>14, <1>15, <1>16, <1>20, <1>21, <1>22 DEF IInv, Phase, Booted

\* timerInterrupt: whoever is next is saved too, and rsp0 is its own.
LEMMA timerInterruptKeeps == IInv /\ timerInterrupt => IInv'
<1> SUFFICES ASSUME IInv, timerInterrupt PROVE IInv'
  OBVIOUS
<1>1. PICK next \in DOMAIN blocks :
          /\ currentProcessControlBlock' = next
          /\ globalTss' = [globalTss EXCEPT !["rsp0"] = blocks[next].syscallRsp]
  BY DEF timerInterrupt
<1>2. /\ cpu.rip = "timerInterrupt" /\ apic' = [apic EXCEPT !.isr = FALSE] /\ cpu' = [cpu EXCEPT !.rip = "popall"]
      /\ UNCHANGED <<layout, gdtArray, gdtr, idt_entries, idtr, pit, stacks, blocks, left, raised>>
  BY DEF timerInterrupt, At, Go
<1>3. /\ Booted /\ Current /\ Others /\ DoubleStack /\ Loaded
      /\ cur \in Bodies /\ cur \in DOMAIN blocks
  BY <1>2, InBooted
<1>4. cpu.flag = FALSE /\ SavedThread(cur)
  <2>1. cpu.rip \notin Bodies /\ cpu.rip \notin FaultPlaces
    BY <1>2, BodiesApart, LabelsAre DEF FaultPlaces, FaultHandlers, HandlerNames
  <2> QED
    BY <1>2, <1>3, <2>1 DEF Current, cur, At
<1>5. \A t \in DOMAIN blocks : SavedThread(t)
  BY <1>3, <1>4 DEF Others, cur
<1>6. \A t \in DOMAIN blocks : SavedThread(t)'
  BY <1>2, <1>5 DEF SavedThread, SavedDouble, Shares, InDoubleFault
<1>7. /\ cpu'.rip = "popall" /\ cpu'.idtr = cpu.idtr /\ cpu'.tr = cpu.tr
      /\ cpu'.gdtr = cpu.gdtr /\ cpu'.flag = cpu.flag
      /\ cpu'.regs = cpu.regs /\ DOMAIN cpu' = DOMAIN cpu
  BY <1>2 DEF IInv, Shapes
<1>8. cpu'.rip \notin Early \cup Kmain /\ cpu'.rip \notin {"count", "wait", "timer", "sti", "x2Apic"}
  BY <1>7 DEF Early, Kmain
<1>9. /\ DOMAIN globalTss' = DOMAIN globalTss /\ globalTss'["rsp0"] = blocks[next].syscallRsp
      /\ globalTss'["ist0"] = globalTss["ist0"]
  <2>1. "rsp0" \in DOMAIN globalTss
    BY DEF IInv, Shapes, TSS
  <2> QED
    BY <1>1, <2>1
<1>10. next \in Bodies /\ next # None
  BY BodiesApart DEF IInv, ThreadsInv
<1>11. Shapes'
  <2>1. cpu'.regs = [r \in Registers |-> cpu'.regs[r]]
    BY <1>7 DEF IInv, Shapes
  <2>2. DOMAIN apic' = DOMAIN apic
    BY <1>2
  <2> QED
    BY <1>2, <1>7, <1>9, <2>1, <2>2 DEF Shapes, IInv
<1>12. TablesInv'
  BY <1>2, <1>3, <1>7, <1>8, <1>9, LoadedKept DEF TablesKept, TablesInv, Booted
<1>13. ApicInv' /\ TimerInv'
  <2>1. cpu.rip \notin Early \cup Kmain /\ cpu.rip \notin {"count", "wait", "timer", "sti", "x2Apic"}
    BY <1>3 DEF Booted, Kmain
  <2>2. /\ apic'.irr = apic.irr /\ apic'.base = apic.base /\ apic'.lvt = apic.lvt /\ apic'.bus = apic.bus
        /\ apic'.divisor = apic.divisor /\ apic'.count = apic.count
    BY <1>2 DEF IInv, Shapes
  <2> QED
    BY <1>2, <1>3, <1>8, <2>1, <2>2 DEF ApicInv, TimerInv, At, Measured, Late, IInv, Booted, Kmain, Early
<1>14. ThreadsInv'
  BY <1>2, ThreadsKept DEF IInv
<1>15. Current'
  <2>1. next \in Users => globalTss'["rsp0"] = Top(SyscallStackOf(next))
    BY <1>9 DEF IInv, ThreadsInv
  <2> QED
    BY <1>1, <1>2, <1>4, <1>6, <1>7, <2>1 DEF Current
<1>16. Others'
  BY <1>2, <1>6 DEF Others
<1>17. DoubleStack'
  BY <1>2, <1>3 DEF DoubleStack, DoubleRests
<1> QED
  BY <1>1, <1>8, <1>10, <1>11, <1>12, <1>13, <1>14, <1>15, <1>16, <1>17 DEF IInv, Phase, Booted

-----------------------------------------------------------------------------
\* Resuming

\* The i-th word popall and iretq pop
PoppedWord(mem, sp, i) == mem[sp.stack][sp.depth - i]

\* What is on the stack at sp is the context c.
Holds(mem, sp, c) ==
    /\ sp.depth \in Nat /\ 20 <= sp.depth /\ sp.depth <= Len(mem[sp.stack])
    /\ \A i \in 0..14 : PoppedWord(mem, sp, i) = c.regs[PopOrder[i + 1]]
    /\ PoppedWord(mem, sp, 15) = <<"rip", c.rip>>
    /\ PoppedWord(mem, sp, 16) = <<"selector", c.cs>>
    /\ PoppedWord(mem, sp, 17) = <<"flag", c.flag>>
    /\ PoppedWord(mem, sp, 18) = <<"rsp", c.rsp>>
    /\ PoppedWord(mem, sp, 19) = <<"selector", c.ss>>

\* popall pops in the opposite order of pushall (Macros.asm).
LEMMA OrdersMatch ==
    /\ \A i \in 0..14 : PopOrder[i + 1] = PushOrder[15 - i]
    /\ \A r \in Registers : \E i \in 0..14 : PopOrder[i + 1] = r
    /\ Len(PopOrder) = 15
<1>1. \A i \in 0..14 : PopOrder[i + 1] = PushOrder[15 - i]
  BY DEF PopOrder, PushOrder
<1>2. DOMAIN PushOrder = 1..15
  BY DEF PushOrder
<1>3. ASSUME NEW r \in Registers
      PROVE  \E i \in 0..14 : PopOrder[i + 1] = r
  <2>1. PICK j \in 1..15 : r = PushOrder[j]
    BY <1>2 DEF Registers, Elements
  <2>2. 15 - j \in 0..14 /\ 15 - (15 - j) = j
    OBVIOUS
  <2> QED
    BY <1>1, <2>1, <2>2
<1>4. Len(PopOrder) = 15
  BY DEF PopOrder
<1> QED
  BY <1>1, <1>3, <1>4

\* What is saved is what is popped.
LEMMA WordsPopped ==
    ASSUME NEW mem, NEW sp, NEW c, NEW stack, Len(mem[stack]) \in Nat, OnStack(mem, sp, stack, 20),
           HasFrame(mem, stack, sp.depth - 20, c), HasRegisters(mem, stack, sp.depth - 15, c)
    PROVE  Holds(mem, sp, c)
<1> DEFINE depth == sp.depth
<1>1. depth \in Nat /\ 20 <= depth /\ depth <= Len(mem[stack])
  BY DEF OnStack
<1>2. sp.stack = stack
  <2>1. \A d : Address(stack, d).stack = stack
    BY DEF Address
  <2> QED
    BY <2>1 DEF OnStack
<1> HIDE DEF depth
<1>3. \A i : PoppedWord(mem, sp, i) = mem[stack][depth - i]
  BY <1>2 DEF PoppedWord, depth
<1>4. ASSUME NEW i \in 0..14
      PROVE  PoppedWord(mem, sp, i) = c.regs[PopOrder[i + 1]]
  <2>1. 15 - i \in 1..15 /\ (depth - 15) + (15 - i) = depth - i
    BY <1>1
  <2>2. mem[stack][(depth - 15) + (15 - i)] = c.regs[PushOrder[15 - i]]
    BY <2>1 DEF HasRegisters, depth
  <2> QED
    BY <1>3, <2>1, <2>2, OrdersMatch
<1>5. /\ (depth - 20) + 5 = depth - 15 /\ (depth - 20) + 4 = depth - 16 /\ (depth - 20) + 3 = depth - 17
      /\ (depth - 20) + 2 = depth - 18 /\ (depth - 20) + 1 = depth - 19
  BY <1>1
<1>6. /\ mem[stack][(depth - 20) + 5] = FrameOf(c)[5] /\ mem[stack][(depth - 20) + 4] = FrameOf(c)[4]
      /\ mem[stack][(depth - 20) + 3] = FrameOf(c)[3] /\ mem[stack][(depth - 20) + 2] = FrameOf(c)[2]
      /\ mem[stack][(depth - 20) + 1] = FrameOf(c)[1]
  BY DEF HasFrame, depth
<1>7. /\ FrameOf(c)[1] = <<"selector", c.ss>> /\ FrameOf(c)[2] = <<"rsp", c.rsp>>
      /\ FrameOf(c)[3] = <<"flag", c.flag>> /\ FrameOf(c)[4] = <<"selector", c.cs>>
      /\ FrameOf(c)[5] = <<"rip", c.rip>>
  BY DEF FrameOf, Frame
<1>8. /\ PoppedWord(mem, sp, 15) = FrameOf(c)[5] /\ PoppedWord(mem, sp, 16) = FrameOf(c)[4]
      /\ PoppedWord(mem, sp, 17) = FrameOf(c)[3] /\ PoppedWord(mem, sp, 18) = FrameOf(c)[2]
      /\ PoppedWord(mem, sp, 19) = FrameOf(c)[1]
  BY <1>3, <1>5, <1>6
<1> QED
  BY <1>1, <1>2, <1>4, <1>7, <1>8 DEF depth, Holds

\* iretq takes the selectors that a thread was interrupted or created with.
LEMMA SelectorsReturn ==
    ASSUME layout \in Layouts, Loaded, NEW mem, NEW c, NEW t, NEW causes, Runs(mem, c, t, causes)
    PROVE  MayReturn(c.cs, c.ss)
<1>1. \/ c.cs = UserCode /\ c.ss = UserData
      \/ c.cs = KernelCode /\ c.ss \in {0, KernelData}
  BY DEF Runs, InBody, InFault
<1>2. /\ InTable(KernelCode) /\ IsCode(Descriptor(KernelCode)) /\ Dpl(Descriptor(KernelCode)) = 0
      /\ InTable(KernelData) /\ IsStack(Descriptor(KernelData)) /\ Dpl(Descriptor(KernelData)) = 0
      /\ InTable(UserCode) /\ IsCode(Descriptor(UserCode)) /\ Dpl(Descriptor(UserCode)) = 3
      /\ InTable(UserData) /\ IsStack(Descriptor(UserData)) /\ Dpl(Descriptor(UserData)) = 3
  BY SegmentsRight DEF Loaded
<1>3. Rpl(KernelCode) = 0 /\ Rpl(KernelData) = 0 /\ Rpl(0) = 0 /\ Rpl(UserCode) = 3 /\ Rpl(UserData) = 3
  BY DEF Rpl, KernelCode, KernelData, UserCode, UserData
<1> QED
  BY <1>1, <1>2, <1>3 DEF MayReturn

\* What a step of popall and iretq does when it goes to the context c
Resumption(c) ==
    /\ Context(cpu') = c /\ DOMAIN cpu' = DOMAIN cpu
    /\ cpu'.idtr = cpu.idtr /\ cpu'.tr = cpu.tr /\ cpu'.gdtr = cpu.gdtr
    /\ raised' = [raised EXCEPT ![cur] = Inner(raised[cur])] /\ UNCHANGED stacks

\* It goes to what the stack holds where the control block says.
LEMMA ResumesWith ==
    ASSUME IInv, Loaded, Return, NEW c, IsContext(c), NEW causes, Runs(stacks, c, cur, causes),
           Holds(stacks, blocks[cur].rsp, c)
    PROVE  Resumption(c)
<1> DEFINE sp == blocks[cur].rsp
           regs == [r \in Registers |-> Popped(sp, CHOOSE i \in 0..14 : PopOrder[i + 1] = r)]
<1>1. /\ sp.depth \in Nat /\ 20 <= sp.depth /\ sp.depth <= Len(stacks[sp.stack])
      /\ \A i \in 0..14 : Popped(sp, i) = c.regs[PopOrder[i + 1]]
      /\ Popped(sp, 15) = <<"rip", c.rip>> /\ Popped(sp, 16) = <<"selector", c.cs>>
      /\ Popped(sp, 17) = <<"flag", c.flag>> /\ Popped(sp, 18) = <<"rsp", c.rsp>>
      /\ Popped(sp, 19) = <<"selector", c.ss>>
  BY DEF Holds, Popped, PoppedWord
<1>2. /\ Popped(sp, 15)[1] = "rip" /\ Popped(sp, 15)[2] = c.rip /\ Popped(sp, 16)[1] = "selector" /\ Popped(sp, 16)[2] = c.cs
      /\ Popped(sp, 17)[1] = "flag" /\ Popped(sp, 17)[2] = c.flag /\ Popped(sp, 18)[1] = "rsp" /\ Popped(sp, 18)[2] = c.rsp
      /\ Popped(sp, 19)[1] = "selector" /\ Popped(sp, 19)[2] = c.ss
  <2>1. \A a, b : <<a, b>>[1] = a /\ <<a, b>>[2] = b
    OBVIOUS
  <2> HIDE DEF sp
  <2> QED
    BY <1>1, <2>1
<1>3. \A i \in DOMAIN FrameKinds : Popped(sp, 15 + i - 1)[1] = FrameKinds[i]
  <2>1. DOMAIN FrameKinds = 1..5
    BY DEF FrameKinds
  <2>2. FrameKinds[1] = "rip" /\ FrameKinds[2] = "selector" /\ FrameKinds[3] = "flag" /\ FrameKinds[4] = "rsp" /\ FrameKinds[5] = "selector"
    BY DEF FrameKinds
  <2>3. \A i \in 1..5 : \/ i = 1 /\ 15 + i - 1 = 15
                        \/ i = 2 /\ 15 + i - 1 = 16
                        \/ i = 3 /\ 15 + i - 1 = 17
                        \/ i = 4 /\ 15 + i - 1 = 18
                        \/ i = 5 /\ 15 + i - 1 = 19
    OBVIOUS
  <2> HIDE DEF sp
  <2> QED
    BY <1>2, <2>1, <2>2, <2>3
<1>4. MayReturn(Popped(sp, 16)[2], Popped(sp, 19)[2])
  BY <1>2, SelectorsReturn DEF IInv, Shapes
<1>5. /\ cpu' = Resumed(sp) /\ UNCHANGED stacks
      /\ raised' = [raised EXCEPT ![cur] = IF @ = <<>> THEN @ ELSE SubSeq(@, 1, Len(@) - 1)]
  <2>1. FrameStart = 15
    BY OrdersMatch DEF FrameStart
  <2>2. 15 + 5 <= sp.depth /\ sp.depth <= Len(stacks[sp.stack])
    BY <1>1
  <2>3. MayResume(sp)
    BY <1>3, <1>4, <2>1, <2>2 DEF MayResume
  <2> QED
    BY <2>3 DEF Return, cur
<1>6. raised' = [raised EXCEPT ![cur] = Inner(raised[cur])]
  BY <1>5 DEF Inner
<1>7. regs = c.regs
  <2>1. \A r \in Registers : regs[r] = c.regs[r]
    <3> SUFFICES ASSUME NEW r \in Registers PROVE regs[r] = c.regs[r]
      OBVIOUS
    <3> DEFINE i == CHOOSE j \in 0..14 : PopOrder[j + 1] = r
    <3>1. i \in 0..14 /\ PopOrder[i + 1] = r
      BY OrdersMatch
    <3>2. regs[r] = Popped(sp, i)
      OBVIOUS
    <3> HIDE DEF i, sp, regs
    <3> QED
      BY <1>1, <3>1, <3>2
  <2>2. regs = [r \in Registers |-> regs[r]]
    OBVIOUS
  <2>3. c.regs = [r \in Registers |-> c.regs[r]]
    BY DEF IsContext
  <2> HIDE DEF regs
  <2> QED
    BY <2>1, <2>2, <2>3
<1>8. cpu' = [cpu EXCEPT !.regs = c.regs, !.rip = c.rip, !.cs = c.cs, !.flag = c.flag, !.rsp = c.rsp, !.ss = c.ss]
  <2>1. FrameStart = 15 /\ FrameStart + 1 = 16 /\ FrameStart + 2 = 17 /\ FrameStart + 3 = 18
        /\ FrameStart + 4 = 19 /\ FrameStart - 1 = 14
    BY OrdersMatch DEF FrameStart
  <2>2. Resumed(sp) = [cpu EXCEPT !.regs = regs, !.rip = Popped(sp, 15)[2], !.cs = Popped(sp, 16)[2],
                                  !.flag = Popped(sp, 17)[2], !.rsp = Popped(sp, 18)[2],
                                  !.ss = Popped(sp, 19)[2]]
    BY <2>1 DEF Resumed
  <2> HIDE DEF regs, sp
  <2> QED
    BY <1>2, <1>5, <1>7, <2>2
<1>9. /\ cpu'.regs = c.regs /\ cpu'.rip = c.rip /\ cpu'.cs = c.cs /\ cpu'.flag = c.flag /\ cpu'.rsp = c.rsp
       /\ cpu'.ss = c.ss /\ DOMAIN cpu' = DOMAIN cpu
       /\ cpu'.idtr = cpu.idtr /\ cpu'.tr = cpu.tr /\ cpu'.gdtr = cpu.gdtr
  <2> QED
    BY <1>8 DEF IInv, Shapes
<1>10. Context(cpu') = c
  <2>1. c = Context(c)
    BY DEF IsContext
  <2> QED
    BY <1>9, <2>1 DEF Context
<1> QED
  BY <1>5, <1>6, <1>9, <1>10 DEF Resumption

\* A thread that shares no stack is resumed with all it had.
LEMMA ResumesOwn ==
    ASSUME IInv, Return, ~Shares(cur)
    PROVE  /\ cur \in DOMAIN left /\ Resumption(left[cur])
           /\ IsContext(left[cur]) /\ Runs(stacks, left[cur], cur, Inner(raised[cur]))
<1>1. cpu.rip = "popall"
  BY DEF Return, At
<1>2. Current /\ Loaded /\ cur \in Bodies
  BY <1>1, InBooted
<1> DEFINE c == left[cur]
           sp == blocks[cur].rsp
<1>3. cur \in DOMAIN left /\ Saved(stacks, sp, c, cur, raised[cur])
  <2>1. cpu.rip \notin Bodies /\ cpu.rip \notin FaultPlaces
    BY <1>1, BodiesApart, LabelsAre DEF FaultPlaces, FaultHandlers, HandlerNames
  <2>2. SavedThread(cur)
    BY <1>1, <1>2, <2>1 DEF Current, cur, At
  <2> QED
    BY <2>2 DEF SavedThread, cur
<1> HIDE DEF sp, c
<1>4. IsContext(c) /\ Runs(stacks, c, cur, Inner(raised[cur]))
  BY <1>3 DEF Saved, Interrupted
<1>5. Holds(stacks, sp, c)
  <2>1. PICK stack \in Own(cur, raised[cur]) :
            /\ OnStack(stacks, sp, stack, 20)
            /\ HasFrame(stacks, stack, sp.depth - 20, c)
            /\ HasRegisters(stacks, stack, sp.depth - 15, c)
    BY <1>3 DEF Saved
  <2>2. Len(stacks[stack]) \in Nat
    BY <1>2, OwnStacks, StackLengths DEF IInv
  <2> QED
    BY <2>1, <2>2, WordsPopped
<1> QED
  BY <1>2, <1>3, <1>4, <1>5, ResumesWith DEF c, sp

\* One that shares the stack of double faults is resumed with what is there, its own
\* or another thread's, or is lost: where words of two threads meet, there is no
\* frame.
LEMMA ResumesShared ==
    ASSUME IInv, Return, Shares(cur)
    PROVE  \/ Lose
           \/ \E c : IsContext(c) /\ Runs(stacks, c, cur, Inner(raised[cur])) /\ Resumption(c)
<1>1. cpu.rip = "popall"
  BY DEF Return, At
<1>2. Current /\ DoubleStack /\ Loaded /\ cur \in Bodies /\ raised[cur] \in Raisings
  BY <1>1, InBooted
<1> DEFINE sp == blocks[cur].rsp
           len == Len(stacks[double_fault_stack])
<1>3. Doubled(raised[cur])
  BY <1>2, SharesIs
<1>4. raised[cur] = <<8, 32>> /\ \E d \in {25, 26} : sp = Address(double_fault_stack, d)
  <2>1. cpu.rip \notin Bodies /\ cpu.rip \notin FaultPlaces
    BY <1>1, BodiesApart, LabelsAre DEF FaultPlaces, FaultHandlers, HandlerNames
  <2>2. SavedThread(cur)
    BY <1>1, <1>2, <2>1 DEF Current, cur, At
  <2> QED
    BY <1>3, <2>2 DEF SavedThread, SavedDouble
<1>5. PICK c :
        /\ IsContext(c) /\ c.flag = TRUE /\ InFault(stacks, c, Main, 8)
        /\ len = c.rsp.depth + 20
        /\ HasFrame(stacks, double_fault_stack, c.rsp.depth, c)
        /\ HasRegisters(stacks, double_fault_stack, c.rsp.depth + 5, c)
  <2>1. DoubleRests(stacks)
    BY <1>1, <1>2, <1>3 DEF DoubleStack, cur
  <2> QED
    BY <2>1 DEF DoubleRests
<1>6. c.rsp.depth \in {5, 6}
  BY <1>5 DEF InFault
<1>7. Runs(stacks, c, cur, Inner(raised[cur]))
  <2>1. KernelStack(cur, <<8>>) = double_fault_stack /\ KernelStack(Main, <<8>>) = double_fault_stack
    BY DEF KernelStack, Doubled
  <2>2. InFault(stacks, c, cur, 8)
    BY <1>5, <2>1 DEF InFault
  <2>3. <<8, 32>> \in Seq(Int) /\ Inner(<<8, 32>>) = SubSeq(<<8, 32>>, 1, 1)
    BY DEF Inner
  <2>4. Inner(raised[cur]) = <<8>> /\ 8 \in Exceptions
    BY <1>4, <2>3 DEF Exceptions
  <2> QED
    BY <1>5, <2>2, <2>4 DEF Runs
<1>8. sp.stack = double_fault_stack /\ sp = Address(double_fault_stack, sp.depth) /\ sp.depth \in {25, 26}
  <2>1. \A d : Address(double_fault_stack, d).stack = double_fault_stack /\ Address(double_fault_stack, d).depth = d
    BY DEF Address
  <2> HIDE DEF sp
  <2> QED
    BY <1>4, <2>1
<1> HIDE DEF sp
<1>9. CASE sp.depth = c.rsp.depth + 20
  <2>1. OnStack(stacks, sp, double_fault_stack, 20)
    BY <1>5, <1>6, <1>8, <1>9 DEF OnStack
  <2>2. len \in Nat /\ sp.depth - 20 = c.rsp.depth /\ sp.depth - 15 = c.rsp.depth + 5
    BY <1>5, <1>6, <1>9
  <2>3. Holds(stacks, sp, c)
    BY <1>5, <2>1, <2>2, WordsPopped
  <2>4. Resumption(c)
    BY <1>2, <1>5, <1>7, <2>3, ResumesWith DEF sp
  <2> QED
    BY <1>5, <1>7, <2>4
<1>10. CASE sp.depth # c.rsp.depth + 20
  <2>1. FrameStart = 15 /\ FrameKinds[1] = "rip" /\ 1 \in DOMAIN FrameKinds
    BY OrdersMatch DEF FrameStart, FrameKinds
  <2>2. ASSUME c.rsp.depth = 5
        PROVE  ~MayResume(sp)
    <3>1. sp.depth = 26 /\ len = 25
      BY <1>5, <1>8, <1>10, <2>2
    <3> QED
      BY <1>8, <3>1 DEF MayResume
  <2>3. ASSUME c.rsp.depth = 6
        PROVE  ~MayResume(sp)
    <3>1. sp.depth - 15 = c.rsp.depth + 4
      BY <1>8, <1>10, <2>3
    <3>2. Popped(sp, 15) = FrameOf(c)[4]
      BY <1>5, <1>8, <3>1 DEF Popped, HasFrame
    <3>3. FrameOf(c)[4] = <<"selector", c.cs>>
      BY DEF FrameOf, Frame
    <3>4. Popped(sp, 15 + 1 - 1)[1] = "selector"
      BY <3>2, <3>3
    <3> QED
      BY <2>1, <3>4 DEF MayResume
  <2>4. ~MayResume(sp)
    BY <1>6, <2>2, <2>3
  <2> QED
    BY <2>4 DEF Return, sp, cur
<1> QED
  BY <1>9, <1>10

\* What is known at popall
LEMMA AtPopall ==
    ASSUME IInv, Return
    PROVE  /\ cpu.rip = "popall" /\ cpu.flag = FALSE /\ UNCHANGED <<tables, apic, pit, threads>>
           /\ Booted /\ Current /\ Others /\ DoubleStack /\ Loaded /\ SavedThread(cur)
           /\ cur \in Bodies /\ cur \in DOMAIN blocks /\ raised[cur] \in Raisings /\ Running = cur
           /\ cpu.rip \notin Early \cup Kmain /\ cpu.rip \notin {"count", "wait", "timer", "sti", "x2Apic"}
<1>1. cpu.rip = "popall" /\ UNCHANGED <<tables, apic, pit, threads>>
  BY DEF Return, At
<1>2. /\ Booted /\ Current /\ Others /\ DoubleStack /\ Loaded /\ Running = cur
      /\ cur \in Bodies /\ cur \in DOMAIN blocks /\ raised[cur] \in Raisings
  BY <1>1, InBooted
<1>3. cpu.rip \notin Bodies /\ cpu.rip \notin FaultPlaces
  BY <1>1, BodiesApart, LabelsAre DEF FaultPlaces, FaultHandlers, HandlerNames
<1>4. cpu.flag = FALSE /\ SavedThread(cur)
  BY <1>1, <1>2, <1>3 DEF Current, cur, At
<1> QED
  BY <1>1, <1>2, <1>4 DEF Early, Kmain

\* Return: the thread goes on in its function, or in the fault it was in.
LEMMA ResumedKeeps ==
    ASSUME IInv, Return, NEW c, IsContext(c), Runs(stacks, c, cur, Inner(raised[cur])), Resumption(c)
    PROVE  IInv'
<1>1. cpu.rip = "popall" /\ UNCHANGED <<tables, apic, pit, threads>>
  BY AtPopall
<1>2. /\ Booted /\ Current /\ Others /\ DoubleStack /\ Loaded /\ SavedThread(cur)
      /\ cur \in Bodies /\ cur \in DOMAIN blocks /\ raised[cur] \in Raisings
  BY AtPopall
<1> DEFINE causes == Inner(raised[cur])
<1>3. /\ Context(cpu') = c /\ DOMAIN cpu' = DOMAIN cpu
      /\ cpu'.idtr = cpu.idtr /\ cpu'.tr = cpu.tr /\ cpu'.gdtr = cpu.gdtr
      /\ raised' = [raised EXCEPT ![cur] = causes] /\ UNCHANGED stacks
  BY DEF Resumption
<1>4. causes \in Raisings /\ (Doubled(causes) <=> Doubled(raised[cur]))
  <2>1. CASE Doubled(raised[cur])
    <3>1. raised[cur] = <<8, 32>>
      BY <1>2, <2>1 DEF SavedThread, SavedDouble
    <3>2. <<8, 32>> \in Seq(Int) /\ Inner(<<8, 32>>) = SubSeq(<<8, 32>>, 1, 1)
      BY DEF Inner
    <3>3. causes = <<8>>
      BY <3>1, <3>2
    <3> QED
      BY <2>1, <3>3, RaisingsAre DEF Exceptions
  <2>2. CASE causes = <<>> /\ ~Doubled(raised[cur])
    BY <2>2, RaisingsAre DEF Exceptions
  <2>3. ASSUME NEW v \in Exceptions, raised[cur] = <<v, 32>>, causes = <<v>>
        PROVE  causes \in Raisings /\ (Doubled(causes) <=> Doubled(raised[cur]))
    BY <2>3, RaisingsAre
  <2> QED
    BY <1>2, <2>1, <2>2, <2>3, InnerIs
<1>5. Runs(stacks, c, cur, causes)
  OBVIOUS
<1> HIDE DEF causes
<1>6. /\ cpu'.regs = c.regs /\ cpu'.rip = c.rip /\ cpu'.cs = c.cs /\ cpu'.flag = c.flag
      /\ cpu'.rsp = c.rsp /\ cpu'.ss = c.ss
  <2>1. \A x : /\ Context(x).regs = x.regs /\ Context(x).rip = x.rip /\ Context(x).cs = x.cs
               /\ Context(x).flag = x.flag /\ Context(x).rsp = x.rsp /\ Context(x).ss = x.ss
    BY DEF Context
  <2> QED
    BY <1>3, <2>1
<1>7. Runs(stacks', cpu', cur, causes) /\ cpu'.rip \in Bodies \cup FaultPlaces
  <2>1. Runs(stacks, cpu', cur, causes)
    BY <1>5, <1>6 DEF Runs, InBody, InFault
  <2>2. cpu'.rip \in Bodies \cup FaultPlaces
    BY <1>2, <2>1, FaultHandled DEF Runs, InBody, InFault, FaultPlaces
  <2> QED
    BY <1>3, <2>1, <2>2
<1>8. /\ cpu'.rip \notin Early \cup Kmain /\ cpu'.rip \notin {"count", "wait", "timer", "sti", "x2Apic"}
      /\ cpu'.rip \notin {"timerInterrupt", "popall"}
  <2>1. Early \cup Kmain \subseteq Labels /\ {"count", "wait", "timer", "sti", "x2Apic"} \subseteq Kmain
        /\ {"timerInterrupt", "popall"} \subseteq Labels
    BY LabelsAre DEF Kmain
  <2>2. FaultPlaces \cap (Early \cup Kmain \cup {"timerInterrupt", "popall"}) = {}
    BY DEF FaultPlaces, FaultHandlers, HandlerNames, Early, Kmain
  <2> QED
    BY <1>7, <2>1, <2>2, BodiesApart
<1>9. DOMAIN raised' = Bodies /\ raised'[cur] = causes /\ \A t \in Bodies : t # cur => raised'[t] = raised[t]
  BY <1>2, <1>3 DEF IInv, Shapes
<1>10. \A t \in Bodies : Doubled(raised'[t]) <=> Doubled(raised[t])
  BY <1>4, <1>9
<1>11. Shapes'
  <2>1. cpu'.regs = [r \in Registers |-> cpu'.regs[r]]
    BY <1>6 DEF IsContext
  <2> QED
    BY <1>1, <1>3, <1>9, <2>1 DEF Shapes, tables, threads, IInv
<1>12. TablesInv'
  BY <1>1, <1>2, <1>3, <1>8, LoadedKept DEF TablesKept, tables, TablesInv, Booted
<1>13. ApicInv' /\ TimerInv'
  <2>1. cpu.rip \notin Early \cup Kmain /\ cpu.rip \notin {"count", "wait", "timer", "sti", "x2Apic"}
    BY AtPopall
  <2> QED
    BY <1>1, <1>2, <1>8, <2>1 DEF ApicInv, TimerInv, At, threads, Measured, Late, IInv, Booted, Kmain, Early
<1>14. ThreadsInv'
  <2>1. \A t \in Bodies : raised'[t] \in Raisings
    BY <1>4, <1>9 DEF IInv, ThreadsInv
  <2>2. \A t \in Threads : t \notin DOMAIN blocks => raised'[t] = <<>>
    BY <1>2, <1>9 DEF IInv, ThreadsInv, Bodies
  <2> QED
    BY <1>1, <2>1, <2>2 DEF IInv, ThreadsInv, threads
<1>15. Current'
  BY <1>1, <1>2, <1>7, <1>9 DEF Current, tables, threads, cur
<1>16. Others'
  <2> SUFFICES ASSUME NEW t \in DOMAIN blocks, t # cur
               PROVE  SavedThread(t)'
    BY <1>1 DEF Others, threads, cur
  <2>1. SavedThread(t) /\ raised'[t] = raised[t]
    BY <1>2, <1>9 DEF Others, IInv, ThreadsInv, cur
  <2>2. Shares(t)' <=> Shares(t)
    <3>1. InDoubleFault' = InDoubleFault
      BY <1>10 DEF InDoubleFault, Doubled
    <3> QED
      BY <3>1 DEF Shares
  <2> QED
    BY <1>1, <1>3, <2>1, <2>2 DEF SavedThread, SavedDouble, threads
<1>17. DoubleStack'
  <2>1. (\A t \in Bodies : ~Doubled(raised[t])) \/ DoubleRests(stacks)
    BY <1>1, <1>2 DEF DoubleStack
  <2>2. CASE \A t \in Bodies : ~Doubled(raised[t])
    BY <1>10, <2>2 DEF DoubleStack
  <2>3. CASE DoubleRests(stacks)
    BY <1>3, <2>3 DEF DoubleStack, DoubleRests
  <2> QED
    BY <2>1, <2>2, <2>3
<1> QED
  BY <1>1, <1>2, <1>8, <1>11, <1>12, <1>13, <1>14, <1>15, <1>16, <1>17 DEF IInv, Phase, Booted, threads

\* Return: or it is lost, if it shares the stack of double faults.
LEMMA LostKeeps ==
    ASSUME IInv, Return, Shares(cur), Lose
    PROVE  IInv'
<1>1. cpu.rip = "popall" /\ cpu.flag = FALSE /\ Booted /\ Loaded /\ Running = cur
  BY AtPopall
<1>2. cpu' = [cpu EXCEPT !.rip = "lost"] /\ UNCHANGED <<tables, apic, pit, stacks, threads, raised>>
  BY AtPopall DEF Lose, Go
<1>3. /\ cpu'.rip = "lost" /\ cpu'.idtr = cpu.idtr /\ cpu'.tr = cpu.tr /\ cpu'.gdtr = cpu.gdtr
      /\ cpu'.flag = cpu.flag /\ cpu'.regs = cpu.regs /\ DOMAIN cpu' = DOMAIN cpu
  BY <1>2 DEF IInv, Shapes
<1>4. cpu'.rip \notin Early \cup Kmain /\ cpu'.rip \notin {"count", "wait", "timer", "sti", "x2Apic"}
  BY <1>3 DEF Early, Kmain
<1>5. Shapes'
  BY <1>2, <1>3, ShapesKept DEF tables, threads, IInv
<1>6. TablesInv'
  BY <1>1, <1>2, <1>3, <1>4, LoadedKept DEF TablesKept, tables, TablesInv
<1>7. ApicInv' /\ TimerInv'
  <2>1. cpu.rip \notin Early \cup Kmain /\ cpu.rip \notin {"count", "wait", "timer", "sti", "x2Apic"}
    BY AtPopall
  <2> QED
    BY <1>1, <1>2, <1>4, <2>1 DEF ApicInv, TimerInv, At, threads, Measured, Late, IInv, Booted, Kmain, Early
<1>8. ThreadsInv'
  BY <1>2, ThreadsKept DEF threads, IInv
<1>9. LostThread'
  BY <1>1, <1>2, <1>3 DEF LostThread, Shares, InDoubleFault, Running, At, Booted, threads
<1> QED
  BY <1>5, <1>6, <1>7, <1>8, <1>9 DEF IInv, Phase

\* Return: nothing else happens.
LEMMA ReturnKeeps == IInv /\ Return => IInv'
<1> SUFFICES ASSUME IInv, Return PROVE IInv'
  OBVIOUS
<1>1. CASE Shares(cur)
  BY <1>1, ResumesShared, ResumedKeeps, LostKeeps
<1>2. CASE ~Shares(cur)
  BY <1>2, ResumesOwn, ResumedKeeps
<1> QED
  BY <1>1, <1>2

-----------------------------------------------------------------------------
\* The handlers of faults

\* What a step of the handler of v that t is in does
GoesOn(t, v) ==
    /\ InFault(stacks', cpu', t, v) /\ cpu'.rip \in {"Serial::write", "hlt"}
    /\ cpu'.flag = cpu.flag /\ cpu'.gdtr = cpu.gdtr /\ cpu'.idtr = cpu.idtr /\ cpu'.tr = cpu.tr
    /\ DOMAIN cpu' = DOMAIN cpu /\ cpu'.regs = [r \in Registers |-> cpu'.regs[r]]
    /\ DOMAIN stacks' = Stacks /\ \A s \in Stacks : IsSeq(stacks'[s])
    /\ \A s \in Stacks : s # KernelStack(t, <<v>>) => stacks'[s] = stacks[s]
    /\ UNCHANGED <<tables, apic, pit, threads, raised>>

\* The handler begins: at most it calls Serial::write.
LEMMA HandleFaultGoes ==
    ASSUME IInv, HandleFault, NEW t \in Bodies, NEW v \in Exceptions, InFault(stacks, cpu, t, v)
    PROVE  GoesOn(t, v)
<1> DEFINE stack == KernelStack(t, <<v>>)
           depth == cpu.rsp.depth
           word == <<ReturnWord>>
<1>1. /\ cpu.rip \in FaultHandlers /\ UNCHANGED <<tables, apic, pit, threads, raised>>
      /\ DOMAIN stacks = Stacks /\ (\A s \in Stacks : IsSeq(stacks[s])) /\ stack \in Stacks
  BY OwnStacks DEF HandleFault, IInv, Shapes, Own
<1>2. /\ cpu.rip = Meant(v) /\ OnStack(stacks, cpu.rsp, stack, 0) /\ (v = 8 => depth = 5)
      /\ cpu.cs = KernelCode /\ cpu.ss \in {0, KernelData}
  <2>1. "Serial::write" \notin FaultHandlers /\ "hlt" \notin FaultHandlers
    BY DEF FaultHandlers, HandlerNames
  <2> QED
    BY <1>1, <2>1 DEF InFault
<1>3. cpu.rsp = Address(stack, depth) /\ depth \in 0..Len(stacks[stack]) /\ Len(stacks[stack]) \in Nat
  BY <1>1, <1>2, StackLengths DEF OnStack, IInv
<1> HIDE DEF stack, depth, word
<1> DEFINE set == [cpu EXCEPT !.regs["rax"] = <<cpu.rip, "rax">>]
<1>4. /\ DOMAIN set = DOMAIN cpu /\ set.regs = [r \in Registers |-> set.regs[r]] /\ set.rsp = cpu.rsp
      /\ set.flag = cpu.flag /\ set.cs = cpu.cs /\ set.ss = cpu.ss
      /\ set.gdtr = cpu.gdtr /\ set.idtr = cpu.idtr /\ set.tr = cpu.tr
      /\ DOMAIN cpu = {"rip", "rsp", "flag", "cs", "ss", "tr", "gdtr", "idtr", "regs"}
  <2>1. /\ DOMAIN cpu = {"rip", "rsp", "flag", "cs", "ss", "tr", "gdtr", "idtr", "regs"}
        /\ cpu.regs = [r \in Registers |-> cpu.regs[r]]
    BY DEF IInv, Shapes
  <2>2. set.regs = [cpu.regs EXCEPT !["rax"] = <<cpu.rip, "rax">>]
    BY <2>1
  <2>3. DOMAIN set.regs = Registers
    BY <2>1, <2>2
  <2>4. set.regs = [r \in Registers |-> set.regs[r]]
    BY <2>2, <2>3
  <2> QED
    BY <2>1, <2>4
<1>5. CASE At("divideError")
  <2>1. cpu' = [set EXCEPT !.rip = "hlt"] /\ stacks' = stacks
    BY <1>5 DEF HandleFault
  <2> HIDE DEF set
  <2>2. /\ cpu'.rip = "hlt" /\ cpu'.rsp = cpu.rsp /\ cpu'.flag = cpu.flag /\ cpu'.cs = cpu.cs /\ cpu'.ss = cpu.ss
        /\ cpu'.gdtr = cpu.gdtr /\ cpu'.idtr = cpu.idtr /\ cpu'.tr = cpu.tr /\ DOMAIN cpu' = DOMAIN cpu
        /\ cpu'.regs = [r \in Registers |-> cpu'.regs[r]]
    BY <1>4, <2>1
  <2>3. InFault(stacks', cpu', t, v)
    BY <1>2, <2>1, <2>2 DEF InFault, stack, depth
  <2> QED
    BY <1>1, <2>1, <2>2, <2>3 DEF GoesOn
<1>6. CASE ~At("divideError")
  <2>1. cpu' = [set EXCEPT !.rip = "Serial::write", !.rsp = Below(@, word)] /\ stacks' = Pushed(cpu.rsp, word)
    BY <1>6 DEF HandleFault, word, ReturnWord
  <2> HIDE DEF set
  <2>2. /\ cpu'.rip = "Serial::write" /\ cpu'.rsp = Below(cpu.rsp, word) /\ cpu'.flag = cpu.flag
        /\ cpu'.cs = cpu.cs /\ cpu'.ss = cpu.ss
        /\ cpu'.gdtr = cpu.gdtr /\ cpu'.idtr = cpu.idtr /\ cpu'.tr = cpu.tr /\ DOMAIN cpu' = DOMAIN cpu
        /\ cpu'.regs = [r \in Registers |-> cpu'.regs[r]]
    BY <1>4, <2>1
  <2>3. IsSeq(word) /\ Len(word) = 1 /\ word[1] = ReturnWord
    <3>1. word \in Seq({ReturnWord}) /\ Len(word) = 1 /\ word[1] = ReturnWord
      BY DEF word
    <3> QED
      BY <3>1, SeqIsSeq
  <2>4. PushedMem(stacks', stacks, stack, depth, word)
    BY <1>1, <1>3, <2>1, <2>3, StacksPushed
  <2>5. cpu'.rsp = Address(stack, depth + 1) /\ cpu'.rsp.depth = depth + 1
    <3>1. /\ Address(stack, depth).stack = stack /\ Address(stack, depth).depth = depth
          /\ Address(stack, depth + 1).depth = depth + 1
      BY DEF Address
    <3> QED
      BY <1>3, <2>2, <2>3, <3>1 DEF Below
  <2>6. /\ DOMAIN stacks' = Stacks /\ (\A s \in Stacks : IsSeq(stacks'[s]))
        /\ (\A s \in Stacks : s # stack => stacks'[s] = stacks[s])
        /\ Len(stacks'[stack]) = depth + 1 /\ stacks'[stack][depth + 1] = ReturnWord
    BY <2>3, <2>4 DEF PushedMem
  <2>7. OnStack(stacks', cpu'.rsp, stack, 1)
    BY <1>3, <2>5, <2>6 DEF OnStack
  <2>8. v = 8 => cpu'.rsp.depth = 6
    BY <1>2, <2>5
  <2>9. InFault(stacks', cpu', t, v)
    BY <1>2, <2>2, <2>5, <2>6, <2>7, <2>8 DEF InFault, stack
  <2> QED
    BY <1>1, <2>2, <2>6, <2>9 DEF GoesOn, stack
<1> QED
  BY <1>5, <1>6

\* And it returns to where it was called.
LEMMA WriteGoes ==
    ASSUME IInv, WriteReturns, NEW t \in Bodies, NEW v \in Exceptions, InFault(stacks, cpu, t, v)
    PROVE  GoesOn(t, v)
<1> DEFINE stack == KernelStack(t, <<v>>)
           depth == cpu.rsp.depth
<1>1. /\ cpu.rip = "Serial::write" /\ UNCHANGED <<tables, apic, pit, threads>>
      /\ DOMAIN stacks = Stacks /\ (\A s \in Stacks : IsSeq(stacks[s])) /\ stack \in Stacks
  BY OwnStacks DEF WriteReturns, At, IInv, Shapes, Own
<1>2. /\ OnStack(stacks, cpu.rsp, stack, 1) /\ stacks[stack][depth] = ReturnWord /\ (v = 8 => depth = 6)
      /\ cpu.cs = KernelCode /\ cpu.ss \in {0, KernelData}
  <2>1. Meant(v) # "Serial::write"
    BY FaultHandled DEF FaultHandlers, HandlerNames
  <2> QED
    BY <1>1, <2>1 DEF InFault
<1>3. cpu.rsp = Address(stack, depth) /\ depth \in 1..Len(stacks[stack]) /\ Len(stacks[stack]) \in Nat
  BY <1>1, <1>2, StackLengths DEF OnStack, IInv
<1> HIDE DEF stack, depth
<1>4. cpu.rsp.stack = stack /\ cpu.rsp.depth = depth
  BY <1>3 DEF Address
<1>5. Popped(cpu.rsp, 0) = ReturnWord
  BY <1>2, <1>3, <1>4 DEF Popped
<1>6. cpu' = [cpu EXCEPT !.rip = "hlt", !.rsp.depth = @ - 1] /\ UNCHANGED <<stacks, raised>>
  <2>1. Popped(cpu.rsp, 0)[1] = "rip" /\ Popped(cpu.rsp, 0)[2] = "hlt"
    BY <1>5 DEF ReturnWord
  <2> HIDE <1>5
  <2> QED
    BY <2>1 DEF WriteReturns
<1>7. /\ cpu'.rip = "hlt" /\ cpu'.rsp = [cpu.rsp EXCEPT !.depth = @ - 1] /\ cpu'.flag = cpu.flag
      /\ cpu'.cs = cpu.cs /\ cpu'.ss = cpu.ss
      /\ cpu'.gdtr = cpu.gdtr /\ cpu'.idtr = cpu.idtr /\ cpu'.tr = cpu.tr /\ DOMAIN cpu' = DOMAIN cpu
      /\ cpu'.regs = [r \in Registers |-> cpu'.regs[r]]
  <2>1. /\ DOMAIN cpu = {"rip", "rsp", "flag", "cs", "ss", "tr", "gdtr", "idtr", "regs"}
        /\ cpu.regs = [r \in Registers |-> cpu.regs[r]]
    BY DEF IInv, Shapes
  <2> QED
    BY <1>6, <2>1
<1>8. cpu'.rsp = Address(stack, depth - 1) /\ cpu'.rsp.depth = depth - 1
  BY <1>3, <1>7 DEF Address
<1>9. OnStack(stacks', cpu'.rsp, stack, 0) /\ (v = 8 => cpu'.rsp.depth = 5)
  BY <1>2, <1>3, <1>6, <1>8 DEF OnStack
<1>10. InFault(stacks', cpu', t, v)
  BY <1>2, <1>7, <1>9 DEF InFault, stack
<1> QED
  BY <1>1, <1>6, <1>7, <1>10 DEF GoesOn

\* So a handler keeps the invariant, of a thread or of kmain.
LEMMA HandlerKeeps ==
    ASSUME IInv, cpu.rip \in FaultPlaces,
           \A t \in Bodies, v \in Exceptions : InFault(stacks, cpu, t, v) => GoesOn(t, v)
    PROVE  IInv'
<1>1. /\ cpu.rip \notin Early \cup Kmain /\ cpu.rip \notin {"count", "wait", "timer", "sti", "x2Apic"}
      /\ cpu.rip \notin Bodies /\ cpu.rip \notin {"timerInterruptAsm", "timerInterrupt", "popall", "lost"}
  <2>1. FaultPlaces \cap (Early \cup Kmain \cup {"timerInterruptAsm", "timerInterrupt", "popall", "lost"}) = {}
    BY DEF FaultPlaces, FaultHandlers, HandlerNames, Early, Kmain
  <2>2. cpu.rip \in Labels
    BY LabelsAre
  <2> QED
    BY <2>1, <2>2, BodiesApart DEF Kmain
<1>2. Loaded
  BY <1>1 DEF IInv, TablesInv
<1>3. ASSUME NEW t \in Bodies, NEW v \in Exceptions, GoesOn(t, v)
      PROVE  /\ cpu'.rip \notin Early \cup Kmain /\ cpu'.rip \notin {"timerInterrupt", "popall"}
             /\ Shapes' /\ TablesInv' /\ ApicInv' /\ TimerInv' /\ ThreadsInv'
  <2>1. /\ cpu'.rip \in {"Serial::write", "hlt"} /\ UNCHANGED <<tables, apic, pit, threads, raised>>
        /\ cpu'.gdtr = cpu.gdtr /\ cpu'.idtr = cpu.idtr /\ cpu'.tr = cpu.tr
        /\ DOMAIN cpu' = DOMAIN cpu /\ cpu'.regs = [r \in Registers |-> cpu'.regs[r]]
        /\ DOMAIN stacks' = Stacks /\ \A s \in Stacks : IsSeq(stacks'[s])
    BY <1>3 DEF GoesOn
  <2>2. /\ cpu'.rip \notin Early \cup Kmain /\ cpu'.rip \notin {"count", "wait", "timer", "sti", "x2Apic"}
        /\ cpu'.rip \notin {"timerInterrupt", "popall"}
    BY <2>1 DEF Early, Kmain
  <2>3. Shapes'
    BY <2>1 DEF Shapes, tables, threads, IInv
  <2>4. TablesInv'
    BY <1>2, <2>1, <2>2, LoadedKept DEF TablesKept, tables, TablesInv
  <2>5. ApicInv' /\ TimerInv'
    BY <1>1, <2>1, <2>2 DEF ApicInv, TimerInv, At, threads, Measured, Late, IInv, Kmain, Early
  <2>6. ThreadsInv'
    BY <2>1, ThreadsKept DEF threads, IInv
  <2> QED
    BY <2>2, <2>3, <2>4, <2>5, <2>6
<1>4. CASE Halted
  <2>1. Main \in Bodies /\ 14 \in Exceptions /\ InFault(stacks, cpu, Main, 14)
    BY <1>4, BodiesApart DEF Halted, Exceptions
  <2>2. GoesOn(Main, 14)
    BY <2>1
  <2>3. Halted'
    BY <1>4, <2>2 DEF Halted, GoesOn, threads
  <2> QED
    BY <1>3, <2>1, <2>2, <2>3 DEF IInv, Phase
<1>5. CASE ~Halted
  <2>1. currentProcessControlBlock # None
    BY <1>1, <1>5 DEF IInv, Phase, LostThread, Booted, At
  <2>2. /\ Booted /\ Current /\ Others /\ DoubleStack
        /\ cur \in Bodies /\ cur \in DOMAIN blocks
    BY <2>1, InBooted
  <2>3. Runs(stacks, cpu, cur, raised[cur])
    BY <1>1, <2>2 DEF Current, cur, At
  <2>4. PICK v \in Exceptions : raised[cur] = <<v>> /\ InFault(stacks, cpu, cur, v)
    BY <1>1, <2>2, <2>3 DEF Runs, InBody
  <2>5. GoesOn(cur, v)
    BY <2>2, <2>4
  <2> DEFINE stack == KernelStack(cur, <<v>>)
  <2>6. /\ InFault(stacks', cpu', cur, v) /\ cpu'.rip \in FaultPlaces /\ cpu'.flag = TRUE
        /\ UNCHANGED <<tables, threads, raised>>
        /\ \A s \in Stacks : s # stack => stacks'[s] = stacks[s]
    BY <2>3, <2>5 DEF GoesOn, Runs, FaultPlaces
  <2>7. raised'[cur] = raised[cur] /\ stack \in Own(cur, raised'[cur])
    BY <2>4, <2>6 DEF Own
  <2> HIDE DEF stack
  <2>8. Current'
    <3>1. Runs(stacks', cpu', cur, raised'[cur])
      BY <2>4, <2>6, <2>7 DEF Runs
    <3> QED
      BY <2>2, <2>6, <3>1 DEF Current, tables, threads, cur
  <2>9. Others'
    BY <2>2, <2>6, <2>7, OthersStay DEF threads, cur
  <2>10. DoubleStack'
    <3>1. Doubled(raised'[cur]) \/ stacks'[double_fault_stack] = stacks[double_fault_stack]
      <4>1. double_fault_stack \in Stacks
        BY DEF Stacks
      <4> QED
        BY <2>2, <2>6, <2>7, <4>1, NotDouble
    <3>2. cpu'.rip \notin {"timerInterrupt", "popall"}
      BY <1>3, <2>2, <2>5
    <3> QED
      BY <2>2, <2>6, <2>7, <3>1, <3>2, DoubleStays DEF threads, cur
  <2> QED
    BY <1>3, <2>1, <2>2, <2>5, <2>6, <2>8, <2>9, <2>10 DEF IInv, Phase, Booted, threads
<1> QED
  BY <1>4, <1>5

\* HandleFault and WriteReturns are such steps.
LEMMA HandleFaultKeeps == IInv /\ HandleFault => IInv'
<1> SUFFICES ASSUME IInv, HandleFault PROVE IInv'
  OBVIOUS
<1>1. cpu.rip \in FaultPlaces
  BY DEF HandleFault, FaultPlaces
<1>2. \A t \in Bodies, v \in Exceptions : InFault(stacks, cpu, t, v) => GoesOn(t, v)
  BY HandleFaultGoes
<1> QED
  BY <1>1, <1>2, HandlerKeeps

\* Both keep it.
LEMMA WriteReturnsKeeps == IInv /\ WriteReturns => IInv'
<1> SUFFICES ASSUME IInv, WriteReturns PROVE IInv'
  OBVIOUS
<1>1. cpu.rip \in FaultPlaces
  BY DEF WriteReturns, FaultPlaces, At
<1>2. \A t \in Bodies, v \in Exceptions : InFault(stacks, cpu, t, v) => GoesOn(t, v)
  BY WriteGoes
<1> QED
  BY <1>1, <1>2, HandlerKeeps

-----------------------------------------------------------------------------
\* At power-on the invariant holds.
LEMMA InitIInv == Init => IInv
<1> SUFFICES ASSUME Init PROVE IInv
  OBVIOUS
<1>1. /\ cpu = [rip |-> "_start", rsp |-> Null, flag |-> FALSE, cs |-> 40, ss |-> 48, tr |-> Empty,
                gdtr |-> NoTable, idtr |-> NoTable, regs |-> Fresh]
      /\ layout \in Layouts /\ blocks = <<>> /\ currentProcessControlBlock = None
      /\ gdtArray = [i \in 0..6 |-> Empty]
      /\ globalTss = [member \in DOMAIN TSS |-> Null]
      /\ pit = [port |-> {1}, gate |-> {}, irqs |-> {0}, count |-> 0, ticks |-> 0]
      /\ stacks = [s \in Stacks |-> <<>>]
      /\ raised = [t \in Bodies |-> <<>>]
  BY DEF Init
<1>2. /\ DOMAIN apic = {"base", "enabled", "divisor", "lvt", "count", "irr", "isr", "bus"}
      /\ apic.base \in {{}, {11}, {10, 11}} /\ apic.irr = FALSE
      /\ apic.lvt = [vector |-> 0, masked |-> TRUE] /\ apic.bus \in BusRates
  BY DEF Init
<1>3. cpu.rip = "_start" /\ cpu.flag = FALSE
  BY <1>1
<1>4. DOMAIN blocks = {}
  BY <1>1
<1>5. Shapes
  <2>1. IsSeq(<<>>)
    BY DEF IsSeq
  <2>2. cpu.regs = [r \in Registers |-> cpu.regs[r]]
    BY <1>1 DEF Fresh
  <2>3. DOMAIN cpu = {"rip", "rsp", "flag", "cs", "ss", "tr", "gdtr", "idtr", "regs"}
    BY <1>1
  <2>4. DOMAIN pit = {"port", "gate", "irqs", "count", "ticks"}
    BY <1>1
  <2>5. DOMAIN stacks = Stacks /\ DOMAIN raised = Bodies /\ DOMAIN globalTss = DOMAIN TSS
        /\ \A s \in Stacks : stacks[s] = <<>>
    BY <1>1
  <2> QED
    BY <1>1, <1>2, <1>4, <2>1, <2>2, <2>3, <2>4, <2>5 DEF Shapes
<1>6. TablesInv
  BY <1>1, <1>3 DEF TablesInv, Loading, At, Early
<1>7. ApicInv
  <2>1. apic.lvt.masked = TRUE
    BY <1>2
  <2> QED
    BY <1>2, <1>3, <2>1 DEF ApicInv, At, Early, Kmain
<1>8. TimerInv
  BY <1>2, <1>3 DEF TimerInv, At, Early, Kmain
<1>9. ThreadsInv
  <2>1. \A t \in Bodies : raised[t] = <<>>
    BY <1>1
  <2>2. <<>> \in Raisings
    BY DEF Raisings
  <2>3. \A t \in Threads : t \in Bodies
    BY DEF Bodies
  <2> QED
    BY <1>4, <2>1, <2>2, <2>3 DEF ThreadsInv
<1>10. Phase
  <2>1. Booting
    BY <1>1, <1>3 DEF Booting, At, Early
  <2> QED
    BY <1>3, <2>1 DEF Phase, Early
<1> QED
  BY <1>5, <1>6, <1>7, <1>8, <1>9, <1>10 DEF IInv

-----------------------------------------------------------------------------
\* The theorems

\* A step that changes nothing keeps it.
LEMMA StutterKeeps == IInv /\ UNCHANGED vars => IInv'
<1> SUFFICES ASSUME IInv, UNCHANGED vars PROVE IInv'
  OBVIOUS
<1>1. UNCHANGED <<layout, cpu, gdtArray, gdtr, globalTss, idt_entries, idtr, apic, pit, stacks, blocks,
                  currentProcessControlBlock, left, raised>>
  BY DEF vars, tables, threads
<1>2. Shapes' /\ ThreadsInv' /\ ApicInv' /\ TimerInv'
  BY <1>1 DEF IInv, Shapes, ThreadsInv, ApicInv, TimerInv, Measured, At
<1>3. TablesInv'
  BY <1>1, SameLayout DEF IInv, TablesInv, Loading, Loaded, At
<1>4. Phase'
  BY <1>1 DEF IInv, Phase, Booting, Halted, LostThread, Booted, Current, Others, DoubleStack, DoubleRests,
              SavedThread, SavedDouble, Shares, InDoubleFault, Running, At
<1> QED
  BY <1>2, <1>3, <1>4 DEF IInv

\* So does every step.
LEMMA StepKeeps == IInv /\ [Next]_vars => IInv'
<1> SUFFICES ASSUME IInv, [Next]_vars PROVE IInv'
  OBVIOUS
<1>1. CASE BootStep
  <2>1. ASSUME NEW late \in 0..MaxLate, StartCount(late) \/ Wait(late)
        PROVE  IInv'
    BY <2>1, StartCountKeeps, WaitKeeps
  <2> QED
    BY <1>1, <2>1, StartKeeps, LoadGdtKeeps, ReloadCsKeeps, LoadSegmentsKeeps, InitIdtKeeps, LoadIdtKeeps,
       MaskPicKeeps, ClearScreenKeeps, InitProcessKeeps, EnableApicKeeps, ConfigureTimerKeeps, StartPitKeeps,
       StartTimerKeeps, setInterruptsKeeps
       DEF BootStep
<1>2. CASE Tick \/ Interrupt
  BY <1>2, TickKeeps, InterruptKeeps
<1>3. CASE HandlerStep
  BY <1>3, SaveContextKeeps, timerInterruptKeeps, ReturnKeeps, HandleFaultKeeps, WriteReturnsKeeps DEF HandlerStep
<1>4. CASE \E t \in Threads : Create(t)
  BY <1>4, CreateKeeps
<1>5. CASE Work
  BY <1>5, WorkKeeps
<1>6. CASE \E v \in Faults : Fault(v)
  BY <1>6, FaultKeeps
<1>7. CASE UNCHANGED vars
  BY <1>7, StutterKeeps
<1> QED
  BY <1>1, <1>2, <1>3, <1>4, <1>5, <1>6, <1>7 DEF Next

\* From _start on, boot and the threads are what the invariant says (Kernel.asm,
\* Gdt.cpp, Idt.cpp, Apic.cpp, Macros.asm, IdtHandlers.asm).
THEOREM Inductive == Spec => []IInv
  BY InitIInv, StepKeeps, PTL DEF Spec

\* Wherever the tables and the code are linked, whichever threads are created and
\* however often they fault: no segment load, no vector and no iretq of the kernel
\* finds what it cannot use, but for a thread that waits in doubleFault together with
\* another one (Kernel.asm, Gdt.cpp, Idt.cpp, Process.cpp:57-73).
THEOREM NothingIsLost == Spec => []NeverLost
<1>1. IInv => NeverLost
  <2> SUFFICES ASSUME IInv, cpu.rip = "lost" PROVE Shares(Running)
    BY DEF NeverLost, At
  <2>1. "lost" \notin Early \cup Kmain /\ "lost" \notin FaultPlaces
    BY DEF Early, Kmain, FaultPlaces, FaultHandlers, HandlerNames
  <2>2. "lost" \notin Bodies
    BY BodiesApart, LabelsAre
  <2>3. ~Halted /\ ~Current
    BY <2>1, <2>2 DEF Halted, Current, At
  <2> QED
    BY <2>1, <2>3 DEF IInv, Phase, LostThread
<1> QED
  BY <1>1, Inductive, PTL

\* Every vector is handled by its handler, and double faults on their own stack
\* (Idt.cpp:104-114, Gdt.cpp:11-12, Kernel.asm:50-52).
THEOREM OwnHandler == Spec => []EachToItsHandler
<1>1. IInv => EachToItsHandler
  <2> SUFFICES ASSUME IInv, cpu.rip \in HandlerNames
               PROVE  /\ raised[Running] # <<>> /\ cpu.rip = Meant(raised[Running][Len(raised[Running])])
                      /\ cpu.rip = "doubleFault" => cpu.rsp.stack = double_fault_stack
    BY DEF EachToItsHandler
  <2>1. HandlerNames \cap (Early \cup Kmain) = {}
    BY DEF HandlerNames, Early, Kmain
  <2>2. cpu.rip \notin Bodies /\ cpu.rip \notin {"timerInterrupt", "popall"}
    BY BodiesApart, LabelsAre DEF HandlerNames
  <2>3. \A v : <<v>> # <<>> /\ <<v>>[Len(<<v>>)] = v
    OBVIOUS
  <2>4. CASE Halted
    <3>1. Running = Main /\ raised[Running] = <<14>>
      BY <2>4 DEF Halted, Running
    <3>2. Meant(14) = "pageFault"
      BY DEF Meant, OldRequest
    <3> QED
      BY <2>3, <2>4, <3>1, <3>2 DEF Halted, At, HandlerNames
  <2>5. CASE Booted /\ Current
    <3> DEFINE t == currentProcessControlBlock
    <3>1. Running = t
      BY <2>5 DEF Booted, Running
    <3>2. CASE Runs(stacks, cpu, t, raised[t])
      <4>1. PICK v \in Exceptions : raised[t] = <<v>> /\ InFault(stacks, cpu, t, v)
        BY <2>2, <2>5, <3>2 DEF Runs, InBody, Current, IInv, ThreadsInv
      <4>2. cpu.rip = Meant(v) /\ OnStack(stacks, cpu.rsp, KernelStack(t, <<v>>), 0)
        BY <4>1 DEF InFault, HandlerNames
      <4>3. ASSUME cpu.rip = "doubleFault"
            PROVE  cpu.rsp.stack = double_fault_stack
        <5>1. v = 8
          BY <4>2, <4>3 DEF Meant, Exceptions, OldRequest
        <5>2. KernelStack(t, <<v>>) = double_fault_stack
          BY <5>1 DEF KernelStack, Doubled
        <5>3. \A d : Address(double_fault_stack, d).stack = double_fault_stack
          BY DEF Address
        <5> QED
          BY <4>2, <5>2, <5>3 DEF OnStack
      <4> QED
        BY <2>3, <3>1, <4>1, <4>2, <4>3
    <3>3. CASE cpu.rip = "timerInterruptAsm" /\ Entered(stacks, cpu, left[t], t, raised[t])
      <4>1. raised[t] # <<>> /\ raised[t][Len(raised[t])] = 32
        BY <3>3 DEF Entered
      <4>2. Meant(32) = "timerInterruptAsm"
        BY DEF Meant, OldRequest
      <4> QED
        BY <3>1, <3>3, <4>1, <4>2
    <3> QED
      BY <2>2, <2>5, <3>2, <3>3 DEF Current, At
  <2> QED
    BY <2>1, <2>4, <2>5 DEF IInv, Phase, LostThread, At, HandlerNames
<1> QED
  BY <1>1, Inductive, PTL

\* A number between two others stays so when all are multiplied by a natural one.
LEMMA Scaled ==
    ASSUME NEW a \in Int, NEW b \in Nat, NEW m \in Nat, -m <= a, a <= m
    PROVE  -(m * b) <= a * b /\ a * b <= m * b
<1>1. (m - a) \in Nat /\ (m + a) \in Nat
  OBVIOUS
<1>2. \A x, y \in Nat : x * y >= 0
  OBVIOUS
<1>3. (m - a) * b >= 0 /\ (m + a) * b >= 0
  BY <1>1, <1>2
<1>4. (m - a) * b = m * b - a * b /\ (m + a) * b = m * b + a * b
  OBVIOUS
<1>5. m * b \in Int /\ a * b \in Int
  OBVIOUS
<1> QED
  BY <1>3, <1>4, <1>5

\* At every bus rate the timer's period is a millisecond but for what the loop saw
\* late and the division cut off (Apic.cpp:15-33, 48-57).
THEOREM MillisecondTicks == Spec => []TickIsMillisecond
<1>1. IInv => TickIsMillisecond
  <2> SUFFICES ASSUME IInv, cpu.rip \in Bodies
               PROVE  LET error == apic.count * apic.divisor - (1193182 \div 1000) * apic.bus
                          bound == MaxLate * apic.bus + apic.divisor
                      IN  -bound <= error /\ error <= bound
    BY DEF TickIsMillisecond
  <2>1. Booted
    BY InBooted
  <2>2. /\ apic.divisor = 16 /\ apic.bus \in Nat /\ MaxLate \in Nat
        /\ \E x \in Late : apic.count = Measured(x)
    <3>1. /\ cpu.rip \notin Early \cup {"kmain", "Process::init", "xApic", "x2Apic", "spurious", "divide"}
          /\ cpu.rip \notin Early \cup Kmain /\ currentProcessControlBlock # None
      BY <2>1 DEF Booted, Kmain
    <3>2. apic.divisor = 16 /\ apic.bus \in BusRates /\ \E x \in Late : apic.count = Measured(x)
      BY <3>1 DEF IInv, TimerInv
    <3> QED
      BY <3>2, Rates
  <2>3. PICK x \in Late : apic.count = (x * apic.bus) \div 16
    BY <2>2 DEF Measured
  <2> DEFINE bus == apic.bus
             count == apic.count
             off == x - 1193
  <2>4. x \in Int /\ off \in Int /\ -MaxLate <= off /\ off <= MaxLate
    BY <2>2, <2>3 DEF Late
  <2>5. -(MaxLate * bus) <= off * bus /\ off * bus <= MaxLate * bus
    BY <2>2, <2>4, Scaled
  <2>6. off * bus = x * bus - 1193 * bus
    <3>1. \A y, b \in Int : (y - 1193) * b = y * b - 1193 * b
      OBVIOUS
    <3>2. bus \in Int /\ x \in Int
      BY <2>2, <2>4
    <3> HIDE DEF bus
    <3> QED
      BY <3>1, <3>2
  <2>7. count * 16 <= x * bus /\ x * bus < count * 16 + 16 /\ count \in Int
    <3> DEFINE n == x * bus
    <3>1. n \in Int /\ count = n \div 16
      BY <2>2, <2>3, <2>4
    <3> HIDE DEF n, count
    <3>2. (n \div 16) * 16 <= n /\ n < (n \div 16) * 16 + 16 /\ n \div 16 \in Int
      BY <3>1
    <3> QED
      BY <3>1, <3>2 DEF n
  <2>8. 1193182 \div 1000 = 1193
    OBVIOUS
  <2>9. -(MaxLate * bus + 16) <= count * 16 - 1193 * bus /\ count * 16 - 1193 * bus <= MaxLate * bus + 16
    <3> DEFINE a == MaxLate * bus
               b == off * bus
               c == x * bus
               d == 1193 * bus
    <3>1. a \in Int /\ b \in Int /\ c \in Int /\ d \in Int
      BY <2>2, <2>4
    <3>2. -a <= b /\ b <= a /\ b = c - d /\ count * 16 <= c /\ c < count * 16 + 16 /\ count \in Int
      BY <2>5, <2>6, <2>7
    <3> HIDE DEF a, b, c, d, count
    <3>3. -(a + 16) <= count * 16 - d /\ count * 16 - d <= a + 16
      BY <3>1, <3>2
    <3> QED
      BY <3>3 DEF a, d
  <2> QED
    BY <2>2, <2>8, <2>9
<1> QED
  BY <1>1, Inductive, PTL

\* However many threads have faulted, every switch resumes the thread it goes to with
\* all it was interrupted or created with, but for a thread that waits in doubleFault
\* together with another one (Macros.asm, IdtHandlers.asm:13-25, Process.cpp:57-75).
THEOREM ThreadsResume == Spec => ContextKept
<1>1. IInv /\ [Next]_vars => [At("popall") =>
          Context(cpu') = left[currentProcessControlBlock] \/ Shares(currentProcessControlBlock)]_cpu
  <2> SUFFICES ASSUME IInv, Next, cpu.rip = "popall", cpu' # cpu
               PROVE  Context(cpu') = left[currentProcessControlBlock] \/ Shares(currentProcessControlBlock)
    BY DEF At, vars
  <2>1. CASE Return
    BY <2>1, ResumesOwn DEF cur, Resumption
  <2>2. cpu.rip \notin Bodies /\ cpu.rip \notin FaultPlaces
    BY BodiesApart, LabelsAre DEF FaultPlaces, FaultHandlers, HandlerNames
  <2>3. ~BootStep
    BY DEF BootStep, Start, LoadGdt, ReloadCs, LoadSegments, InitIdt, LoadIdt, MaskPic, ClearScreen, InitProcess,
           EnableApic, ConfigureTimer, StartPit, StartCount, Wait, StartTimer, setInterrupts, At
  <2>4. ~Tick
    BY DEF Tick
  <2>5. ~Interrupt
    <3>1. cpu.flag = FALSE
      BY <2>2, InBooted DEF Current, At
    <3> QED
      BY <3>1 DEF Interrupt
  <2>6. ~SaveContext /\ ~timerInterrupt /\ ~HandleFault /\ ~WriteReturns
    BY <2>2 DEF SaveContext, timerInterrupt, HandleFault, WriteReturns, At, FaultPlaces
  <2>7. ~(\E t \in Threads : Create(t))
    BY DEF Create
  <2>8. ~Work /\ ~(\E v \in Faults : Fault(v))
    BY <2>2 DEF Work, Fault
  <2> QED
    BY <2>1, <2>3, <2>4, <2>5, <2>6, <2>7, <2>8 DEF Next, HandlerStep
<1> QED
  BY <1>1, Inductive, PTL DEF Spec, ContextKept
=============================================================================
