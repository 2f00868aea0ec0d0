--------------------------- MODULE InterruptGuard ---------------------------
(***************************************************************************)
(* InterruptGuard.cpp: a guard object turns interrupts off for the scope   *)
(* it lives in.  KernelHeap::alloc and free, Process::create, sleep and    *)
(* scheduler each hold one, nested in one another, in every thread; on one *)
(* CPU that is the kernel's only mutual exclusion.  The vector 0x20        *)
(* handler (Idt.cpp, IdtHandlers.asm) switches threads in between.         *)
(*                                                                         *)
(* Steps are machine instructions where their order matters: the           *)
(* constructor is two (pushfq, then cli), the handler's entry and its iret *)
(* are two.  Abstracted: which thread the handler picks (module Scheduler),*)
(* and of RFLAGS all but the interrupt flag, a bit.                        *)
(***************************************************************************)
EXTENDS Integers, Sequences

CONSTANTS
  Thread,     \* the threads there can be
  Boot,       \* the one kmain runs in
  HANDLER,    \* the interrupt handler, as an owner of a critical section
  MaxDepth    \* bound: how deep guarded functions call each other

ASSUME GuardAssumption ==
  /\ Boot \in Thread
  /\ HANDLER \notin Thread
  /\ MaxDepth \in Nat

Bit == {0, 1}

VARIABLES
  interrupts,    \* RFLAGS.IF of the CPU
  pending,       \* the LAPIC requests vector 0x20
  current,       \* the thread on the CPU, or interrupted by the handler
  handler,       \* activations of the handler
  guards,        \* per thread: rflags of its live guards, outermost first
  constructing,  \* threads in a constructor, between pushfq and cli
  image,         \* per thread: what that pushfq read
  saved,         \* per thread off the CPU: IF in the frame iret will pop
  created,       \* the threads the handler may choose
  phase          \* "boot", "timer" from Apic::init on, then "threads"

vars == << interrupts, pending, current, handler, guards, constructing,
           image, saved, created, phase >>

-----------------------------------------------------------------------------
\* The LAPIC has the CPU take a request before the next instruction.
Taken == interrupts = 1 /\ pending
InThread == handler = 0 /\ ~Taken

\* InterruptGuard(): loadRflags ...
LoadRflags ==
  /\ InThread
  /\ current \notin constructing
  /\ Len(guards[current]) < MaxDepth
  /\ constructing' = constructing \cup {current}
  /\ image' = [image EXCEPT ![current] = interrupts]
  /\ UNCHANGED << interrupts, pending, current, handler, guards, saved,
                  created, phase >>

\* ... then clearInterrupts.
ClearInterrupts ==
  /\ InThread
  /\ current \in constructing
  /\ constructing' = constructing \ {current}
  /\ guards' = [guards EXCEPT ![current] = Append(@, image[current])]
  /\ interrupts' = 0
  /\ UNCHANGED << pending, current, handler, image, saved, created, phase >>

\* Slips: every destructor turns interrupts on, or none does.
RestoredAlways(rflags) == 1
RestoredNever(rflags) == interrupts

\* IF after the destructor of a guard that holds rflags.
Restored(rflags) == IF rflags = 1 THEN 1 ELSE interrupts

\* ~InterruptGuard(), of the innermost guard.
Destruct ==
  /\ InThread
  /\ current \notin constructing
  /\ guards[current] # << >>
  /\ LET depth == Len(guards[current])
     IN  /\ interrupts' = Restored(guards[current][depth])
         /\ guards' = [guards EXCEPT ![current] = SubSeq(@, 1, depth - 1)]
  /\ UNCHANGED << pending, current, handler, constructing, image, saved,
                  created, phase >>

\* Slip: create copies the flags it runs with, interrupts off.
CopiedRflags == 0

\* The RFLAGS word create puts into the frame of the new thread.
NewRflags == 1

\* Process::create, in its guard: t can be chosen from now on.
Create(t) ==
  /\ InThread
  /\ phase = "threads"
  /\ guards[current] # << >>
  /\ t \notin created
  /\ created' = created \cup {t}
  /\ saved' = [saved EXCEPT ![t] = NewRflags]
  /\ UNCHANGED << interrupts, pending, current, handler, guards, constructing,
                  image, phase >>

\* Process::scheduler, in its guard: the CPU sends itself the vector.
RequestSelf ==
  /\ InThread
  /\ phase = "threads"
  /\ guards[current] # << >>
  /\ pending' = TRUE
  /\ UNCHANGED << interrupts, current, handler, guards, constructing, image,
                  saved, created, phase >>

-----------------------------------------------------------------------------
\* Apic::init in kmain starts the timer, interrupts still off.
InitApic ==
  /\ InThread
  /\ phase = "boot"
  /\ guards[Boot] = << >> /\ Boot \notin constructing
  /\ phase' = "timer"
  /\ UNCHANGED << interrupts, pending, current, handler, guards, constructing,
                  image, saved, created >>

\* The static setInterrupts, called by kmain before kernelMainThread.
SetInterrupts ==
  /\ InThread
  /\ phase = "timer"
  /\ guards[Boot] = << >> /\ Boot \notin constructing
  /\ interrupts' = 1
  /\ phase' = "threads"
  /\ UNCHANGED << pending, current, handler, guards, constructing, image,
                  saved, created >>

\* A timer tick; one that finds the request bit set is lost.
TimerTick ==
  /\ phase # "boot"
  /\ ~pending
  /\ pending' = TRUE
  /\ UNCHANGED << interrupts, current, handler, guards, constructing, image,
                  saved, created, phase >>

\* Slip: the vector gets a trap gate like the faults.
TrapGate == 1

\* What the gate of vector 0x20 does to IF: its type_attribute is 0x8E, an
\* interrupt gate (the fault vectors have 0x8F, a trap gate).
GateFlag == 0

\* The CPU takes the vector; timerInterruptAsm saves the thread.
Interrupt ==
  /\ Taken
  /\ pending' = FALSE
  /\ saved' = [saved EXCEPT ![current] = interrupts]
  /\ interrupts' = GateFlag
  /\ handler' = handler + 1
  /\ UNCHANGED << current, guards, constructing, image, created, phase >>

\* The handler has chosen t and returns to it with iretq.
Return(t) ==
  /\ handler > 0
  /\ ~Taken
  /\ t \in created
  /\ current' = t
  /\ interrupts' = saved[t]
  /\ handler' = handler - 1
  /\ UNCHANGED << pending, guards, constructing, image, saved, created, phase >>

-----------------------------------------------------------------------------
\* The boot loader enters the kernel with interrupts off.
Init ==
  /\ interrupts = 0
  /\ pending = FALSE
  /\ current = Boot
  /\ handler = 0
  /\ guards = [t \in Thread |-> << >>]
  /\ constructing = {}
  /\ image = [t \in Thread |-> 0]
  /\ saved = [t \in Thread |-> 0]
  /\ created = {Boot}
  /\ phase = "boot"

Next ==
  \/ LoadRflags \/ ClearInterrupts \/ Destruct \/ RequestSelf
  \/ InitApic \/ SetInterrupts \/ TimerTick \/ Interrupt
  \/ \E t \in Thread : Create(t) \/ Return(t)

Spec == Init /\ [][Next]_vars

\* Guarded functions have bounded loops and return, so that a guard at any
\* depth is destroyed in the end, whatever is constructed and destroyed
\* inside; the CPU executes cli after pushfq and takes requests; the handler
\* returns.
Fairness ==
  /\ WF_vars(ClearInterrupts)
  /\ \A d \in 1 .. MaxDepth : SF_vars(Destruct /\ Len(guards[current]) = d)
  /\ WF_vars(Interrupt)
  /\ WF_vars(\E t \in Thread : Return(t))

FairSpec == Spec /\ Fairness

-----------------------------------------------------------------------------
TypeOK ==
  /\ interrupts \in Bit
  /\ pending \in BOOLEAN
  /\ current \in Thread
  /\ handler \in Nat
  /\ guards \in [Thread -> Seq(Bit)]
  /\ constructing \subseteq Thread
  /\ image \in [Thread -> Bit]
  /\ saved \in [Thread -> Bit]
  /\ created \subseteq Thread
  /\ phase \in {"boot", "timer", "threads"}

Inside(t) == guards[t] # << >>

\* At most one of the threads and the handler is in a guarded section
\* (KernelHeap.cpp:55,124, Process.cpp:38,85,110; Idt.cpp:53): the heap's
\* list and the scheduler's lists are never touched by two of them at once.
MutualExclusion ==
  /\ \A t, u \in Thread : Inside(t) /\ Inside(u) => t = u
  /\ handler > 0 => \A t \in Thread : ~Inside(t)
  /\ handler <= 1

\* A thread outside all guards has interrupts on, once kmain has turned them
\* on: neither a nested guard, nor a switch inside the constructor, nor the
\* frame of a new thread leaves them off for good (InterruptGuard.cpp:10-13,
\* Process.cpp:59-68).
InterruptsRestored ==
  (phase = "threads" /\ handler = 0 /\ ~Inside(current)) => interrupts = 1

\* Until kmain turns interrupts on no destructor does: the guards of the
\* heap calls during boot find them off and leave them off, though the timer
\* already runs (main.cpp:55-57).
BootUninterrupted == phase # "threads" => interrupts = 0 /\ handler = 0

\* A request for the vector, of the timer or of scheduler(), is taken in the
\* end, whatever guards the threads go through.
RequestTaken == (phase = "threads" /\ pending) ~> (handler > 0)

-----------------------------------------------------------------------------
\* The guards implement critical sections.
Occupants ==
  {t \in Thread : Inside(t)} \cup {h \in {HANDLER} : handler > 0}

Abstract == INSTANCE CriticalSection WITH
  running <- current, inside <- Occupants

\* Guards and handler together are a CriticalSection, liveness included.
ImplementsCriticalSection == Abstract!Spec

=============================================================================
