----------------------------- MODULE Scheduler -----------------------------
(***************************************************************************)
(* The thread scheduler: Process.cpp (init, create, sleep, scheduler), the *)
(* vector 0x20 handler of Idt.cpp with its stub in IdtHandlers.asm, and    *)
(* the LAPIC that raises the vector (Apic.cpp programs it).                *)
(*                                                                         *)
(* One CPU.  create and sleep run with interrupts off (module              *)
(* InterruptGuard), so each is one action.  The handler runs with          *)
(* interrupts off too, but its wake-up loop need not end, so every turn of *)
(* the loop is a step.  A pending interrupt is taken before the next       *)
(* instruction of the running thread.                                      *)
(*                                                                         *)
(* Abstracted: a control block is its pid; sleepTime is kept relative to   *)
(* timerInterruptCounter (the ticks still to go, 0 when due), so that time *)
(* needs no bound; a thread is the sequence of calls it makes, then hlt.   *)
(***************************************************************************)
EXTENDS Naturals, Sequences, FiniteSets

CONSTANTS
  MaxProcs,   \* bound: control blocks the heap can hand out
  NULL,       \* nullptr
  Rip,        \* entry points that create may be given
  Code,       \* Code[r]: the calls a thread entered at r makes, in order
  Mains,      \* entry points the boot thread may have
  Delays      \* the arguments sleep is called with

Proc == 0 .. MaxProcs - 1
kernelProcess == 0
Queue == {"ready", "sleep"}
Link == Proc \cup {NULL}

\* The calls a thread can make.
Calls == [op : {"create"}, rip : Rip, isUser : BOOLEAN] \cup [op : {"sleep"}]

ASSUME SchedulerAssumption ==
  /\ MaxProcs \in Nat \ {0}
  /\ NULL \notin Nat
  /\ Mains \subseteq Rip
  /\ Code \in [Rip -> Seq(Calls)]
  /\ Delays \subseteq Nat

\* There is no system call: a user thread calls neither create nor sleep.
KernelCalls == {c \in Calls : c.op = "create" /\ c.isUser => Code[c.rip] = << >>}
ASSUME UserAssumption == Code \in [Rip -> Seq(KernelCalls)]

\* The programs that use sleep as this kernel does: the boot thread sleeps at
\* most once, after it has created another thread, and no other thread sleeps
\* (KernelMainThread.cpp).
Creates(c) == c.op = "create" /\ c.rip \notin Mains
SleepsLate(code) ==
  \A i \in DOMAIN code : ~Creates(code[i]) =>
    /\ code[i].op = "sleep"
    /\ \E j \in 1 .. i - 1 : Creates(code[j])
    /\ \A j \in DOMAIN code \ {i} : Creates(code[j])
OneSleep ==
  /\ \A rip \in Rip \ Mains : \A i \in DOMAIN Code[rip] : Creates(Code[rip][i])
  /\ \A rip \in Mains : SleepsLate(Code[rip])

VARIABLES
  lists,         \* the two intrusive lists and their end pointers
  sleepTime,     \* per control block: ticks left until the sleep is over
  frame,         \* per control block: rsp points at a complete frame
  isUser,        \* per control block: it has an address space and a
                 \* syscall stack of its own
  lastPid,
  current,       \* currentProcessControlBlock
  todo,          \* per thread: the calls it still has to make
  irr,           \* what set the LAPIC request bit of vector 0x20, {} if clear
  handler,       \* where the CPU is: "idle" (in a thread), "wake" (in the loop)
  currentSleep,  \* the loop variable of timerInterrupt
  cr3,           \* whose page tables are loaded, NULL for the kernel's own
  rsp0,          \* globalTss.rsp[0]: whose syscall stack, NULL for none
  fault,         \* a null dereference was taken: pageFault() halts the CPU
  owed           \* history: timer ticks a sleeper has still to sit out

vars == << lists, sleepTime, frame, isUser, lastPid, current, todo, irr,
           handler, currentSleep, cr3, rsp0, fault, owed >>

-----------------------------------------------------------------------------
(* The pointer code shared by create, sleep and timerInterrupt.  A value s  *)
(* of lists is a record: head[q], last[q], prev[q][p], next[q][p].  The     *)
(* assignments are applied one after the other, as in the code, because a   *)
(* later one may read what an earlier one wrote.                            *)

Unlink(s, q, p) ==
  LET forward ==
        IF s.prev[q][p] # NULL
          THEN [s EXCEPT !.next[q][s.prev[q][p]] = s.next[q][p]]
          ELSE [s EXCEPT !.head[q] = s.next[q][p]]
  IN  IF forward.next[q][p] # NULL
        THEN [forward EXCEPT !.prev[q][forward.next[q][p]] = forward.prev[q][p]]
        ELSE [forward EXCEPT !.last[q] = forward.prev[q][p]]

\* Slip: the list does not lead to the new last block.
EnqueueUnlinked(s, q, p) ==
  IF s.head[q] = NULL
    THEN [s EXCEPT !.head[q] = p, !.last[q] = p]
    ELSE [s EXCEPT !.prev[q][p] = s.last[q], !.last[q] = p]

\* The append of sleep and timerInterrupt: p's own next link is left as it is.
Enqueue(s, q, p) ==
  IF s.head[q] = NULL
    THEN [s EXCEPT !.head[q] = p, !.last[q] = p]
    ELSE [s EXCEPT !.next[q][s.last[q]] = p,
                   !.prev[q][p] = s.last[q],
                   !.last[q] = p]

\* Enqueue stores through last[q] when the list is not empty.
EnqueueFaults(s, q) == s.head[q] # NULL /\ s.last[q] = NULL

\* The append of create: the new block ends the list, whatever its head is.
LinkNew(s, p) ==
  [s EXCEPT !.next["ready"][s.last["ready"]] = p,
            !.prev["ready"][p] = s.last["ready"],
            !.next["ready"][p] = NULL,
            !.last["ready"] = p]

\* Process::scheduler: the vector is sent to the own CPU.
scheduler(r) == r \cup {"ipi"}

\* Slip: the control block keeps the address of an older frame.
ContextLost == UNCHANGED frame

\* timerInterruptAsm before the call: the interrupted context is pushed and
\* its address stored in the control block.
SaveContext == frame' = [frame EXCEPT ![current] = TRUE]

\* Slip: the page tables stay those of the thread before.
SwitchStackOnly(p) == rsp0' = (IF isUser[p] THEN p ELSE NULL) /\ UNCHANGED cr3

\* The end of timerInterrupt: syscall stack and page tables of p, the
\* current thread from now on.
SwitchSpace(p) ==
  /\ rsp0' = IF isUser[p] THEN p ELSE NULL
  /\ cr3'  = IF isUser[p] THEN p ELSE NULL

\* Slips: the comparison the wrong way round, or off by one.
DueBackwards(p) == sleepTime[p] > 0
DueEarly(p) == sleepTime[p] <= 1

\* timerInterruptCounter >= sleepTime
Due(p) == sleepTime[p] = 0

\* Where the wake-up loop starts, and where it goes on: at the successor of
\* the interrupted thread, not of the sleeper it has just looked at.
FirstSleeper(s) == s.head["sleep"]
NextSleeper(s, sleeper, interrupted) == s.next["sleep"][interrupted]

\* Slips: nothing follows the last thread, or the first follows every one.
NextOnly(s, p) == s.next["ready"][p]
HeadOnly(s, p) == s.head["ready"]

\* The thread the handler goes on with.
Successor(s, p) ==
  IF s.next["ready"][p] # NULL THEN s.next["ready"][p] ELSE s.head["ready"]

-----------------------------------------------------------------------------
\* A pending interrupt comes first: interrupts are on in every thread.
InThread == handler = "idle" /\ irr = {} /\ ~fault

Calling(op) ==
  /\ InThread
  /\ todo[current] # << >>
  /\ Head(todo[current]).op = op

\* Process::create(rip, isUser) called by the running thread.  For a user
\* process the VirtualMemoryManager constructor also loads cr3.
Create ==
  /\ Calling("create")
  /\ lastPid < MaxProcs
  /\ LET call == Head(todo[current])
         new  == lastPid
     IN  /\ todo' = [todo EXCEPT ![current] = Tail(@), ![new] = Code[call.rip]]
         /\ isUser' = [isUser EXCEPT ![new] = call.isUser]
         /\ frame' = [frame EXCEPT ![new] = TRUE]
         /\ cr3' = IF call.isUser THEN new ELSE cr3
         /\ lastPid' = lastPid + 1
         /\ IF lists.last["ready"] = NULL
              THEN fault' = TRUE /\ UNCHANGED lists
              ELSE lists' = LinkNew(lists, new) /\ UNCHANGED fault
  /\ UNCHANGED << sleepTime, current, irr, handler, currentSleep, rsp0, owed >>

\* Process::sleep(ms) called by the running thread.  It ends in scheduler(),
\* which sends the vector to the CPU itself.
Sleep(ms) ==
  /\ Calling("sleep")
  /\ todo' = [todo EXCEPT ![current] = Tail(@)]
  /\ sleepTime' = [sleepTime EXCEPT ![current] = ms]
  /\ owed' = [owed EXCEPT ![current] = ms]
  /\ LET unlinked == Unlink(lists, "ready", current)
     IN  IF EnqueueFaults(unlinked, "sleep")
           THEN fault' = TRUE /\ UNCHANGED << lists, irr >>
           ELSE /\ lists' = Enqueue(unlinked, "sleep", current)
                /\ irr' = scheduler(irr)
                /\ UNCHANGED fault
  /\ UNCHANGED << frame, isUser, lastPid, current, handler, currentSleep,
                  cr3, rsp0 >>

-----------------------------------------------------------------------------
\* The LAPIC timer fires, in periodic mode.  The request bit of the vector
\* is one bit: a tick that finds it set leaves no trace.
TimerTick ==
  /\ "timer" \notin irr
  /\ irr' = irr \cup {"timer"}
  /\ UNCHANGED << lists, sleepTime, frame, isUser, lastPid, current, todo,
                  handler, currentSleep, cr3, rsp0, fault, owed >>

\* n - 1, or 0.
Less1(n) == IF n = 0 THEN 0 ELSE n - 1

\* The vector is taken: timerInterruptAsm saves the context in the control
\* block, timerInterrupt counts the interrupt and starts its loop.
Interrupt ==
  /\ handler = "idle"
  /\ irr # {}
  /\ ~fault
  /\ irr' = {}
  /\ handler' = "wake"
  /\ SaveContext
  /\ sleepTime' = [p \in Proc |-> Less1(sleepTime[p])]
  /\ owed' = IF "timer" \in irr THEN [p \in Proc |-> Less1(owed[p])] ELSE owed
  /\ currentSleep' = FirstSleeper(lists)
  /\ UNCHANGED << lists, isUser, lastPid, current, todo, cr3, rsp0, fault >>

\* One turn of the loop.
WakeStep ==
  /\ handler = "wake"
  /\ currentSleep # NULL
  /\ ~fault
  /\ LET due      == Due(currentSleep)
         unlinked == Unlink(lists, "sleep", currentSleep)
     IN  /\ fault' = (due /\ EnqueueFaults(unlinked, "ready"))
         /\ lists' = IF due /\ ~fault'
                       THEN Enqueue(unlinked, "ready", currentSleep)
                       ELSE lists
  /\ currentSleep' = NextSleeper(lists', currentSleep, current)
  /\ UNCHANGED << sleepTime, frame, isUser, lastPid, current, todo, irr,
                  handler, cr3, rsp0, owed >>

\* The rest of timerInterrupt, and the return through timerInterruptAsm:
\* the frame the control block's rsp points at is popped.
Dispatch ==
  /\ handler = "wake"
  /\ currentSleep = NULL
  /\ ~fault
  /\ LET chosen == Successor(lists, current)
     IN  IF chosen = NULL
           THEN fault' = TRUE /\ UNCHANGED << current, frame, cr3, rsp0, handler >>
           ELSE /\ current' = chosen
                /\ frame' = [frame EXCEPT ![chosen] = FALSE]
                /\ SwitchSpace(chosen)
                /\ handler' = "idle"
                /\ UNCHANGED fault
  /\ UNCHANGED << lists, sleepTime, isUser, lastPid, todo, irr, currentSleep,
                  owed >>

-----------------------------------------------------------------------------
\* kmain after Process::init, Apic::init and setInterrupts: one thread, the
\* one kmain runs on; its context is saved when it is first interrupted.
Init ==
  /\ lists = [head |-> [ready |-> kernelProcess, sleep |-> NULL],
              last |-> [ready |-> kernelProcess, sleep |-> NULL],
              prev |-> [q \in Queue |-> [p \in Proc |-> NULL]],
              next |-> [q \in Queue |-> [p \in Proc |-> NULL]]]
  /\ sleepTime = [p \in Proc |-> 0]
  /\ frame = [p \in Proc |-> FALSE]
  /\ isUser = [p \in Proc |-> FALSE]
  /\ lastPid = 1
  /\ current = kernelProcess
  /\ \E rip \in Mains :
       todo = [p \in Proc |-> IF p = kernelProcess THEN Code[rip] ELSE << >>]
  /\ irr = {}
  /\ handler = "idle"
  /\ currentSleep = NULL
  /\ cr3 = NULL
  /\ rsp0 = NULL
  /\ fault = FALSE
  /\ owed = [p \in Proc |-> 0]

ThreadStep == Create \/ \E ms \in Delays : Sleep(ms)

Next == ThreadStep \/ TimerTick \/ Interrupt \/ WakeStep \/ Dispatch

Spec == Init /\ [][Next]_vars

\* The LAPIC timer is periodic; the CPU takes a pending interrupt and runs
\* the handler; and since a tick is a millisecond, whichever thread the
\* handler chooses again and again is again and again entered before the next
\* tick, and one that is entered again and again executes its next call.
Fairness ==
  /\ WF_vars(TimerTick)
  /\ WF_vars(Interrupt)
  /\ WF_vars(WakeStep)
  /\ WF_vars(Dispatch)
  /\ \A p \in Proc : /\ SF_vars(Dispatch /\ irr = {} /\ current' = p)
                     /\ SF_vars(ThreadStep /\ current = p)

FairSpec == Spec /\ Fairness

-----------------------------------------------------------------------------
Created == 0 .. lastPid - 1

\* What a walk along succ from start meets: the least set that holds start
\* and is closed under succ.
Walk(start, succ) ==
  { p \in Proc : \A S \in SUBSET Proc :
      /\ start \in S \cup {NULL}
      /\ \A x \in S : succ[x] \in S \cup {NULL}
      => p \in S }

Sleeping == Walk(lists.head["sleep"], lists.next["sleep"])

\* The threads the handler would go through if nobody slept or was created.
Rotation == Walk(Successor(lists, current),
                 [p \in Proc |-> Successor(lists, p)])

TypeOK ==
  /\ lists \in [head : [Queue -> Link], last : [Queue -> Link],
                prev : [Queue -> [Proc -> Link]],
                next : [Queue -> [Proc -> Link]]]
  /\ sleepTime \in [Proc -> Nat]
  /\ owed \in [Proc -> Nat]
  /\ frame \in [Proc -> BOOLEAN]
  /\ isUser \in [Proc -> BOOLEAN]
  /\ lastPid \in 1 .. MaxProcs
  /\ current \in Proc
  /\ todo \in [Proc -> Seq(Calls)]
  /\ irr \subseteq {"timer", "ipi"}
  /\ handler \in {"idle", "wake"}
  /\ currentSleep \in Link
  /\ cr3 \in Link
  /\ rsp0 \in Link
  /\ fault \in BOOLEAN

\* Between two interrupts the handler's rotation holds exactly the threads
\* that are not asleep: no runnable thread has dropped out of it, and it
\* leads to no sleeper.  (The links sleep leaves behind in the block it
\* unlinks, Process.cpp:89-97, and the links the handler keeps when it
\* appends, Idt.cpp:70-75, are what could break it.)
RotationIsRunnable ==
  handler = "idle" => Rotation = Created \ Sleeping

\* Every thread the handler may switch to has a complete frame for
\* timerInterruptAsm to pop, whether create built it or an earlier interrupt.
ResumableWhenOffCpu ==
  handler = "idle" => \A p \in Created \ {current} : frame[p]

\* A user thread executes in its own address space, its system calls on its
\* own stack, whoever ran before it and whatever address space create has
\* loaded since (Idt.cpp:86-88, Process.cpp:43).
OwnSpaceWhenUser ==
  InThread /\ isUser[current] => cr3 = current /\ rsp0 = current

\* No pointer of the lists is followed when it is null.
NoNullDereference == ~fault

\* While a thread executes no sleeper is overdue: the interrupt that made it
\* due has also woken it.
NoneOverdue ==
  InThread => \A p \in Sleeping : sleepTime[p] > 0

\* A sleeper is woken at most one timer tick early: the request sleep sends
\* itself is counted by the handler like a tick.
AtMostOneTickEarly ==
  [][\A p \in Proc : (p \in Sleeping /\ p \notin Sleeping') => owed[p] <= 1]_vars

\* The handler always returns to a thread.
HandlerReturns == (handler = "wake") ~> (handler = "idle")

\* A thread that calls sleep executes again.
SleepReturns ==
  \A p \in Proc : (p \in Sleeping) ~> (InThread /\ current = p)

-----------------------------------------------------------------------------
\* The scheduler implements the abstract one: its rotation, its handler and
\* its lists are a way to run Threads, fairness included.
Abstract == INSTANCE Threads WITH
  Thread  <- Proc,
  Boot    <- kernelProcess,
  running <- current,
  state   <- [p \in Proc |-> IF p \notin Created THEN "none"
                            ELSE IF p \in Sleeping THEN "asleep"
                            ELSE "runnable"]

\* Every step of create, sleep and the handler is a step of Threads or leaves
\* it unchanged, and no runnable or sleeping thread is forgotten.
ImplementsThreads == Abstract!Spec

=============================================================================
