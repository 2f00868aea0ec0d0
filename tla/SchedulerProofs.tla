-------------------------- MODULE SchedulerProofs --------------------------
(***************************************************************************)
(* Proofs about Scheduler for any number of control blocks.                *)
(*                                                                         *)
(* For any program its threads run: types, a frame to resume at, and user  *)
(* threads in their own address space.                                     *)
(*                                                                         *)
(* For the programs in which one thread sleeps, once (OneSleep): that no   *)
(* runnable thread drops out of the rotation, that the sleeper is woken    *)
(* when it is due and at most one tick early, that no null pointer is      *)
(* followed, and that all this is a way to run Threads.  None of it is     *)
(* true of every program: MCScheduler_two and MCScheduler_twice show what  *)
(* a second sleeper, and a second sleep, do.  The invariant is what        *)
(* the two lists look like, link by link, before the boot thread sleeps,   *)
(* while it does, and once it is awake again behind the others.            *)
(***************************************************************************)
EXTENDS Scheduler, SequenceTheorems, WellFoundedInduction, TLAPS

\* The lists, when every pointer in them leads to a member of S or nowhere.
ListsOver(S) ==
  [head : [Queue -> S \cup {NULL}], last : [Queue -> S \cup {NULL}],
   prev : [Queue -> [Proc -> S \cup {NULL}]],
   next : [Queue -> [Proc -> S \cup {NULL}]]]

Typed ==
  /\ sleepTime \in [Proc -> Nat]
  /\ owed \in [Proc -> Nat]
  /\ frame \in [Proc -> BOOLEAN]
  /\ isUser \in [Proc -> BOOLEAN]
  /\ lastPid \in 1 .. MaxProcs
  /\ todo \in [Proc -> Seq(KernelCalls)]
  /\ irr \subseteq {"timer", "ipi"}
  /\ handler \in {"idle", "wake"}
  /\ cr3 \in Link
  /\ rsp0 \in Link
  /\ fault \in BOOLEAN

\* Whatever the program does to the lists, they lead to control blocks that
\* create has filled in.
Linked ==
  /\ lists \in ListsOver(Created)
  /\ current \in Created
  /\ currentSleep \in Created \cup {NULL}

\* A created thread is at the CPU or has a frame; the handler has saved the
\* frame of the one it interrupted.
Framed == \A p \in Created : frame[p] \/ (handler = "idle" /\ p = current)

\* User threads call nothing, so none of them changes cr3 while it executes.
Spaced ==
  /\ \A p \in Proc : isUser[p] => todo[p] = << >>
  /\ \A p \in Proc \ Created : todo[p] = << >> /\ ~isUser[p]
  /\ handler = "idle" /\ isUser[current] => cr3 = current /\ rsp0 = current

IInv == Typed /\ Linked /\ Framed /\ Spaced

-----------------------------------------------------------------------------
\* Assignments to the members of the lists.
LEMMA SetEnd ==
  ASSUME NEW S, NEW s \in ListsOver(S), NEW q \in Queue, NEW v \in S \cup {NULL}
  PROVE  /\ [s EXCEPT !.head[q] = v] \in ListsOver(S)
         /\ [s EXCEPT !.last[q] = v] \in ListsOver(S)
<1>1. [s.head EXCEPT ![q] = v] \in [Queue -> S \cup {NULL}]
  BY DEF ListsOver
<1>2. [s.last EXCEPT ![q] = v] \in [Queue -> S \cup {NULL}]
  BY DEF ListsOver
<1> QED
  BY <1>1, <1>2 DEF ListsOver

LEMMA SetLink ==
  ASSUME NEW S, NEW s \in ListsOver(S), NEW q \in Queue, NEW x \in Proc,
         NEW v \in S \cup {NULL}
  PROVE  /\ [s EXCEPT !.prev[q][x] = v] \in ListsOver(S)
         /\ [s EXCEPT !.next[q][x] = v] \in ListsOver(S)
<1>1. \A f \in [Queue -> [Proc -> S \cup {NULL}]] :
        [f EXCEPT ![q][x] = v] \in [Queue -> [Proc -> S \cup {NULL}]]
  OBVIOUS
<1>2. [s.prev EXCEPT ![q][x] = v] \in [Queue -> [Proc -> S \cup {NULL}]]
  BY <1>1 DEF ListsOver
<1>3. [s.next EXCEPT ![q][x] = v] \in [Queue -> [Proc -> S \cup {NULL}]]
  BY <1>1 DEF ListsOver
<1> QED
  BY <1>2, <1>3 DEF ListsOver

\* What the members of the lists are.
LEMMA Members ==
  ASSUME NEW S, NEW s \in ListsOver(S), NEW q \in Queue
  PROVE  /\ s.head[q] \in S \cup {NULL}
         /\ s.last[q] \in S \cup {NULL}
         /\ \A x \in Proc : /\ s.prev[q][x] \in S \cup {NULL}
                            /\ s.next[q][x] \in S \cup {NULL}
BY DEF ListsOver

\* The pointer code keeps the lists within S.
LEMMA UnlinkOver ==
  ASSUME NEW S \in SUBSET Proc, NEW s \in ListsOver(S), NEW q \in Queue,
         NEW p \in S
  PROVE  Unlink(s, q, p) \in ListsOver(S)
<1> DEFINE forward == IF s.prev[q][p] # NULL
                        THEN [s EXCEPT !.next[q][s.prev[q][p]] = s.next[q][p]]
                        ELSE [s EXCEPT !.head[q] = s.next[q][p]]
<1>1. s.prev[q][p] \in S \cup {NULL} /\ s.next[q][p] \in S \cup {NULL}
  BY Members
<1>2. forward \in ListsOver(S)
  <2>1. CASE s.prev[q][p] # NULL
    <3>1. s.prev[q][p] \in Proc
      BY <1>1, <2>1
    <3> QED
      BY <1>1, <2>1, <3>1, SetLink
  <2>2. CASE s.prev[q][p] = NULL
    BY <1>1, <2>2, SetEnd
  <2> QED
    BY <2>1, <2>2
<1> HIDE DEF forward
<1>3. forward.prev[q][p] \in S \cup {NULL} /\ forward.next[q][p] \in S \cup {NULL}
  BY <1>2, Members
<1> DEFINE both == IF forward.next[q][p] # NULL
                     THEN [forward EXCEPT !.prev[q][forward.next[q][p]] =
                                            forward.prev[q][p]]
                     ELSE [forward EXCEPT !.last[q] = forward.prev[q][p]]
<1>4. both \in ListsOver(S)
  <2>1. CASE forward.next[q][p] # NULL
    <3>1. forward.next[q][p] \in Proc
      BY <1>3, <2>1
    <3> QED
      BY <1>2, <1>3, <2>1, <3>1, SetLink
  <2>2. CASE forward.next[q][p] = NULL
    BY <1>2, <1>3, <2>2, SetEnd
  <2> QED
    BY <2>1, <2>2
<1> QED
  BY <1>4 DEF Unlink, forward

LEMMA EnqueueOver ==
  ASSUME NEW S \in SUBSET Proc, NEW s \in ListsOver(S), NEW q \in Queue,
         NEW p \in S, ~EnqueueFaults(s, q)
  PROVE  Enqueue(s, q, p) \in ListsOver(S)
<1>1. CASE s.head[q] = NULL
  <2> DEFINE a == [s EXCEPT !.head[q] = p]
  <2>1. a \in ListsOver(S)
    BY SetEnd
  <2>2. [a EXCEPT !.last[q] = p] \in ListsOver(S)
    <3> HIDE DEF a
    <3> QED BY <2>1, SetEnd
  <2> QED
    BY <1>1, <2>2 DEF Enqueue
<1>2. CASE s.head[q] # NULL
  <2>1. s.last[q] \in S /\ s.last[q] \in Proc
    BY <1>2, Members DEF EnqueueFaults
  <2> DEFINE a == [s EXCEPT !.next[q][s.last[q]] = p]
             b == [a EXCEPT !.prev[q][p] = s.last[q]]
             c == [b EXCEPT !.last[q] = p]
  <2>2. a \in ListsOver(S)
    BY <2>1, SetLink
  <2>3. b \in ListsOver(S)
    <3> HIDE DEF a
    <3> QED BY <2>1, <2>2, SetLink
  <2>4. c \in ListsOver(S)
    <3> HIDE DEF b
    <3> QED BY <2>3, SetEnd
  <2> QED
    BY <1>2, <2>4 DEF Enqueue
<1> QED
  BY <1>1, <1>2

LEMMA LinkNewOver ==
  ASSUME NEW S \in SUBSET Proc, NEW s \in ListsOver(S), NEW p \in S,
         s.last["ready"] # NULL
  PROVE  LinkNew(s, p) \in ListsOver(S)
<1>1. "ready" \in Queue
  BY DEF Queue
<1>2. s.last["ready"] \in S /\ s.last["ready"] \in Proc
  BY <1>1, Members
<1> DEFINE a == [s EXCEPT !.next["ready"][s.last["ready"]] = p]
           b == [a EXCEPT !.prev["ready"][p] = s.last["ready"]]
           c == [b EXCEPT !.next["ready"][p] = NULL]
           d == [c EXCEPT !.last["ready"] = p]
<1>3. a \in ListsOver(S)
  BY <1>1, <1>2, SetLink
<1>4. b \in ListsOver(S)
  <2> HIDE DEF a
  <2> QED BY <1>1, <1>2, <1>3, SetLink
<1>5. c \in ListsOver(S)
  <2> HIDE DEF b
  <2> QED BY <1>1, <1>4, SetLink
<1>6. d \in ListsOver(S)
  <2> HIDE DEF c
  <2> QED BY <1>1, <1>5, SetEnd
<1> QED
  BY <1>6 DEF LinkNew

LEMMA MoreProcesses ==
  ASSUME NEW S, NEW T, S \subseteq T
  PROVE  ListsOver(S) \subseteq ListsOver(T)
<1>1. [Queue -> S \cup {NULL}] \subseteq [Queue -> T \cup {NULL}]
  OBVIOUS
<1>2. [Queue -> [Proc -> S \cup {NULL}]] \subseteq
      [Queue -> [Proc -> T \cup {NULL}]]
  OBVIOUS
<1> QED
  BY <1>1, <1>2 DEF ListsOver

-----------------------------------------------------------------------------
LEMMA Processes ==
  ASSUME Typed
  PROVE  Created \subseteq Proc /\ Proc \subseteq Nat
BY SchedulerAssumption DEF Typed, Created, Proc

\* The calls of a thread, and what is left of them after one.
LEMMA Calling1 ==
  ASSUME IInv, NEW op, Calling(op)
  PROVE  /\ handler = "idle"
         /\ ~isUser[current]
         /\ current \in Proc
         /\ todo[current] \in Seq(KernelCalls)
         /\ Head(todo[current]) \in KernelCalls
         /\ Tail(todo[current]) \in Seq(KernelCalls)
         /\ Head(todo[current]).op = op
<1>1. current \in Proc
  BY Processes DEF IInv, Linked
<1>2. todo[current] \in Seq(KernelCalls) /\ todo[current] # << >>
  BY <1>1 DEF IInv, Typed, Calling
<1>3. Head(todo[current]) \in KernelCalls /\ Tail(todo[current]) \in Seq(KernelCalls)
  BY <1>2, HeadTailProperties
<1> QED
  BY <1>1, <1>2, <1>3 DEF IInv, Spaced, Calling, InThread

LEMMA InitInv == Init => IInv
<1> SUFFICES ASSUME Init PROVE IInv
  OBVIOUS
<1>1. 0 \in Proc /\ 1 \in 1 .. MaxProcs /\ Proc \subseteq Nat
  BY SchedulerAssumption DEF Proc
<1>2. Created = {0}
  BY DEF Init, Created
<1>3. Typed
  <2>1. << >> \in Seq(KernelCalls)
    BY EmptySeq
  <2>2. \A rip \in Mains : Code[rip] \in Seq(KernelCalls)
    BY SchedulerAssumption, UserAssumption
  <2>3. todo \in [Proc -> Seq(KernelCalls)]
    BY <2>1, <2>2 DEF Init
  <2> QED
    BY <1>1, <2>3 DEF Init, Typed, Link
<1>4. Linked
  <2>1. lists \in ListsOver({0})
    BY DEF Init, ListsOver, Queue, kernelProcess
  <2> QED
    BY <1>2, <2>1 DEF Init, Linked, kernelProcess
<1>5. Framed
  BY <1>2 DEF Init, Framed, kernelProcess
<1>6. Spaced
  BY <1>1, <1>2 DEF Init, Spaced, kernelProcess
<1> QED
  BY <1>3, <1>4, <1>5, <1>6 DEF IInv

LEMMA CreateStep == IInv /\ Create => IInv'
<1> SUFFICES ASSUME IInv, Create PROVE IInv'
  OBVIOUS
<1> DEFINE call == Head(todo[current])
           new  == lastPid
<1>1. /\ handler = "idle" /\ ~isUser[current] /\ current \in Proc
      /\ todo[current] \in Seq(KernelCalls)
      /\ call \in KernelCalls /\ call.op = "create"
      /\ Tail(todo[current]) \in Seq(KernelCalls)
  BY Calling1 DEF Create
<1>2. call.rip \in Rip /\ call.isUser \in BOOLEAN
      /\ (call.isUser => Code[call.rip] = << >>)
  <2>1. call \in Calls
    BY <1>1 DEF KernelCalls
  <2>2. call \in [op : {"create"}, rip : Rip, isUser : BOOLEAN]
    BY <1>1, <2>1 DEF Calls
  <2> QED
    BY <1>1, <2>2 DEF KernelCalls
<1>3. Code[call.rip] \in Seq(KernelCalls)
  BY <1>2, UserAssumption
<1>4. new \in Proc /\ new \notin Created /\ new \in Nat
  BY SchedulerAssumption DEF Create, IInv, Typed, Proc, Created
<1>5. Created' = Created \cup {new} /\ Created \subseteq Proc
  BY Processes, SchedulerAssumption DEF Create, IInv, Typed, Created
<1>6. new # current /\ current \in Created
  BY <1>4 DEF IInv, Linked
<1>7. /\ todo' = [todo EXCEPT ![current] = Tail(todo[current]),
                              ![new] = Code[call.rip]]
      /\ isUser' = [isUser EXCEPT ![new] = call.isUser]
      /\ frame' = [frame EXCEPT ![new] = TRUE]
      /\ cr3' = IF call.isUser THEN new ELSE cr3
      /\ lastPid' = lastPid + 1 /\ lastPid < MaxProcs
      /\ UNCHANGED << sleepTime, current, irr, handler, currentSleep, rsp0, owed >>
  BY DEF Create
<1>8. \/ fault' = TRUE /\ lists' = lists
      \/ lists.last["ready"] # NULL /\ lists' = LinkNew(lists, new)
         /\ fault' = fault
  BY DEF Create
<1> HIDE DEF call, new
<1>9. Typed'
  <2>1. todo' \in [Proc -> Seq(KernelCalls)]
    BY <1>1, <1>3, <1>4, <1>7 DEF IInv, Typed
  <2>2. isUser' \in [Proc -> BOOLEAN] /\ frame' \in [Proc -> BOOLEAN]
    BY <1>2, <1>4, <1>7 DEF IInv, Typed
  <2>3. lastPid' \in 1 .. MaxProcs
    BY <1>7, SchedulerAssumption DEF IInv, Typed
  <2>4. cr3' \in Link /\ fault' \in BOOLEAN
    BY <1>4, <1>7, <1>8 DEF IInv, Typed, Link
  <2> QED
    BY <1>7, <2>1, <2>2, <2>3, <2>4 DEF IInv, Typed
<1>10. Linked'
  <2>1. lists \in ListsOver(Created')
    BY <1>5, MoreProcesses DEF IInv, Linked
  <2>2. lists' \in ListsOver(Created')
    BY <1>4, <1>5, <1>8, <2>1, LinkNewOver
  <2> QED
    BY <1>5, <1>7, <2>2 DEF IInv, Linked
<1>11. Framed'
  BY <1>1, <1>4, <1>5, <1>7 DEF IInv, Framed, Typed
<1>12. Spaced'
  <2>1. \A p \in Proc : isUser'[p] => todo'[p] = << >>
    <3> SUFFICES ASSUME NEW p \in Proc, isUser'[p]
                 PROVE  todo'[p] = << >>
      OBVIOUS
    <3>1. CASE p = new
      BY <1>1, <1>2, <1>4, <1>7, <3>1 DEF IInv, Typed
    <3>2. CASE p # new
      BY <1>1, <1>4, <1>7, <3>2 DEF IInv, Typed, Spaced
    <3> QED
      BY <3>1, <3>2
  <2>2. \A p \in Proc \ Created' : todo'[p] = << >> /\ ~isUser'[p]
    BY <1>1, <1>4, <1>5, <1>6, <1>7 DEF IInv, Typed, Spaced
  <2>3. ~isUser'[current']
    BY <1>1, <1>4, <1>6, <1>7 DEF IInv, Typed
  <2> QED
    BY <2>1, <2>2, <2>3 DEF Spaced
<1> QED
  BY <1>9, <1>10, <1>11, <1>12 DEF IInv

LEMMA SleepStep == \A ms \in Delays : IInv /\ Sleep(ms) => IInv'
<1> SUFFICES ASSUME NEW ms \in Delays, IInv, Sleep(ms) PROVE IInv'
  OBVIOUS
<1> DEFINE unlinked == Unlink(lists, "ready", current)
<1>1. /\ handler = "idle" /\ ~isUser[current] /\ current \in Proc
      /\ todo[current] \in Seq(KernelCalls)
      /\ Tail(todo[current]) \in Seq(KernelCalls)
  BY Calling1 DEF Sleep
<1>2. /\ todo' = [todo EXCEPT ![current] = Tail(todo[current])]
      /\ sleepTime' = [sleepTime EXCEPT ![current] = ms]
      /\ owed' = [owed EXCEPT ![current] = ms]
      /\ UNCHANGED << frame, isUser, lastPid, current, handler, currentSleep,
                      cr3, rsp0 >>
  BY DEF Sleep
<1>3. \/ fault' = TRUE /\ lists' = lists /\ irr' = irr
      \/ /\ ~EnqueueFaults(unlinked, "sleep")
         /\ lists' = Enqueue(unlinked, "sleep", current)
         /\ irr' = scheduler(irr) /\ fault' = fault
  BY DEF Sleep
<1>4. "ready" \in Queue /\ "sleep" \in Queue /\ ms \in Nat
  BY SchedulerAssumption DEF Queue
<1>5. Created' = Created /\ Created \in SUBSET Proc
  BY <1>2, Processes DEF Created, IInv
<1>6. unlinked \in ListsOver(Created)
  BY <1>4, <1>5, UnlinkOver DEF IInv, Linked
<1> HIDE DEF unlinked
<1>7. Typed'
  <2>1. todo' \in [Proc -> Seq(KernelCalls)]
    BY <1>1, <1>2 DEF IInv, Typed
  <2>2. irr' \subseteq {"timer", "ipi"} /\ fault' \in BOOLEAN
    BY <1>3 DEF IInv, Typed, scheduler
  <2> QED
    BY <1>2, <1>4, <2>1, <2>2 DEF IInv, Typed
<1>8. Linked'
  <2>1. lists' \in ListsOver(Created)
    BY <1>3, <1>4, <1>5, <1>6, EnqueueOver DEF IInv, Linked
  <2> QED
    BY <1>2, <1>5, <2>1 DEF IInv, Linked
<1>9. Framed'
  BY <1>2, <1>5 DEF IInv, Framed
<1>10. Spaced'
  BY <1>1, <1>2, <1>5 DEF IInv, Spaced, Typed
<1> QED
  BY <1>7, <1>8, <1>9, <1>10 DEF IInv

LEMMA TimerTickStep == IInv /\ TimerTick => IInv'
BY DEF TimerTick, IInv, Typed, Linked, Framed, Spaced, Created

LEMMA InterruptStep == IInv /\ Interrupt => IInv'
<1> SUFFICES ASSUME IInv, Interrupt PROVE IInv'
  OBVIOUS
<1>1. \A n \in Nat : Less1(n) \in Nat
  BY DEF Less1
<1>2. Created' = Created /\ Created \in SUBSET Proc
  BY Processes DEF Interrupt, Created, IInv
<1>3. Typed'
  <2>1. sleepTime' \in [Proc -> Nat] /\ owed' \in [Proc -> Nat]
    BY <1>1 DEF IInv, Typed, Interrupt
  <2>2. frame' \in [Proc -> BOOLEAN]
    BY DEF IInv, Typed, Interrupt, SaveContext
  <2> QED
    BY <2>1, <2>2 DEF IInv, Typed, Interrupt
<1>4. Linked'
  <2>1. lists.head["sleep"] \in Created \cup {NULL}
    BY Members DEF IInv, Linked, Queue
  <2> QED
    BY <1>2, <2>1 DEF IInv, Linked, Interrupt, FirstSleeper
<1>5. Framed'
  BY <1>2 DEF IInv, Typed, Framed, Linked, Interrupt, SaveContext
<1>6. Spaced'
  BY <1>2 DEF IInv, Spaced, Interrupt
<1> QED
  BY <1>3, <1>4, <1>5, <1>6 DEF IInv

LEMMA WakeStepStep == IInv /\ WakeStep => IInv'
<1> SUFFICES ASSUME IInv, WakeStep PROVE IInv'
  OBVIOUS
<1> DEFINE unlinked == Unlink(lists, "sleep", currentSleep)
<1>1. "ready" \in Queue /\ "sleep" \in Queue
  BY DEF Queue
<1>2. Created' = Created /\ Created \in SUBSET Proc
  BY Processes DEF WakeStep, Created, IInv
<1>3. currentSleep \in Created /\ current \in Created
  BY DEF WakeStep, IInv, Linked
<1>4. unlinked \in ListsOver(Created)
  BY <1>1, <1>2, <1>3, UnlinkOver DEF IInv, Linked
<1>5. /\ fault' \in BOOLEAN
      /\ \/ lists' = lists
         \/ /\ ~EnqueueFaults(unlinked, "ready")
            /\ lists' = Enqueue(unlinked, "ready", currentSleep)
      /\ currentSleep' = NextSleeper(lists', currentSleep, current)
      /\ UNCHANGED << sleepTime, frame, isUser, lastPid, current, todo, irr,
                      handler, cr3, rsp0, owed >>
  BY DEF WakeStep
<1> HIDE DEF unlinked
<1>6. lists' \in ListsOver(Created)
  BY <1>1, <1>2, <1>3, <1>4, <1>5, EnqueueOver DEF IInv, Linked
<1>7. currentSleep' \in Created \cup {NULL}
  <2>1. current \in Proc
    BY <1>2, <1>3
  <2> QED
    BY <1>1, <1>5, <1>6, <2>1, Members DEF NextSleeper
<1>8. Typed'
  BY <1>5 DEF IInv, Typed
<1>9. Linked'
  BY <1>2, <1>5, <1>6, <1>7 DEF IInv, Linked
<1>10. Framed' /\ Spaced'
  BY <1>2, <1>5 DEF IInv, Framed, Spaced
<1> QED
  BY <1>8, <1>9, <1>10 DEF IInv

LEMMA DispatchStep == IInv /\ Dispatch => IInv'
<1> SUFFICES ASSUME IInv, Dispatch PROVE IInv'
  OBVIOUS
<1> DEFINE chosen == Successor(lists, current)
<1>1. Created' = Created /\ Created \in SUBSET Proc
  BY Processes DEF Dispatch, Created, IInv
<1>2. chosen \in Created \cup {NULL}
  <2>1. "ready" \in Queue /\ current \in Proc
    BY <1>1 DEF Queue, IInv, Linked
  <2>2. /\ lists.next["ready"][current] \in Created \cup {NULL}
        /\ lists.head["ready"] \in Created \cup {NULL}
    BY <2>1, Members DEF IInv, Linked
  <2> QED
    BY <2>2 DEF Successor
<1>3. /\ handler = "wake"
      /\ UNCHANGED << lists, sleepTime, isUser, lastPid, todo, irr,
                      currentSleep, owed >>
  BY DEF Dispatch
<1>4. \/ /\ fault' = TRUE
         /\ UNCHANGED << current, frame, cr3, rsp0, handler >>
      \/ /\ chosen # NULL
         /\ current' = chosen
         /\ frame' = [frame EXCEPT ![chosen] = FALSE]
         /\ rsp0' = (IF isUser[chosen] THEN chosen ELSE NULL)
         /\ cr3' = (IF isUser[chosen] THEN chosen ELSE NULL)
         /\ handler' = "idle"
         /\ fault' = fault
  BY DEF Dispatch, SwitchSpace
<1> HIDE DEF chosen
<1>5. CASE fault' = TRUE /\ UNCHANGED << current, frame, cr3, rsp0, handler >>
  <2>1. Typed'
    BY <1>3, <1>5 DEF IInv, Typed
  <2>2. Linked' /\ Framed' /\ Spaced'
    BY <1>1, <1>3, <1>5 DEF IInv, Linked, Framed, Spaced
  <2> QED
    BY <2>1, <2>2 DEF IInv
<1>6. CASE /\ chosen # NULL
           /\ current' = chosen
           /\ frame' = [frame EXCEPT ![chosen] = FALSE]
           /\ rsp0' = (IF isUser[chosen] THEN chosen ELSE NULL)
           /\ cr3' = (IF isUser[chosen] THEN chosen ELSE NULL)
           /\ handler' = "idle"
           /\ fault' = fault
  <2>1. chosen \in Created /\ chosen \in Proc
    BY <1>1, <1>2, <1>6
  <2>2. Typed'
    <3>1. cr3' \in Link /\ rsp0' \in Link
      BY <1>6, <2>1 DEF Link
    <3>2. frame' \in [Proc -> BOOLEAN]
      BY <1>6 DEF IInv, Typed
    <3> QED
      BY <1>3, <1>6, <3>1, <3>2 DEF IInv, Typed
  <2>3. Linked'
    BY <1>1, <1>3, <1>6, <2>1 DEF IInv, Linked
  <2>4. Framed'
    BY <1>1, <1>3, <1>6, <2>1 DEF IInv, Framed, Typed
  <2>5. Spaced'
    BY <1>1, <1>3, <1>6, <2>1 DEF IInv, Spaced
  <2> QED
    BY <2>2, <2>3, <2>4, <2>5 DEF IInv
<1> QED
  BY <1>4, <1>5, <1>6

LEMMA StepInv == IInv /\ [Next]_vars => IInv'
<1> SUFFICES ASSUME IInv, [Next]_vars PROVE IInv'
  OBVIOUS
<1>1. CASE Create
  BY <1>1, CreateStep
<1>2. ASSUME NEW ms \in Delays, Sleep(ms) PROVE IInv'
  BY <1>2, SleepStep
<1>3. CASE TimerTick
  BY <1>3, TimerTickStep
<1>4. CASE Interrupt
  BY <1>4, InterruptStep
<1>5. CASE WakeStep
  BY <1>5, WakeStepStep
<1>6. CASE Dispatch
  BY <1>6, DispatchStep
<1>7. CASE UNCHANGED vars
  BY <1>7 DEF vars, IInv, Typed, Linked, Framed, Spaced, Created
<1> QED
  BY <1>1, <1>2, <1>3, <1>4, <1>5, <1>6, <1>7 DEF Next, ThreadStep

-----------------------------------------------------------------------------
\* The inductive invariant holds throughout, whatever the threads call.
THEOREM Inductive == Spec => []IInv
<1>1. Init => IInv
  BY InitInv
<1>2. IInv /\ [Next]_vars => IInv'
  BY StepInv
<1> QED
  BY <1>1, <1>2, PTL DEF Spec

\* Every variable of the scheduler has its type; in particular no link of the
\* two lists ever leads out of the control blocks.
THEOREM TypeCorrect == Spec => []TypeOK
<1>1. IInv => TypeOK
  <2> SUFFICES ASSUME IInv PROVE TypeOK
    OBVIOUS
  <2>1. Created \subseteq Proc
    BY Processes DEF IInv
  <2>2. lists \in ListsOver(Proc)
    BY <2>1, MoreProcesses DEF IInv, Linked
  <2>3. KernelCalls \subseteq Calls
    BY DEF KernelCalls
  <2>4. todo \in [Proc -> Seq(Calls)]
    <3>1. \A p \in Proc : todo[p] \in Seq(KernelCalls)
      BY DEF IInv, Typed
    <3>2. \A s \in Seq(KernelCalls) : s \in Seq(Calls)
      <4> SUFFICES ASSUME NEW s \in Seq(KernelCalls) PROVE s \in Seq(Calls)
        OBVIOUS
      <4>1. Len(s) \in Nat /\ s = [i \in 1 .. Len(s) |-> s[i]]
        BY LenProperties, SeqDef
      <4>2. \A i \in 1 .. Len(s) : s[i] \in Calls
        BY ElementOfSeq, <2>3
      <4> QED
        BY <4>1, <4>2, IsASeq
    <3> QED
      BY <3>1, <3>2 DEF IInv, Typed
  <2> QED
    BY <2>1, <2>2, <2>4 DEF IInv, Typed, Linked, TypeOK, ListsOver, Link
<1> QED
  BY <1>1, Inductive, PTL

\* Whatever create and sleep have done to the lists, the handler finds a
\* complete frame behind the rsp of any control block it may go on with.
THEOREM Resumable == Spec => []ResumableWhenOffCpu
<1>1. IInv => ResumableWhenOffCpu
  BY DEF IInv, Framed, ResumableWhenOffCpu
<1> QED
  BY <1>1, Inductive, PTL

\* Every user thread executes in its own address space and enters the kernel
\* on its own stack, for any program.
THEOREM OwnSpace == Spec => []OwnSpaceWhenUser
<1>1. IInv => OwnSpaceWhenUser
  BY DEF IInv, Spaced, OwnSpaceWhenUser, InThread
<1> QED
  BY <1>1, Inductive, PTL

-----------------------------------------------------------------------------
\* Programs in which one thread sleeps, once

\* Threads are numbered as they are created, and in this order they are in
\* the list, until the boot thread sleeps ...
NextInOrder(first, last) ==
  \A p \in first .. last - 1 : lists.next["ready"][p] = p + 1

Before ==
  /\ lists.head["ready"] = 0 /\ lists.head["sleep"] = NULL
  /\ lists.last["ready"] = lastPid - 1
  /\ NextInOrder(0, lastPid - 1) /\ lists.next["ready"][lastPid - 1] = NULL
  /\ lists.prev["ready"][0] = NULL

\* ... when the others stay, and its own link is left ...
Asleep ==
  /\ lastPid > 1
  /\ lists.head["ready"] = 1 /\ lists.head["sleep"] = 0
  /\ lists.last["ready"] = lastPid - 1
  /\ NextInOrder(0, lastPid - 1) /\ lists.next["ready"][lastPid - 1] = NULL

\* ... and wakes behind the k - 1 others there are by then.  What it leads to
\* first, by the link that was left, is the first of them.
Awake(k) ==
  /\ lists.head["ready"] = 1 /\ lists.head["sleep"] = NULL
  /\ NextInOrder(1, k - 1) /\ lists.next["ready"][k - 1] = 0
  /\ IF lastPid = k
       THEN lists.next["ready"][0] = 1 /\ lists.last["ready"] = 0
       ELSE /\ lists.next["ready"][0] = k
            /\ NextInOrder(k, lastPid - 1) /\ lists.next["ready"][lastPid - 1] = NULL
            /\ lists.last["ready"] = lastPid - 1

\* The calls the threads still have to make.
CallsLeft ==
  /\ \A p \in Proc \ {0} : \A i \in DOMAIN todo[p] : Creates(todo[p][i])
  /\ IF Before
       THEN IF lastPid = 1 THEN SleepsLate(todo[0])
            ELSE \A i, j \in DOMAIN todo[0] :
                   ~Creates(todo[0][i]) /\ ~Creates(todo[0][j]) =>
                     i = j /\ todo[0][i].op = "sleep"
       ELSE \A i \in DOMAIN todo[0] : Creates(todo[0][i])

\* The sleeper is looked at by the interrupt that makes it due, which is at
\* most one tick early: the one that sleep itself requested.  That one takes
\* the CPU from it before it executes again.
Timed ==
  /\ Asleep =>
       /\ InThread \/ (handler = "wake" /\ currentSleep = NULL) => sleepTime[0] > 0
       /\ owed[0] <= sleepTime[0] + (IF "ipi" \in irr THEN 0 ELSE 1)
       /\ InThread => current # 0
  /\ currentSleep # NULL => Asleep /\ currentSleep = 0 /\ handler = "wake"

OneSleepInv ==
  /\ ~fault
  /\ Before \/ Asleep \/ \E k \in 2 .. lastPid : Awake(k)
  /\ \A p \in Proc : lists.next["sleep"][p] = NULL /\ lists.prev["sleep"][p] = NULL
  /\ CallsLeft
  /\ Timed

-----------------------------------------------------------------------------
\* One assignment to a member of the lists, and what it leaves alone.
WithHead(s, q, v)    == [s EXCEPT !.head[q] = v]
WithLast(s, q, v)    == [s EXCEPT !.last[q] = v]
WithNext(s, q, x, v) == [s EXCEPT !.next[q][x] = v]
WithPrev(s, q, x, v) == [s EXCEPT !.prev[q][x] = v]

EndSet(new, old, q, v) ==
  \A o \in Queue : new[o] = IF o = q THEN v ELSE old[o]
LinkSet(new, old, q, x, v) ==
  \A o \in Queue, y \in Proc : new[o][y] = IF o = q /\ y = x THEN v ELSE old[o][y]

HeadChanged(r, s, q, v) ==
  r.last = s.last /\ r.next = s.next /\ r.prev = s.prev /\ EndSet(r.head, s.head, q, v)
LastChanged(r, s, q, v) ==
  r.head = s.head /\ r.next = s.next /\ r.prev = s.prev /\ EndSet(r.last, s.last, q, v)
NextChanged(r, s, q, x, v) ==
  r.head = s.head /\ r.last = s.last /\ r.prev = s.prev /\ LinkSet(r.next, s.next, q, x, v)
PrevChanged(r, s, q, x, v) ==
  r.head = s.head /\ r.last = s.last /\ r.next = s.next /\ LinkSet(r.prev, s.prev, q, x, v)

LEMMA WithEnd ==
  ASSUME NEW S, NEW s \in ListsOver(S), NEW q \in Queue, NEW v, v \in S \cup {NULL}
  PROVE  /\ WithHead(s, q, v) \in ListsOver(S) /\ HeadChanged(WithHead(s, q, v), s, q, v)
         /\ WithLast(s, q, v) \in ListsOver(S) /\ LastChanged(WithLast(s, q, v), s, q, v)
BY SetEnd DEF WithHead, WithLast, HeadChanged, LastChanged, EndSet, ListsOver

LEMMA WithLink ==
  ASSUME NEW S, NEW s \in ListsOver(S), NEW q \in Queue, NEW x \in Proc,
         NEW v, v \in S \cup {NULL}
  PROVE  /\ WithNext(s, q, x, v) \in ListsOver(S) /\ NextChanged(WithNext(s, q, x, v), s, q, x, v)
         /\ WithPrev(s, q, x, v) \in ListsOver(S) /\ PrevChanged(WithPrev(s, q, x, v), s, q, x, v)
<1>1. \A f \in [Queue -> [Proc -> S \cup {NULL}]] : LinkSet([f EXCEPT ![q][x] = v], f, q, x, v)
  BY DEF LinkSet
<1>2. s.next \in [Queue -> [Proc -> S \cup {NULL}]] /\ s.prev \in [Queue -> [Proc -> S \cup {NULL}]]
  BY DEF ListsOver
<1>3. /\ WithNext(s, q, x, v).next = [s.next EXCEPT ![q][x] = v]
      /\ WithPrev(s, q, x, v).prev = [s.prev EXCEPT ![q][x] = v]
  BY DEF ListsOver, WithNext, WithPrev
<1>4. /\ WithNext(s, q, x, v).head = s.head /\ WithNext(s, q, x, v).last = s.last
      /\ WithNext(s, q, x, v).prev = s.prev
      /\ WithPrev(s, q, x, v).head = s.head /\ WithPrev(s, q, x, v).last = s.last
      /\ WithPrev(s, q, x, v).next = s.next
  BY DEF ListsOver, WithNext, WithPrev
<1>5. WithNext(s, q, x, v) \in ListsOver(S) /\ WithPrev(s, q, x, v) \in ListsOver(S)
  BY SetLink DEF WithNext, WithPrev
<1>6. LinkSet(WithNext(s, q, x, v).next, s.next, q, x, v) /\ LinkSet(WithPrev(s, q, x, v).prev, s.prev, q, x, v)
  BY <1>1, <1>2, <1>3
<1> QED
  BY <1>4, <1>5, <1>6 DEF NextChanged, PrevChanged

\* create links a block behind the last.
LEMMA LinkNewFields ==
  ASSUME NEW S \in SUBSET Proc, NEW s \in ListsOver(S), NEW p \in S, s.last["ready"] # NULL,
         NEW r, r = LinkNew(s, p)
  PROVE  /\ r.head = s.head /\ r.last["ready"] = p
         /\ \A x \in Proc :
              /\ r.next["ready"][x] = IF x = p THEN NULL
                                      ELSE IF x = s.last["ready"] THEN p ELSE s.next["ready"][x]
              /\ r.prev["ready"][x] = IF x = p THEN s.last["ready"] ELSE s.prev["ready"][x]
              /\ r.next["sleep"][x] = s.next["sleep"][x]
              /\ r.prev["sleep"][x] = s.prev["sleep"][x]
<1> DEFINE z == s.last["ready"]
           a == WithNext(s, "ready", z, p)
           b == WithPrev(a, "ready", p, z)
           c == WithNext(b, "ready", p, NULL)
           d == WithLast(c, "ready", p)
<1>1. "ready" \in Queue /\ "sleep" \in Queue
  BY DEF Queue
<1>2. z \in S \cup {NULL} /\ z \in Proc /\ p \in Proc /\ p \in S \cup {NULL} /\ NULL \in S \cup {NULL}
  BY <1>1, Members
<1>3. r = d
  BY DEF LinkNew, WithLast, WithNext, WithPrev
<1> HIDE DEF z
<1>4. a \in ListsOver(S) /\ NextChanged(a, s, "ready", z, p)
  BY <1>1, <1>2, WithLink
<1> HIDE DEF a
<1>5. b \in ListsOver(S) /\ PrevChanged(b, a, "ready", p, z)
  BY <1>1, <1>2, <1>4, WithLink
<1> HIDE DEF b
<1>6. c \in ListsOver(S) /\ NextChanged(c, b, "ready", p, NULL)
  BY <1>1, <1>2, <1>5, WithLink
<1> HIDE DEF c
<1>7. LastChanged(d, c, "ready", p)
  BY <1>1, <1>2, <1>6, WithEnd
<1> HIDE DEF d
<1>8. /\ r.head = s.head /\ r.next = c.next /\ r.prev = b.prev
      /\ b.next = a.next /\ a.prev = s.prev
      /\ EndSet(r.last, c.last, "ready", p)
      /\ LinkSet(c.next, b.next, "ready", p, NULL) /\ LinkSet(b.prev, a.prev, "ready", p, z)
      /\ LinkSet(a.next, s.next, "ready", z, p)
  BY <1>3, <1>4, <1>5, <1>6, <1>7 DEF NextChanged, PrevChanged, LastChanged
<1> QED
  BY <1>1, <1>8 DEF z, EndSet, LinkSet

\* The first block of a list is taken out of it.
LEMMA UnlinkFields ==
  ASSUME NEW S \in SUBSET Proc, NEW s \in ListsOver(S), NEW q \in Queue, NEW p \in S,
         s.prev[q][p] = NULL, NEW r, r = Unlink(s, q, p)
  PROVE  /\ r.next = s.next
         /\ \A o \in Queue :
              /\ r.head[o] = IF o = q THEN s.next[q][p] ELSE s.head[o]
              /\ r.last[o] = IF o = q /\ s.next[q][p] = NULL THEN NULL ELSE s.last[o]
         /\ \A o \in Queue, y \in Proc :
              r.prev[o][y] = IF o = q /\ y = s.next[q][p] THEN NULL ELSE s.prev[o][y]
<1> DEFINE z == s.next[q][p]
           a == WithHead(s, q, z)
<1>1. p \in Proc /\ z \in S \cup {NULL} /\ NULL \in S \cup {NULL}
  BY Members
<1>2. NULL \notin Proc
  BY SchedulerAssumption DEF Proc
<1>3. r = IF a.next[q][p] # NULL THEN WithPrev(a, q, a.next[q][p], a.prev[q][p])
                                  ELSE WithLast(a, q, a.prev[q][p])
  BY DEF Unlink, WithHead, WithLast, WithPrev
<1> HIDE DEF z
<1>4. a \in ListsOver(S) /\ HeadChanged(a, s, q, z)
  BY <1>1, WithEnd
<1> HIDE DEF a
<1>5. a.next = s.next /\ a.prev = s.prev /\ a.last = s.last /\ EndSet(a.head, s.head, q, z)
  BY <1>4 DEF HeadChanged
<1>6. a.next[q][p] = z /\ a.prev[q][p] = NULL
  BY <1>5 DEF z
<1>7. CASE z # NULL
  <2>1. r = WithPrev(a, q, z, NULL) /\ z \in Proc
    BY <1>1, <1>3, <1>6, <1>7
  <2>2. PrevChanged(r, a, q, z, NULL)
    BY <1>1, <1>4, <2>1, WithLink
  <2>3. r.next = s.next /\ r.last = s.last /\ r.head = a.head /\ LinkSet(r.prev, s.prev, q, z, NULL)
    BY <1>5, <2>2 DEF PrevChanged
  <2> QED
    BY <1>5, <1>7, <2>3 DEF z, EndSet, LinkSet
<1>8. CASE z = NULL
  <2>1. r = WithLast(a, q, NULL)
    BY <1>3, <1>6, <1>8
  <2>2. LastChanged(r, a, q, NULL)
    BY <1>1, <1>4, <2>1, WithEnd
  <2>3. r.next = s.next /\ r.prev = s.prev /\ r.head = a.head /\ EndSet(r.last, s.last, q, NULL)
    BY <1>5, <2>2 DEF LastChanged
  <2>4. \A o \in Queue, y \in Proc : ~(o = q /\ y = z)
    BY <1>2, <1>8
  <2> QED
    BY <1>5, <1>8, <2>3, <2>4 DEF z, EndSet
<1> QED
  BY <1>7, <1>8

\* A block is appended.
LEMMA EnqueueFields ==
  ASSUME NEW S \in SUBSET Proc, NEW s \in ListsOver(S), NEW q \in Queue, NEW p \in S,
         ~EnqueueFaults(s, q), NEW r, r = Enqueue(s, q, p)
  PROVE  /\ \A o \in Queue :
              /\ r.head[o] = IF o = q /\ s.head[q] = NULL THEN p ELSE s.head[o]
              /\ r.last[o] = IF o = q THEN p ELSE s.last[o]
         /\ \A o \in Queue, y \in Proc :
              /\ r.next[o][y] =
                   IF o = q /\ s.head[q] # NULL /\ y = s.last[q] THEN p ELSE s.next[o][y]
              /\ r.prev[o][y] =
                   IF o = q /\ s.head[q] # NULL /\ y = p THEN s.last[q] ELSE s.prev[o][y]
<1>0. p \in Proc /\ p \in S \cup {NULL}
  OBVIOUS
<1>1. CASE s.head[q] = NULL
  <2> DEFINE a == WithHead(s, q, p)
  <2>1. r = WithLast(a, q, p)
    BY <1>1 DEF Enqueue, WithHead, WithLast
  <2>2. a \in ListsOver(S) /\ HeadChanged(a, s, q, p)
    BY <1>0, WithEnd
  <2> HIDE DEF a
  <2>3. LastChanged(r, a, q, p)
    BY <1>0, <2>1, <2>2, WithEnd
  <2>4. /\ r.next = s.next /\ r.prev = s.prev
        /\ EndSet(r.head, s.head, q, p) /\ EndSet(r.last, s.last, q, p)
    BY <2>2, <2>3 DEF HeadChanged, LastChanged
  <2> QED
    BY <1>1, <2>4 DEF EndSet
<1>2. CASE s.head[q] # NULL
  <2> DEFINE z == s.last[q]
             a == WithNext(s, q, z, p)
             b == WithPrev(a, q, p, z)
             c == WithLast(b, q, p)
  <2>1. z \in S \cup {NULL} /\ z \in Proc
    BY <1>2, Members DEF EnqueueFaults
  <2>2. r = c
    BY <1>2 DEF Enqueue, WithLast, WithNext, WithPrev
  <2> HIDE DEF z
  <2>3. a \in ListsOver(S) /\ NextChanged(a, s, q, z, p)
    BY <1>0, <2>1, WithLink
  <2> HIDE DEF a
  <2>4. b \in ListsOver(S) /\ PrevChanged(b, a, q, p, z)
    BY <1>0, <2>1, <2>3, WithLink
  <2> HIDE DEF b
  <2>5. LastChanged(c, b, q, p)
    BY <1>0, <2>4, WithEnd
  <2> HIDE DEF c
  <2>6. /\ r.head = s.head /\ EndSet(r.last, s.last, q, p)
        /\ LinkSet(r.next, s.next, q, z, p) /\ LinkSet(r.prev, s.prev, q, p, z)
    BY <2>2, <2>3, <2>4, <2>5 DEF NextChanged, PrevChanged, LastChanged
  <2> QED
    BY <1>2, <2>6 DEF z, EndSet, LinkSet
<1> QED
  BY <1>1, <1>2

-----------------------------------------------------------------------------
\* What is left of a sequence of calls after the first.
LEMMA CallsAfter ==
  ASSUME NEW s \in Seq(KernelCalls), s # << >>
  PROVE  /\ 1 \in DOMAIN s /\ s[1] = Head(s) /\ Head(s) \in KernelCalls
         /\ \A i \in DOMAIN Tail(s) : i \in Nat \ {0} /\ i + 1 \in DOMAIN s /\ Tail(s)[i] = s[i + 1]
<1>1. Len(s) \in Nat /\ DOMAIN s = 1 .. Len(s) /\ Len(s) # 0
  BY LenProperties, EmptySeq
<1>2. /\ Head(s) \in KernelCalls /\ Tail(s) \in Seq(KernelCalls)
      /\ Len(Tail(s)) = Len(s) - 1 /\ \A i \in 1 .. Len(Tail(s)) : Tail(s)[i] = s[i + 1]
  BY HeadTailProperties
<1>3. DOMAIN Tail(s) = 1 .. Len(s) - 1
  BY <1>2, LenProperties
<1> QED
  BY <1>1, <1>2, <1>3

\* The three situations exclude each other.
LEMMA Situations ==
  ASSUME Typed, OneSleepInv
  PROVE  /\ Before => ~Asleep /\ \A k \in 2 .. lastPid : ~Awake(k)
         /\ Asleep => ~Before /\ \A k \in 2 .. lastPid : ~Awake(k)
         /\ lists.head["ready"] \in {0, 1} /\ lists.head["sleep"] \in {0, NULL}
         /\ Asleep <=> lists.head["sleep"] = 0
<1>1. NULL # 0
  BY SchedulerAssumption
<1> QED
  BY <1>1 DEF OneSleepInv, Before, Asleep, Awake

LEMMA OneSleepFirst ==
  ASSUME OneSleep, Init
  PROVE  OneSleepInv
<1>1. 0 \in Proc /\ NULL # 0
  BY SchedulerAssumption DEF Proc
<1>2. Before /\ ~Asleep
  BY <1>1 DEF Init, Before, Asleep, NextInOrder, Queue, kernelProcess
<1>3. \A p \in Proc : lists.next["sleep"][p] = NULL /\ lists.prev["sleep"][p] = NULL
  BY DEF Init, Queue
<1>4. CallsLeft
  <2>1. PICK rip \in Mains : todo = [p \in Proc |-> IF p = 0 THEN Code[rip] ELSE << >>]
    BY DEF Init, kernelProcess
  <2>2. todo[0] = Code[rip] /\ \A p \in Proc \ {0} : todo[p] = << >> /\ DOMAIN todo[p] = {}
    BY <1>1, <2>1
  <2> QED
    BY <1>2, <2>2 DEF CallsLeft, OneSleep, Init
<1>5. Timed
  BY <1>2 DEF Timed, Init
<1> QED
  BY <1>2, <1>3, <1>4, <1>5 DEF OneSleepInv, Init

\* The calls that are left when some thread has made its next one.
LEMMA CreateCalls ==
  ASSUME IInv, OneSleep, OneSleepInv, Create
  PROVE  /\ Creates(Head(todo[current]))
         /\ \A p \in Proc \ {0} : \A i \in DOMAIN todo'[p] : Creates(todo'[p][i])
         /\ IF Before
              THEN \A i, j \in DOMAIN todo'[0] :
                     ~Creates(todo'[0][i]) /\ ~Creates(todo'[0][j]) =>
                       i = j /\ todo'[0][i].op = "sleep"
              ELSE \A i \in DOMAIN todo'[0] : Creates(todo'[0][i])
<1> DEFINE call == Head(todo[current])
<1>1. current \in Proc /\ current \in Created /\ todo[current] \in Seq(KernelCalls)
      /\ call.op = "create" /\ call \in KernelCalls
  BY Calling1 DEF Create, IInv, Linked
<1>2. /\ todo[current] # << >> /\ lastPid \in Proc /\ lastPid \in Nat \ {0} /\ 0 \in Proc
      /\ todo \in [Proc -> Seq(KernelCalls)]
      /\ todo' = [todo EXCEPT ![current] = Tail(@), ![lastPid] = Code[call.rip]]
  BY SchedulerAssumption DEF Create, Calling, IInv, Typed, Proc
<1>3. call.rip \in Rip
  BY <1>1 DEF KernelCalls, Calls
<1>4. lastPid \notin Created /\ current # lastPid
  BY <1>1, <1>2 DEF Created
<1>5. /\ todo'[current] = Tail(todo[current]) /\ todo'[lastPid] = Code[call.rip]
      /\ \A p \in Proc \ {current, lastPid} : todo'[p] = todo[p]
  BY <1>1, <1>2, <1>4
<1>6. /\ 1 \in DOMAIN todo[current] /\ todo[current][1] = call
      /\ \A i \in DOMAIN todo'[current] :
           i \in Nat \ {0} /\ i + 1 \in DOMAIN todo[current] /\ todo'[current][i] = todo[current][i + 1]
  BY <1>1, <1>2, <1>5, CallsAfter
<1>7. lastPid = 1 => current = 0
  BY <1>1 DEF Created
<1>8. CallsLeft
  BY DEF OneSleepInv
<1> HIDE DEF call
<1>9. Creates(call)
  <2>1. CASE current # 0
    BY <1>1, <1>6, <1>8, <2>1 DEF CallsLeft
  <2>2. CASE current = 0 /\ Before /\ lastPid = 1
    BY <1>1, <1>6, <1>8, <2>2 DEF CallsLeft, SleepsLate
  <2>3. CASE current = 0 /\ Before /\ lastPid # 1
    BY <1>1, <1>6, <1>8, <2>3 DEF CallsLeft
  <2>4. CASE current = 0 /\ ~Before
    BY <1>1, <1>6, <1>8, <2>4 DEF CallsLeft
  <2> QED
    BY <2>1, <2>2, <2>3, <2>4
<1>10. \A i \in DOMAIN todo'[lastPid] : Creates(todo'[lastPid][i])
  BY <1>3, <1>5, <1>9 DEF OneSleep, Creates
<1>11. \A p \in Proc \ {0} : \A i \in DOMAIN todo'[p] : Creates(todo'[p][i])
  <2> SUFFICES ASSUME NEW p \in Proc \ {0}, p # lastPid, NEW i \in DOMAIN todo'[p]
               PROVE  Creates(todo'[p][i])
    BY <1>10
  <2>1. CASE p = current
    BY <1>6, <1>8, <2>1 DEF CallsLeft
  <2>2. CASE p # current
    BY <1>5, <1>8, <2>2 DEF CallsLeft
  <2> QED
    BY <2>1, <2>2
<1>12. ASSUME Before, NEW i \in DOMAIN todo'[0], NEW j \in DOMAIN todo'[0],
              ~Creates(todo'[0][i]), ~Creates(todo'[0][j])
       PROVE  i = j /\ todo'[0][i].op = "sleep"
  <2>1. CASE current = 0 /\ lastPid = 1
    <3>1. SleepsLate(todo[0])
      BY <1>8, <1>12, <2>1 DEF CallsLeft
    <3>2. /\ i + 1 \in DOMAIN todo[0] /\ j + 1 \in DOMAIN todo[0] /\ i \in Nat /\ j \in Nat
          /\ ~Creates(todo[0][i + 1]) /\ ~Creates(todo[0][j + 1])
          /\ todo'[0][i] = todo[0][i + 1]
      BY <1>6, <1>12, <2>1
    <3>3. i + 1 = j + 1 /\ todo[0][i + 1].op = "sleep"
      BY <3>1, <3>2 DEF SleepsLate
    <3> QED
      BY <3>2, <3>3
  <2>2. CASE current = 0 /\ lastPid # 1
    <3>1. /\ i + 1 \in DOMAIN todo[0] /\ j + 1 \in DOMAIN todo[0] /\ i \in Nat /\ j \in Nat
          /\ ~Creates(todo[0][i + 1]) /\ ~Creates(todo[0][j + 1])
          /\ todo'[0][i] = todo[0][i + 1]
      BY <1>6, <1>12, <2>2
    <3>2. i + 1 = j + 1 /\ todo[0][i + 1].op = "sleep"
      BY <1>8, <1>12, <2>2, <3>1 DEF CallsLeft
    <3> QED
      BY <3>1, <3>2
  <2>3. CASE current # 0
    <3>1. todo'[0] = todo[0] /\ lastPid # 1
      BY <1>2, <1>5, <1>7, <2>3
    <3> QED
      BY <1>8, <1>12, <3>1 DEF CallsLeft
  <2> QED
    BY <2>1, <2>2, <2>3
<1>13. ASSUME ~Before, NEW i \in DOMAIN todo'[0] PROVE Creates(todo'[0][i])
  <2>1. CASE current = 0
    BY <1>6, <1>8, <1>13, <2>1 DEF CallsLeft
  <2>2. CASE current # 0
    BY <1>2, <1>5, <1>8, <1>13, <2>2 DEF CallsLeft
  <2> QED
    BY <2>1, <2>2
<1> QED
  BY <1>9, <1>11, <1>12, <1>13 DEF call

\* Only the boot thread sleeps, after it has created a thread, and only once.
LEMMA SleepCalls ==
  ASSUME IInv, OneSleepInv, NEW ms \in Delays, Sleep(ms)
  PROVE  /\ Before /\ current = 0 /\ lastPid > 1
         /\ \A p \in Proc : \A i \in DOMAIN todo'[p] : Creates(todo'[p][i])
<1>1. current \in Proc /\ todo[current] \in Seq(KernelCalls) /\ Head(todo[current]).op = "sleep"
  BY Calling1 DEF Sleep
<1>2. /\ todo[current] # << >> /\ 0 \in Proc /\ lastPid \in Nat \ {0}
      /\ todo' = [todo EXCEPT ![current] = Tail(@)] /\ todo \in [Proc -> Seq(KernelCalls)]
  BY SchedulerAssumption DEF Sleep, Calling, IInv, Typed, Proc
<1>3. /\ 1 \in DOMAIN todo[current] /\ ~Creates(todo[current][1])
      /\ \A i \in DOMAIN Tail(todo[current]) :
           /\ i \in Nat \ {0} /\ i + 1 \in DOMAIN todo[current]
           /\ Tail(todo[current])[i] = todo[current][i + 1]
  BY <1>1, <1>2, CallsAfter DEF Creates
<1>4. CallsLeft
  BY DEF OneSleepInv
<1>5. current = 0
  BY <1>1, <1>3, <1>4 DEF CallsLeft
<1>6. Before
  BY <1>3, <1>4, <1>5 DEF CallsLeft
<1>7. lastPid # 1
  <2> SUFFICES ASSUME lastPid = 1 PROVE FALSE
    OBVIOUS
  <2>1. SleepsLate(todo[0])
    BY <1>4, <1>6 DEF CallsLeft
  <2>2. \E j \in 1 .. 1 - 1 : Creates(todo[0][j])
    BY <1>3, <1>5, <2>1 DEF SleepsLate
  <2> QED
    BY <2>2
<1>8. ASSUME NEW i \in DOMAIN Tail(todo[0]) PROVE Creates(Tail(todo[0])[i])
  <2>1. i + 1 \in DOMAIN todo[0] /\ i + 1 # 1 /\ Tail(todo[0])[i] = todo[0][i + 1]
    BY <1>3, <1>5
  <2>2. \A k \in DOMAIN todo[0] : ~Creates(todo[0][k]) => k = 1
    BY <1>3, <1>4, <1>5, <1>6, <1>7 DEF CallsLeft
  <2> QED
    BY <2>1, <2>2
<1>9. todo'[0] = Tail(todo[0]) /\ \A p \in Proc \ {0} : todo'[p] = todo[p]
  BY <1>2, <1>5
<1> QED
  BY <1>2, <1>4, <1>5, <1>6, <1>7, <1>8, <1>9 DEF CallsLeft

\* create appends to the list as it is in each situation.
LEMMA CreateKeeps ==
  ASSUME IInv, OneSleep, OneSleepInv, Create
  PROVE  OneSleepInv' /\ lists'.head = lists.head
<1>1. /\ lastPid \in Nat \ {0} /\ lastPid \in Proc /\ NULL \notin Proc /\ 0 \in Proc
      /\ NULL # 0 /\ Proc \subseteq Nat /\ \A p \in 0 .. lastPid : p \in Proc
      /\ lastPid \in 1 .. MaxProcs
  BY SchedulerAssumption DEF Create, IInv, Typed, Proc
<1>2. /\ lastPid' = lastPid + 1 /\ current' = current /\ irr' = irr /\ handler' = handler
      /\ sleepTime' = sleepTime /\ currentSleep' = currentSleep /\ owed' = owed
      /\ InThread
  BY DEF Create, Calling
<1>3. "ready" \in Queue /\ "sleep" \in Queue
  BY DEF Queue
<1>4. lists.last["ready"] \in 0 .. lastPid - 1 /\ lists.last["ready"] # NULL
  <2>1. lists.last["ready"] \in {lastPid - 1, 0}
    BY DEF OneSleepInv, Before, Asleep, Awake
  <2> QED
    BY <1>1, <2>1
<1>5. lists' = LinkNew(lists, lastPid) /\ fault' = fault
  BY <1>4 DEF Create
<1> DEFINE S == Created \cup {lastPid}
<1>6. S \in SUBSET Proc /\ lists \in ListsOver(S) /\ lastPid \in S
  BY <1>1, Processes, MoreProcesses DEF IInv, Linked
<1> HIDE DEF S
<1>7. /\ lists'.head = lists.head /\ lists'.last["ready"] = lastPid
      /\ \A x \in Proc :
           /\ lists'.next["ready"][x] =
                IF x = lastPid THEN NULL
                ELSE IF x = lists.last["ready"] THEN lastPid ELSE lists.next["ready"][x]
           /\ lists'.prev["ready"][x] =
                IF x = lastPid THEN lists.last["ready"] ELSE lists.prev["ready"][x]
           /\ lists'.next["sleep"][x] = lists.next["sleep"][x]
           /\ lists'.prev["sleep"][x] = lists.prev["sleep"][x]
  BY <1>4, <1>5, <1>6, LinkNewFields
<1>8. Before => Before' /\ ~Asleep'
  BY <1>1, <1>2, <1>7 DEF Before, Asleep, NextInOrder
<1>9. Asleep => Asleep' /\ ~Before'
  BY <1>1, <1>2, <1>7 DEF Before, Asleep, NextInOrder
<1>10. ASSUME NEW k \in 2 .. lastPid, Awake(k)
       PROVE  Awake(k)' /\ ~Before' /\ ~Asleep'
  <2>1. ~Before' /\ ~Asleep'
    BY <1>1, <1>7, <1>10 DEF Before, Asleep, Awake
  <2>2. \A p \in 1 .. lastPid - 1 : p \in Proc /\ p # 0 /\ p # lastPid
    BY <1>1
  <2>3. k \in 2 .. lastPid /\ k - 1 \in 1 .. lastPid - 1 /\ k - 1 < k /\ k - 1 # 0
    BY <1>1
  <2>4. lists'.head["ready"] = 1 /\ lists'.head["sleep"] = NULL
    BY <1>7, <1>10 DEF Awake
  <2>5. CASE lastPid = k
    <3>1. /\ lists.next["ready"][0] = 1 /\ lists.last["ready"] = 0
          /\ lists.next["ready"][k - 1] = 0
          /\ \A p \in 1 .. k - 2 : lists.next["ready"][p] = p + 1
      BY <1>10, <2>3, <2>5 DEF Awake, NextInOrder
    <3>2. \A p \in 1 .. k - 1 : lists'.next["ready"][p] = lists.next["ready"][p]
      BY <1>7, <2>2, <2>5, <3>1
    <3>3. \A p \in 1 .. k - 2 : p \in 1 .. k - 1
      BY <2>3
    <3>4. NextInOrder(1, k - 1)' /\ lists'.next["ready"][k - 1] = 0
      BY <2>3, <3>1, <3>2, <3>3 DEF NextInOrder
    <3>5. /\ lists'.next["ready"][0] = k /\ lists'.next["ready"][k] = NULL
          /\ lists'.last["ready"] = k /\ lastPid' = k + 1
      BY <1>1, <1>2, <1>7, <2>5, <3>1
    <3> QED
      BY <1>1, <2>1, <2>3, <2>4, <3>4, <3>5 DEF Awake, NextInOrder
  <2>6. CASE lastPid # k
    <3>1. /\ lists.next["ready"][0] = k /\ lists.last["ready"] = lastPid - 1
          /\ lists.next["ready"][k - 1] = 0
          /\ \A p \in 1 .. k - 2 : lists.next["ready"][p] = p + 1
          /\ \A p \in k .. lastPid - 2 : lists.next["ready"][p] = p + 1
      BY <1>1, <1>10, <2>3, <2>6 DEF Awake, NextInOrder
    <3>2. /\ \A p \in 1 .. lastPid - 2 : lists'.next["ready"][p] = lists.next["ready"][p]
          /\ lists'.next["ready"][0] = lists.next["ready"][0]
          /\ lists'.next["ready"][lastPid - 1] = lastPid
          /\ lists'.next["ready"][lastPid] = NULL
      BY <1>1, <1>7, <2>2, <2>3, <2>6, <3>1
    <3>3. NextInOrder(1, k - 1)' /\ lists'.next["ready"][k - 1] = 0
      BY <1>1, <2>3, <2>6, <3>1, <3>2 DEF NextInOrder
    <3>4. NextInOrder(k, lastPid - 1)'
      BY <1>1, <2>3, <2>6, <3>1, <3>2, <1>2 DEF NextInOrder
    <3> QED
      BY <1>1, <1>2, <1>7, <2>1, <2>3, <2>4, <2>6, <3>1, <3>2, <3>3, <3>4 DEF Awake, NextInOrder
  <2> QED
    BY <2>5, <2>6
<1>11. \A p \in Proc : lists'.next["sleep"][p] = NULL /\ lists'.prev["sleep"][p] = NULL
  BY <1>7 DEF OneSleepInv
<1>12. CallsLeft'
  <2>1. lastPid' # 1
    BY <1>1, <1>2
  <2>2. Before' <=> Before
    BY <1>8, <1>9, <1>10 DEF OneSleepInv
  <2> QED
    BY <2>1, <2>2, CreateCalls DEF CallsLeft
<1>13. Timed'
  <2>1. Asleep' <=> Asleep
    BY <1>8, <1>9, <1>10 DEF OneSleepInv, Before, Asleep
  <2> QED
    BY <1>2, <1>5, <2>1 DEF OneSleepInv, Timed, InThread
<1>14. Before' \/ Asleep' \/ \E k \in 2 .. lastPid' : Awake(k)'
  <2>1. \A k \in 2 .. lastPid : k \in 2 .. lastPid'
    BY <1>1, <1>2
  <2> QED
    BY <1>8, <1>9, <1>10, <2>1 DEF OneSleepInv
<1> QED
  BY <1>5, <1>7, <1>11, <1>12, <1>13, <1>14 DEF OneSleepInv

\* sleep takes the boot thread out at the front.
LEMMA SleepKeeps ==
  ASSUME IInv, OneSleepInv, NEW ms \in Delays, Sleep(ms)
  PROVE  OneSleepInv' /\ Asleep' /\ current' = 0 /\ handler' = "idle" /\ irr' # {}
<1>1. /\ Before /\ current = 0 /\ lastPid > 1
      /\ \A p \in Proc : \A i \in DOMAIN todo'[p] : Creates(todo'[p][i])
  BY SleepCalls
<1>2. /\ lastPid' = lastPid /\ current' = current /\ handler' = "idle"
      /\ currentSleep' = currentSleep
      /\ sleepTime' = [sleepTime EXCEPT ![0] = ms] /\ owed' = [owed EXCEPT ![0] = ms]
  BY <1>1 DEF Sleep, Calling, InThread
<1>3. /\ "ready" \in Queue /\ "sleep" \in Queue /\ "sleep" # "ready" /\ NULL \notin Proc
      /\ 0 \in Proc /\ 1 \in Proc /\ NULL # 0 /\ NULL # 1 /\ 0 \in Created
      /\ lastPid \in Nat /\ ms \in Nat /\ \A p \in 0 .. lastPid - 1 : p \in Proc
  BY <1>1, SchedulerAssumption DEF Queue, Proc, IInv, Typed, Created
<1>4. Created \in SUBSET Proc /\ lists \in ListsOver(Created)
  BY Processes DEF IInv, Linked
<1>5. PICK u : u = Unlink(lists, "ready", 0)
  OBVIOUS
<1>6. u \in ListsOver(Created)
  BY <1>3, <1>4, <1>5, UnlinkOver
<1>7. lists.prev["ready"][0] = NULL /\ lists.next["ready"][0] = 1
  BY <1>1, <1>3 DEF Before, NextInOrder
<1>8. /\ u.next = lists.next
      /\ u.head["ready"] = 1 /\ u.head["sleep"] = NULL
      /\ u.last["ready"] = lists.last["ready"]
      /\ \A y \in Proc : u.prev["sleep"][y] = lists.prev["sleep"][y]
  <2>1. /\ u.next = lists.next
        /\ \A o \in Queue :
             /\ u.head[o] = IF o = "ready" THEN lists.next["ready"][0] ELSE lists.head[o]
             /\ u.last[o] = IF o = "ready" /\ lists.next["ready"][0] = NULL THEN NULL
                                                                          ELSE lists.last[o]
        /\ \A o \in Queue, y \in Proc :
             u.prev[o][y] = IF o = "ready" /\ y = lists.next["ready"][0] THEN NULL
                                                                      ELSE lists.prev[o][y]
    BY <1>3, <1>4, <1>5, <1>7, UnlinkFields
  <2> QED
    BY <1>1, <1>3, <1>7, <2>1 DEF Before
<1>9. ~EnqueueFaults(u, "sleep")
  BY <1>8 DEF EnqueueFaults
<1>10. lists' = Enqueue(u, "sleep", 0) /\ irr' = scheduler(irr) /\ fault' = fault
  BY <1>1, <1>5, <1>9 DEF Sleep
<1>11. /\ lists'.head["ready"] = 1 /\ lists'.head["sleep"] = 0
       /\ lists'.last["ready"] = lists.last["ready"]
       /\ \A y \in Proc : /\ lists'.next["ready"][y] = lists.next["ready"][y]
                          /\ lists'.next["sleep"][y] = lists.next["sleep"][y]
                          /\ lists'.prev["sleep"][y] = lists.prev["sleep"][y]
  <2>1. /\ \A o \in Queue :
             /\ lists'.head[o] = IF o = "sleep" /\ u.head["sleep"] = NULL THEN 0 ELSE u.head[o]
             /\ lists'.last[o] = IF o = "sleep" THEN 0 ELSE u.last[o]
        /\ \A o \in Queue, y \in Proc :
             /\ lists'.next[o][y] =
                  IF o = "sleep" /\ u.head["sleep"] # NULL /\ y = u.last["sleep"] THEN 0
                                                                             ELSE u.next[o][y]
             /\ lists'.prev[o][y] =
                  IF o = "sleep" /\ u.head["sleep"] # NULL /\ y = 0 THEN u.last["sleep"]
                                                                   ELSE u.prev[o][y]
    BY <1>3, <1>4, <1>6, <1>9, <1>10, EnqueueFields
  <2> QED
    BY <1>3, <1>8, <2>1
<1>12. Asleep' /\ ~Before'
  BY <1>1, <1>2, <1>3, <1>11 DEF Before, Asleep, NextInOrder
<1>13. CallsLeft'
  BY <1>1, <1>3, <1>12 DEF CallsLeft
<1>14. /\ irr' # {} /\ "ipi" \in irr' /\ sleepTime'[0] = ms /\ owed'[0] = ms
  BY <1>2, <1>3, <1>10 DEF scheduler, IInv, Typed
<1>15. handler = "idle" /\ currentSleep = NULL
  BY DEF Sleep, Calling, InThread, OneSleepInv, Timed
<1>16. Timed'
  BY <1>2, <1>3, <1>12, <1>14, <1>15 DEF Timed, InThread
<1>17. \A p \in Proc : lists'.next["sleep"][p] = NULL /\ lists'.prev["sleep"][p] = NULL
  BY <1>11 DEF OneSleepInv
<1> QED
  BY <1>1, <1>2, <1>10, <1>12, <1>13, <1>14, <1>16, <1>17 DEF OneSleepInv

\* The loop looks at the sleeper, and links it behind the others when it is due.
LEMMA WakeKeeps ==
  ASSUME IInv, OneSleepInv, WakeStep
  PROVE  OneSleepInv' /\ Asleep /\ (lists' # lists => ~Asleep' /\ sleepTime[0] = 0)
<1>1. /\ handler = "wake" /\ currentSleep = 0 /\ Asleep /\ current \in Proc
      /\ current \in Created
  BY Processes DEF WakeStep, OneSleepInv, Timed, IInv, Linked
<1>2. /\ lastPid' = lastPid /\ current' = current /\ handler' = handler /\ irr' = irr
      /\ sleepTime' = sleepTime /\ owed' = owed /\ todo' = todo
  BY DEF WakeStep
<1>3. /\ "ready" \in Queue /\ "sleep" \in Queue /\ "sleep" # "ready" /\ NULL \notin Proc
      /\ 0 \in Proc /\ NULL # 0 /\ NULL # 1 /\ 0 \in Created
      /\ lastPid \in Nat /\ lastPid > 1 /\ \A p \in 0 .. lastPid - 1 : p \in Proc
      /\ lastPid - 1 \in Nat /\ lastPid - 1 \in Proc /\ lastPid - 1 # 0
  BY <1>1, SchedulerAssumption DEF Queue, Proc, IInv, Typed, Created, Asleep
<1>4. Created \in SUBSET Proc /\ lists \in ListsOver(Created)
  BY Processes DEF IInv, Linked
<1>5. PICK u : u = Unlink(lists, "sleep", 0)
  OBVIOUS
<1>6. u \in ListsOver(Created)
  BY <1>3, <1>4, <1>5, UnlinkOver
<1>7. /\ u.next = lists.next
      /\ u.head["ready"] = 1 /\ u.head["sleep"] = NULL
      /\ u.last["ready"] = lastPid - 1
      /\ \A y \in Proc : u.prev["sleep"][y] = lists.prev["sleep"][y]
  <2>1. lists.prev["sleep"][0] = NULL /\ lists.next["sleep"][0] = NULL
    BY <1>3 DEF OneSleepInv
  <2>2. /\ u.next = lists.next
        /\ \A o \in Queue :
             /\ u.head[o] = IF o = "sleep" THEN lists.next["sleep"][0] ELSE lists.head[o]
             /\ u.last[o] = IF o = "sleep" /\ lists.next["sleep"][0] = NULL THEN NULL
                                                                          ELSE lists.last[o]
        /\ \A o \in Queue, y \in Proc :
             u.prev[o][y] = IF o = "sleep" /\ y = lists.next["sleep"][0] THEN NULL
                                                                      ELSE lists.prev[o][y]
    BY <1>3, <1>4, <1>5, <2>1, UnlinkFields
  <2> QED
    BY <1>1, <1>3, <2>1, <2>2 DEF Asleep
<1>8. ~EnqueueFaults(u, "ready")
  BY <1>3, <1>7 DEF EnqueueFaults
<1>9. /\ fault' = FALSE
      /\ lists' = IF sleepTime[0] = 0 THEN Enqueue(u, "ready", 0) ELSE lists
      /\ currentSleep' = lists'.next["sleep"][current]
  BY <1>1, <1>5, <1>8 DEF WakeStep, Due, NextSleeper
<1>10. CASE sleepTime[0] = 0
  <2>1. /\ \A o \in Queue :
             /\ lists'.head[o] = IF o = "ready" /\ u.head["ready"] = NULL THEN 0 ELSE u.head[o]
             /\ lists'.last[o] = IF o = "ready" THEN 0 ELSE u.last[o]
        /\ \A o \in Queue, y \in Proc :
             /\ lists'.next[o][y] =
                  IF o = "ready" /\ u.head["ready"] # NULL /\ y = u.last["ready"] THEN 0
                                                                             ELSE u.next[o][y]
             /\ lists'.prev[o][y] =
                  IF o = "ready" /\ u.head["ready"] # NULL /\ y = 0 THEN u.last["ready"]
                                                                   ELSE u.prev[o][y]
    BY <1>3, <1>4, <1>6, <1>8, <1>9, <1>10, EnqueueFields
  <2>2. /\ lists'.head["ready"] = 1 /\ lists'.head["sleep"] = NULL
        /\ lists'.last["ready"] = 0 /\ lists'.next["ready"][lastPid - 1] = 0
        /\ \A y \in Proc \ {lastPid - 1} : lists'.next["ready"][y] = lists.next["ready"][y]
        /\ \A y \in Proc : /\ lists'.next["sleep"][y] = NULL
                           /\ lists'.prev["sleep"][y] = NULL
    BY <1>3, <1>7, <2>1 DEF OneSleepInv
  <2>3. \A p \in 0 .. lastPid - 2 : lists.next["ready"][p] = p + 1
    BY <1>1, <1>3 DEF Asleep, NextInOrder
  <2>4. \A p \in 0 .. lastPid - 2 : lists'.next["ready"][p] = p + 1
    BY <1>3, <2>2, <2>3
  <2>5. Awake(lastPid)' /\ ~Before' /\ ~Asleep'
    BY <1>2, <1>3, <2>2, <2>4 DEF Awake, Before, Asleep, NextInOrder
  <2>6. lastPid \in 2 .. lastPid' /\ Awake(lastPid') = Awake(lastPid)
    BY <1>2, <1>3
  <2>7. CallsLeft'
    BY <1>1, <1>2, <1>3, <2>5 DEF OneSleepInv, CallsLeft, Asleep, Before
  <2>8. currentSleep' = NULL
    BY <1>1, <1>9, <2>2
  <2>9. Timed'
    BY <2>5, <2>8 DEF Timed
  <2>10. \E k \in 2 .. lastPid' : Awake(k)'
    BY <1>2, <2>5, <2>6
  <2> QED
    BY <1>1, <1>9, <1>10, <2>2, <2>5, <2>7, <2>9, <2>10 DEF OneSleepInv
<1>11. CASE sleepTime[0] # 0
  <2>1. lists' = lists /\ currentSleep' = NULL
    BY <1>1, <1>9, <1>11 DEF OneSleepInv
  <2>2. Asleep' /\ ~Before'
    BY <1>1, <1>2, <1>3, <2>1 DEF Asleep, Before, NextInOrder
  <2>3. sleepTime[0] > 0
    BY <1>3, <1>11 DEF IInv, Typed
  <2>4. CallsLeft'
    BY <1>1, <1>2, <1>3, <2>2 DEF OneSleepInv, CallsLeft, Asleep, Before
  <2>5. Timed'
    BY <1>1, <1>2, <2>1, <2>2, <2>3 DEF OneSleepInv, Timed, InThread
  <2>6. \A p \in Proc : lists'.next["sleep"][p] = NULL /\ lists'.prev["sleep"][p] = NULL
    BY <2>1 DEF OneSleepInv
  <2> QED
    BY <1>1, <1>9, <2>1, <2>2, <2>4, <2>5, <2>6 DEF OneSleepInv
<1> QED
  BY <1>10, <1>11

\* The threads that may execute: all but the sleeper.
Runnable == IF Asleep THEN 1 .. lastPid - 1 ELSE 0 .. lastPid - 1

\* What the handler goes on with, in each situation.
InTurn(first, p) == IF p = lastPid - 1 THEN first ELSE p + 1
BehindOthers(k, p) == IF p = 0 THEN IF lastPid = k THEN 1 ELSE k
                      ELSE IF p = k - 1 THEN 0
                      ELSE InTurn(1, p)

LEMMA SuccessorIs ==
  ASSUME Typed, OneSleepInv, NEW p \in Created
  PROVE  /\ Before => Successor(lists, p) = InTurn(0, p)
         /\ Asleep => Successor(lists, p) = InTurn(1, p)
         /\ \A k \in 2 .. lastPid : Awake(k) => Successor(lists, p) = BehindOthers(k, p)
<1>1. /\ lastPid \in Nat \ {0} /\ p \in 0 .. lastPid - 1 /\ \A n \in Nat : n # NULL
  BY SchedulerAssumption DEF Created, Typed
<1>2. ASSUME Before PROVE Successor(lists, p) = InTurn(0, p)
  BY <1>1, <1>2 DEF Before, NextInOrder, Successor, InTurn
<1>3. ASSUME Asleep PROVE Successor(lists, p) = InTurn(1, p)
  BY <1>1, <1>3 DEF Asleep, NextInOrder, Successor, InTurn
<1>4. ASSUME NEW k \in 2 .. lastPid, Awake(k)
      PROVE  Successor(lists, p) = BehindOthers(k, p)
  <2>1. CASE p = 0
    BY <1>1, <1>4, <2>1 DEF Awake, Successor, BehindOthers
  <2>2. CASE p # 0 /\ p = k - 1
    BY <1>1, <1>4, <2>2 DEF Awake, Successor, BehindOthers
  <2>3. CASE p # 0 /\ p < k - 1
    BY <1>1, <1>4, <2>3 DEF Awake, NextInOrder, Successor, BehindOthers, InTurn
  <2>4. CASE p > k - 1
    BY <1>1, <1>4, <2>4 DEF Awake, NextInOrder, Successor, BehindOthers, InTurn
  <2> QED
    BY <1>1, <2>1, <2>2, <2>3, <2>4
<1> QED
  BY <1>2, <1>3, <1>4

LEMMA SuccessorRuns ==
  ASSUME Typed, OneSleepInv, NEW p \in Created
  PROVE  Successor(lists, p) \in Runnable
<1>1. lastPid \in Nat \ {0} /\ p \in 0 .. lastPid - 1
  BY SchedulerAssumption DEF Created, Typed
<1>2. CASE Before
  BY <1>1, <1>2, SuccessorIs, Situations DEF Runnable, InTurn
<1>3. CASE Asleep
  BY <1>1, <1>3, SuccessorIs DEF Runnable, Asleep, InTurn
<1>4. ASSUME NEW k \in 2 .. lastPid, Awake(k) PROVE Successor(lists, p) \in Runnable
  <2>1. ~Asleep
    BY <1>4, Situations
  <2> QED
    BY <1>1, <1>4, <2>1, SuccessorIs DEF Runnable, BehindOthers, InTurn
<1> QED
  BY <1>2, <1>3, <1>4 DEF OneSleepInv

\* Steps that leave the lists as they are leave the situation as it is.
LEMMA SameSituation ==
  ASSUME OneSleepInv, lists' = lists, lastPid' = lastPid, todo' = todo, fault' = fault, Timed'
  PROVE  OneSleepInv'
<1>1. Before' = Before /\ Asleep' = Asleep /\ \A k \in 2 .. lastPid : Awake(k)' = Awake(k)
  BY DEF Before, Asleep, Awake, NextInOrder
<1>2. CallsLeft'
  BY <1>1 DEF OneSleepInv, CallsLeft
<1> QED
  BY <1>1, <1>2 DEF OneSleepInv

LEMMA TickKeeps ==
  ASSUME IInv, OneSleepInv, TimerTick
  PROVE  OneSleepInv'
<1>1. Asleep' = Asleep
  BY DEF TimerTick, Asleep, NextInOrder
<1>2. Timed'
  BY <1>1 DEF TimerTick, OneSleepInv, Timed, InThread
<1> QED
  BY <1>2, SameSituation DEF TimerTick

LEMMA InterruptKeeps ==
  ASSUME IInv, OneSleepInv, Interrupt
  PROVE  OneSleepInv'
<1>1. Asleep' = Asleep
  BY DEF Interrupt, Asleep, NextInOrder
<1>2. 0 \in Proc /\ sleepTime[0] \in Nat /\ owed[0] \in Nat /\ NULL # 0
  BY SchedulerAssumption DEF Proc, IInv, Typed
<1>3. /\ sleepTime'[0] = Less1(sleepTime[0]) /\ irr' = {} /\ handler' = "wake"
      /\ owed'[0] = IF "timer" \in irr THEN Less1(owed[0]) ELSE owed[0]
      /\ currentSleep' = lists.head["sleep"]
  BY <1>2 DEF Interrupt, FirstSleeper
<1>4. "timer" \notin irr => "ipi" \in irr
  BY DEF Interrupt, IInv, Typed
<1>5. ASSUME Asleep PROVE owed'[0] <= sleepTime'[0] + 1
  BY <1>2, <1>3, <1>4, <1>5 DEF OneSleepInv, Timed, Less1
<1>6. currentSleep' # NULL => Asleep /\ currentSleep' = 0
  BY <1>2, <1>3, Situations DEF IInv
<1>7. Asleep => currentSleep' # NULL
  BY <1>2, <1>3 DEF Asleep
<1>8. Timed'
  BY <1>1, <1>3, <1>5, <1>6, <1>7 DEF Timed, InThread
<1> QED
  BY <1>8, SameSituation DEF Interrupt

LEMMA DispatchKeeps ==
  ASSUME IInv, OneSleepInv, Dispatch
  PROVE  OneSleepInv' /\ current' \in Runnable
<1>1. Asleep' = Asleep
  BY DEF Dispatch, Asleep, NextInOrder
<1>2. Successor(lists, current) \in Runnable
  BY SuccessorRuns DEF IInv, Linked
<1>3. Successor(lists, current) # NULL
  <2>1. \A n \in Runnable : n \in Nat
    BY DEF Runnable, IInv, Typed
  <2> QED
    BY <1>2, <2>1, SchedulerAssumption
<1>4. /\ current' = Successor(lists, current) /\ handler' = "idle" /\ fault' = fault
      /\ sleepTime' = sleepTime /\ owed' = owed /\ irr' = irr /\ currentSleep' = NULL
      /\ handler = "wake" /\ currentSleep = NULL
  BY <1>3 DEF Dispatch
<1>5. Asleep => current' # 0
  BY <1>2, <1>4 DEF Runnable
<1>6. Timed'
  BY <1>1, <1>4, <1>5 DEF OneSleepInv, Timed, InThread
<1> QED
  BY <1>2, <1>4, <1>6, SameSituation DEF Dispatch

LEMMA OneSleepNext ==
  ASSUME IInv, OneSleep, OneSleepInv, [Next]_vars
  PROVE  OneSleepInv'
<1>1. CASE Create
  BY <1>1, CreateKeeps
<1>2. ASSUME NEW ms \in Delays, Sleep(ms) PROVE OneSleepInv'
  BY <1>2, SleepKeeps
<1>3. CASE TimerTick
  BY <1>3, TickKeeps
<1>4. CASE Interrupt
  BY <1>4, InterruptKeeps
<1>5. CASE WakeStep
  BY <1>5, WakeKeeps
<1>6. CASE Dispatch
  BY <1>6, DispatchKeeps
<1>7. CASE UNCHANGED vars
  <2>1. Timed'
    BY <1>7 DEF vars, OneSleepInv, Timed, Asleep, NextInOrder, InThread
  <2> QED
    BY <1>7, <2>1, SameSituation DEF vars
<1> QED
  BY <1>1, <1>2, <1>3, <1>4, <1>5, <1>6, <1>7 DEF Next, ThreadStep

LEMMA OneSleepInductive == OneSleep /\ Spec => [](IInv /\ OneSleepInv)
<1> SUFFICES ASSUME OneSleep PROVE Spec => [](IInv /\ OneSleepInv)
  OBVIOUS
<1>1. Init => IInv /\ OneSleepInv
  BY InitInv, OneSleepFirst
<1>2. IInv /\ OneSleepInv /\ [Next]_vars => (IInv /\ OneSleepInv)'
  BY StepInv, OneSleepNext
<1> QED
  BY <1>1, <1>2, PTL DEF Spec

-----------------------------------------------------------------------------
\* A set of numbers that is not empty has a least one.
LEMMA Least ==
  ASSUME NEW T \in SUBSET Nat, T # {}
  PROVE  \E x \in T : \A y \in T : x <= y
<1> DEFINE Lt == {s \in Nat \X Nat : s[1] < s[2]}
<1>1. IsWellFoundedOn(Lt, Nat)
  BY NatLessThanWellFounded DEF OpToRel
<1>2. PICK x \in T : \A y \in T : << y, x >> \notin Lt
  BY <1>1, WFMin
<1>3. \A y \in T : ~(y < x)
  BY <1>2
<1> QED
  BY <1>3

\* A set that holds, with each number in a .. b below b, the next one.
Climbs(S, a, b) == \A x \in a .. b - 1 : x \in S => x + 1 \in S

LEMMA Climb ==
  ASSUME NEW S, NEW a \in Nat, NEW b \in Nat, Climbs(S, a, b), NEW c \in a .. b, c \in S
  PROVE  c .. b \subseteq S /\ b \in S
<1> DEFINE T == (c .. b) \ S
<1>1. ASSUME T # {} PROVE FALSE
  <2>1. T \in SUBSET Nat
    OBVIOUS
  <2>2. PICK x \in T : \A y \in T : x <= y
    BY <1>1, <2>1, Least
  <2>3. x # c /\ x - 1 \in c .. b /\ x - 1 \in a .. b - 1 /\ x - 1 \notin T
    BY <2>2
  <2>4. x - 1 \in S
    BY <2>3
  <2>5. x - 1 + 1 \in S
    BY <2>3, <2>4 DEF Climbs
  <2> QED
    BY <2>2, <2>5
<1>2. b \in c .. b
  OBVIOUS
<1> QED
  BY <1>1, <1>2

\* What a walk meets: T, if T is closed and holds the start, and the walk
\* misses none of it.
ClosedFrom(S, start, succ) ==
  start \in S \cup {NULL} /\ \A x \in S : succ[x] \in S \cup {NULL}

LEMMA WalkIs ==
  ASSUME NEW start, NEW succ, NEW T \in SUBSET Proc, ClosedFrom(T, start, succ),
         \A S \in SUBSET Proc : ClosedFrom(S, start, succ) => T \subseteq S
  PROVE  Walk(start, succ) = T
BY DEF Walk, ClosedFrom

\* At most the boot thread sleeps.
LEMMA SleepingIs ==
  ASSUME IInv, OneSleepInv
  PROVE  Sleeping = IF Asleep THEN {0} ELSE {}
<1>1. 0 \in Proc /\ NULL # 0 /\ NULL \notin Proc
  BY SchedulerAssumption DEF Proc
<1>2. \A p \in Proc : lists.next["sleep"][p] = NULL
  BY DEF OneSleepInv
<1>3. CASE Asleep
  <2>1. lists.head["sleep"] = 0
    BY <1>3 DEF Asleep
  <2>2. ClosedFrom({0}, 0, lists.next["sleep"])
    BY <1>1, <1>2 DEF ClosedFrom
  <2>3. \A S \in SUBSET Proc : ClosedFrom(S, 0, lists.next["sleep"]) => {0} \subseteq S
    BY <1>1 DEF ClosedFrom
  <2>4. {0} \in SUBSET Proc
    BY <1>1
  <2>5. Walk(0, lists.next["sleep"]) = {0}
    BY <2>2, <2>3, <2>4, WalkIs
  <2> QED
    BY <1>3, <2>1, <2>5 DEF Sleeping
<1>4. CASE ~Asleep
  <2>1. lists.head["sleep"] = NULL
    BY <1>4, Situations DEF IInv
  <2>2. ClosedFrom({}, NULL, lists.next["sleep"])
    BY DEF ClosedFrom
  <2>3. Walk(NULL, lists.next["sleep"]) = {}
    BY <2>2, WalkIs
  <2> QED
    BY <1>4, <2>1, <2>3 DEF Sleeping
<1> QED
  BY <1>3, <1>4

\* The same of the state after a step.
AsleepIffSleeping ==
  (Sleeping = IF Asleep THEN {0} ELSE {}) /\ (Asleep <=> lists.head["sleep"] = 0)

LEMMA SleepingAfter == (IInv /\ OneSleepInv)' => AsleepIffSleeping'
<1>1. IInv /\ OneSleepInv => AsleepIffSleeping
  BY SleepingIs, Situations DEF IInv, AsleepIffSleeping
<1> QED
  BY <1>1, PTL

\* The rotation comes round to every thread that may execute, from any one.
LEMMA RotationIs ==
  ASSUME IInv, OneSleepInv
  PROVE  Rotation = Runnable
<1>1. /\ lastPid \in Nat \ {0} /\ Created \in SUBSET Proc /\ current \in Created
      /\ \A p \in Runnable : p \in Created /\ p \in Nat
      /\ \A n \in Nat : n # NULL
  <2>1. Typed /\ current \in Created
    BY DEF IInv, Linked
  <2>2. lastPid \in Nat \ {0}
    BY <2>1, SchedulerAssumption DEF Typed
  <2>3. \A p \in Runnable : p \in Created /\ p \in Nat
    BY <2>2 DEF Runnable, Created
  <2> QED
    BY <2>1, <2>2, <2>3, Processes, SchedulerAssumption
<1> DEFINE start == Successor(lists, current)
           succ  == [p \in Proc |-> Successor(lists, p)]
<1>2. start \in Runnable /\ \A x \in Runnable : succ[x] \in Runnable
  BY <1>1, SuccessorRuns DEF IInv
<1>3. \A x \in Created : succ[x] = Successor(lists, x)
  BY <1>1
<1> HIDE DEF start, succ
<1>4. ASSUME NEW S \in SUBSET Proc, ClosedFrom(S, start, succ)
      PROVE  Runnable \subseteq S
  <2>1. start \in S /\ start \in Runnable
    BY <1>1, <1>2, <1>4 DEF ClosedFrom
  <2>2. \A x \in Runnable : x \in S => Successor(lists, x) \in S
    BY <1>1, <1>2, <1>3, <1>4 DEF ClosedFrom
  <2>3. CASE Before
    <3>1. ~Asleep /\ Runnable = 0 .. lastPid - 1 /\ lastPid - 1 \in Nat
      BY <1>1, <2>3, Situations DEF IInv, Runnable
    <3>2. \A x \in 0 .. lastPid - 1 : x \in S => InTurn(0, x) \in S
      BY <1>1, <2>2, <2>3, <3>1, SuccessorIs DEF IInv
    <3>3. Climbs(S, 0, lastPid - 1)
      BY <1>1, <3>1, <3>2 DEF InTurn, Climbs
    <3>4. lastPid - 1 \in S
      BY <2>1, <3>1, <3>3, Climb
    <3>5. 0 \in S
      BY <3>1, <3>2, <3>4 DEF InTurn
    <3>6. 0 \in 0 .. lastPid - 1
      BY <3>1
    <3> QED
      BY <3>1, <3>3, <3>5, <3>6, Climb
  <2>4. CASE Asleep
    <3>1. Runnable = 1 .. lastPid - 1 /\ lastPid - 1 \in Nat /\ 1 \in 1 .. lastPid - 1
      BY <1>1, <2>4 DEF Runnable, Asleep
    <3>2. \A x \in 1 .. lastPid - 1 : x \in S => InTurn(1, x) \in S
      BY <1>1, <2>2, <2>4, <3>1, SuccessorIs DEF IInv
    <3>3. Climbs(S, 1, lastPid - 1)
      BY <1>1, <3>1, <3>2 DEF InTurn, Climbs
    <3>4. lastPid - 1 \in S
      BY <2>1, <3>1, <3>3, Climb
    <3>5. 1 \in S
      BY <3>1, <3>2, <3>4 DEF InTurn
    <3> QED
      BY <3>1, <3>3, <3>5, Climb
  <2>5. ASSUME NEW k \in 2 .. lastPid, Awake(k) PROVE Runnable \subseteq S
    <3>1. /\ Runnable = 0 .. lastPid - 1 /\ lastPid - 1 \in Nat
          /\ k \in Nat /\ k - 1 \in Nat /\ 1 \in 1 .. k - 1 /\ k - 1 <= lastPid - 1
          /\ k - 1 # 0
      BY <1>1, <2>5, Situations DEF IInv, Runnable
    <3>2. \A x \in 0 .. lastPid - 1 : x \in S => BehindOthers(k, x) \in S
      <4> SUFFICES ASSUME NEW x \in 0 .. lastPid - 1, x \in S
                   PROVE  BehindOthers(k, x) \in S
        OBVIOUS
      <4>1. Successor(lists, x) \in S /\ x \in Created
        BY <1>1, <2>2, <3>1
      <4> QED
        BY <2>5, <4>1, SuccessorIs DEF IInv
    <3>3. Climbs(S, 1, k - 1)
      BY <1>1, <3>1, <3>2 DEF BehindOthers, InTurn, Climbs
    <3>4. Climbs(S, k, lastPid - 1)
      BY <1>1, <3>1, <3>2 DEF BehindOthers, InTurn, Climbs
    <3>5. k - 1 \in S => 0 \in S
      BY <1>1, <3>1, <3>2 DEF BehindOthers
    <3>6. 0 \in S => IF lastPid = k THEN 1 \in S ELSE k \in S
      BY <1>1, <3>1, <3>2 DEF BehindOthers
    <3>7. lastPid # k /\ lastPid - 1 \in S => 1 \in S
      BY <1>1, <3>1, <3>2 DEF BehindOthers, InTurn
    <3>8. ASSUME NEW a \in k .. lastPid - 1, a \in S PROVE lastPid - 1 \in S /\ 1 \in S
      <4>1. lastPid - 1 \in S
        BY <3>1, <3>4, <3>8, Climb
      <4> QED
        BY <3>1, <3>7, <3>8, <4>1
    <3>9. ASSUME NEW a \in 1 .. k - 1, a \in S PROVE 0 \in S
      BY <3>1, <3>3, <3>5, <3>9, Climb
    <3>10. lastPid # k => k \in k .. lastPid - 1
      BY <1>1, <3>1
    <3>11. 0 \in S => 1 \in S
      BY <3>6, <3>8, <3>10
    <3>12. start = 0 \/ start \in 1 .. k - 1 \/ start \in k .. lastPid - 1
      BY <2>1, <3>1
    <3>13. 0 \in S /\ 1 \in S
      BY <2>1, <3>1, <3>8, <3>9, <3>11, <3>12
    <3>14. 1 .. k - 1 \subseteq S
      BY <3>1, <3>3, <3>13, Climb
    <3>15. k .. lastPid - 1 \subseteq S
      <4>1. CASE lastPid = k
        BY <3>1, <4>1
      <4>2. CASE lastPid # k
        BY <3>1, <3>4, <3>6, <3>10, <3>13, <4>2, Climb
      <4> QED
        BY <4>1, <4>2
    <3>16. \A x \in 0 .. lastPid - 1 : x = 0 \/ x \in 1 .. k - 1 \/ x \in k .. lastPid - 1
      BY <3>1
    <3> QED
      BY <3>1, <3>13, <3>14, <3>15, <3>16
  <2> QED
    BY <2>3, <2>4, <2>5 DEF OneSleepInv
<1>5. Runnable \in SUBSET Proc
  BY <1>1
<1>6. ClosedFrom(Runnable, start, succ)
  BY <1>2 DEF ClosedFrom
<1>7. Walk(start, succ) = Runnable
  BY <1>4, <1>5, <1>6, WalkIs
<1> QED
  BY <1>7 DEF Rotation, start, succ

-----------------------------------------------------------------------------
\* The end pointer create and the handler store through is never null
\* (Process.cpp:59-63, 94, Idt.cpp:72), nor is the thread the handler goes on
\* with (Idt.cpp:80-88).
THEOREM NoFault == OneSleep /\ Spec => []NoNullDereference
<1>1. OneSleepInv => NoNullDereference
  BY DEF OneSleepInv, NoNullDereference
<1> QED
  BY <1>1, OneSleepInductive, PTL

\* The link sleep leaves in the block it takes out (Process.cpp:89-97), which
\* the handler keeps when it appends the block again (Idt.cpp:70-75), leads on
\* to the others: every thread that is not asleep has its turn, and no sleeper
\* has one.
THEOREM EveryRunnableHasItsTurn == OneSleep /\ Spec => []RotationIsRunnable
<1>1. IInv /\ OneSleepInv => RotationIsRunnable
  <2> SUFFICES ASSUME IInv, OneSleepInv PROVE Rotation = Created \ Sleeping
    BY DEF RotationIsRunnable
  <2>1. lastPid \in Nat
    BY DEF IInv, Typed
  <2>2. Runnable = Created \ Sleeping
    BY <2>1, SleepingIs DEF Runnable, Created
  <2> QED
    BY <2>2, RotationIs
<1> QED
  BY <1>1, OneSleepInductive, PTL

\* The interrupt that makes the sleeper due also wakes it (Idt.cpp:47-78).
THEOREM WokenWhenDue == OneSleep /\ Spec => []NoneOverdue
<1>1. IInv /\ OneSleepInv => NoneOverdue
  BY SleepingIs DEF OneSleepInv, Timed, NoneOverdue
<1> QED
  BY <1>1, OneSleepInductive, PTL

\* Only the interrupt sleep sends itself is counted beside the timer's
\* (Process.cpp:99, Idt.cpp:45): the sleeper has slept its ticks but one.
THEOREM OneTickEarly == OneSleep /\ Spec => AtMostOneTickEarly
<1> SUFFICES ASSUME OneSleep PROVE Spec => AtMostOneTickEarly
  OBVIOUS
<1>1. ASSUME IInv, OneSleepInv, [Next]_vars, IInv', OneSleepInv',
             NEW p \in Proc, p \in Sleeping, p \notin Sleeping'
      PROVE  owed[p] <= 1
  <2>1. Asleep /\ p = 0 /\ lists.head["sleep"] = 0
    BY <1>1, SleepingIs DEF Asleep
  <2>2. Sleeping' = IF Asleep' THEN {0} ELSE {}
    BY <1>1, SleepingAfter DEF AsleepIffSleeping
  <2>3. ~Asleep' /\ lists'.head["sleep"] # lists.head["sleep"]
    BY <1>1, <2>1, <2>2, SleepingAfter DEF AsleepIffSleeping
  <2>4. CASE Create
    BY <1>1, <2>3, <2>4, CreateKeeps
  <2>5. ASSUME NEW ms \in Delays, Sleep(ms) PROVE FALSE
    BY <1>1, <2>3, <2>5, SleepKeeps
  <2>6. CASE WakeStep
    <3>1. sleepTime[0] = 0
      BY <1>1, <2>3, <2>6, WakeKeeps
    <3>2. 0 \in Proc /\ owed[0] \in Nat
      BY <1>1, <2>1 DEF IInv, Typed
    <3> QED
      BY <1>1, <2>1, <3>1, <3>2 DEF OneSleepInv, Timed
  <2>7. CASE TimerTick \/ Interrupt \/ Dispatch \/ UNCHANGED vars
    BY <2>3, <2>7 DEF TimerTick, Interrupt, Dispatch, vars
  <2> QED
    BY <1>1, <2>4, <2>5, <2>6, <2>7 DEF Next, ThreadStep
<1>2. IInv /\ OneSleepInv /\ (IInv /\ OneSleepInv)' /\ [Next]_vars
        => [\A p \in Proc : (p \in Sleeping /\ p \notin Sleeping') => owed[p] <= 1]_vars
  BY <1>1
<1> QED
  BY <1>2, OneSleepInductive, PTL DEF Spec, AtMostOneTickEarly

-----------------------------------------------------------------------------
\* What Threads knows of each thread.
StateOf(p) == IF p \notin Created THEN "none"
              ELSE IF Asleep /\ p = 0 THEN "asleep"
              ELSE "runnable"
MappedState == [p \in Proc |-> IF p \notin Created THEN "none"
                               ELSE IF p \in Sleeping THEN "asleep"
                               ELSE "runnable"]
StateIsMapped == MappedState = [p \in Proc |-> StateOf(p)]

LEMMA StatesNow == IInv /\ OneSleepInv => StateIsMapped
BY SleepingIs DEF StateIsMapped, MappedState, StateOf

LEMMA StatesAfter == (IInv /\ OneSleepInv)' => StateIsMapped'
BY StatesNow, PTL

LEMMA StepsOfThreads ==
  ASSUME IInv, OneSleep, OneSleepInv, [Next]_vars, IInv', OneSleepInv'
  PROVE  [Abstract!Next]_(Abstract!vars)
<1>1. /\ MappedState = [p \in Proc |-> StateOf(p)]
      /\ MappedState' = [p \in Proc |-> StateOf(p)']
      /\ Asleep <=> lists.head["sleep"] = 0
      /\ Asleep' <=> lists'.head["sleep"] = 0
  BY StatesNow, StatesAfter, Situations, SleepingAfter
     DEF StateIsMapped, AsleepIffSleeping, IInv
<1>2. /\ 0 \in Proc /\ Created \subseteq Proc /\ current \in Created
      /\ lastPid \in Nat \ {0}
  <2>1. Typed /\ current \in Created
    BY DEF IInv, Linked
  <2>2. lastPid \in Nat \ {0} /\ 0 \in Proc
    BY <2>1, SchedulerAssumption DEF Typed, Proc
  <2> QED
    BY <2>1, <2>2, Processes
<1>3. CASE Create
  <2>1. /\ lastPid' = lastPid + 1 /\ current' = current /\ lastPid \in Proc
        /\ lists'.head = lists.head
    <3>1. lastPid < MaxProcs /\ lastPid' = lastPid + 1 /\ current' = current
      BY <1>3 DEF Create
    <3>2. lastPid \in Proc
      BY <1>2, <3>1, SchedulerAssumption DEF Proc
    <3> QED
      BY <1>3, <3>1, <3>2, CreateKeeps
  <2>2. Asleep => current # 0
    BY <1>3 DEF Create, Calling, OneSleepInv, Timed
  <2>3. \A p \in Proc : StateOf(p)' = IF p = lastPid THEN "runnable" ELSE StateOf(p)
    BY <1>1, <1>2, <2>1 DEF StateOf, Created, Proc
  <2>4. StateOf(lastPid) = "none" /\ StateOf(current) = "runnable"
    BY <1>2, <2>2 DEF StateOf, Created
  <2>5. MappedState' = [MappedState EXCEPT ![lastPid] = "runnable"]
    BY <1>1, <2>1, <2>3
  <2>6. PICK n \in Proc : n = lastPid
    BY <2>1
  <2>7. Abstract!Create(n)
    BY <1>1, <1>2, <2>1, <2>4, <2>5, <2>6 DEF Abstract!Create, MappedState
  <2> QED
    BY <2>7 DEF Abstract!Next
<1>4. ASSUME NEW ms \in Delays, Sleep(ms) PROVE Abstract!Next
  <2>1. Before /\ current = 0 /\ Asleep' /\ lastPid' = lastPid /\ current' = current
    BY <1>4, SleepCalls, SleepKeeps DEF Sleep
  <2>2. ~Asleep
    BY <2>1, Situations DEF IInv
  <2>3. StateOf(0) = "runnable" /\ \A p \in Proc : StateOf(p)' = IF p = 0 THEN "asleep" ELSE StateOf(p)
    BY <1>2, <2>1, <2>2 DEF StateOf, Created
  <2>4. MappedState' = [MappedState EXCEPT ![0] = "asleep"]
    BY <1>1, <1>2, <2>3
  <2>5. Abstract!Sleep
    BY <1>1, <1>2, <2>1, <2>3, <2>4 DEF Abstract!Sleep, MappedState
  <2> QED
    BY <2>5 DEF Abstract!Next
<1>5. CASE WakeStep
  <2>1. lastPid' = lastPid /\ current' = current /\ Asleep
    BY <1>5, WakeKeeps DEF WakeStep
  <2>2. CASE lists' = lists
    <3>1. \A p \in Proc : StateOf(p)' = StateOf(p)
      BY <1>1, <2>1, <2>2 DEF StateOf, Created
    <3>2. MappedState' = MappedState
      BY <1>1, <3>1
    <3> QED
      BY <2>1, <3>2 DEF Abstract!vars, MappedState
  <2>3. CASE lists' # lists
    <3>1. ~Asleep'
      BY <1>5, <2>3, WakeKeeps
    <3>2. 0 \in Created
      BY <1>2 DEF Created
    <3>3. StateOf(0) = "asleep" /\ \A p \in Proc : StateOf(p)' = IF p = 0 THEN "runnable" ELSE StateOf(p)
      BY <2>1, <3>1, <3>2 DEF StateOf, Created
    <3>4. MappedState' = [MappedState EXCEPT ![0] = "runnable"]
      BY <1>1, <1>2, <3>3
    <3>5. Abstract!Wake(0)
      BY <1>1, <1>2, <2>1, <3>3, <3>4 DEF Abstract!Wake, MappedState
    <3> QED
      BY <1>2, <3>5 DEF Abstract!Next
  <2> QED
    BY <2>2, <2>3
<1>6. CASE Dispatch
  <2>1. current' \in Runnable /\ lists' = lists /\ lastPid' = lastPid
    BY <1>6, DispatchKeeps DEF Dispatch
  <2>2. \A p \in Proc : StateOf(p)' = StateOf(p)
    BY <1>1, <2>1 DEF StateOf, Created
  <2>3. MappedState' = MappedState
    BY <1>1, <2>2
  <2>4. current' \in Created /\ (Asleep => current' # 0)
    BY <1>2, <2>1 DEF Runnable, Created
  <2>5. current' \in Proc /\ StateOf(current') = "runnable"
    BY <1>2, <2>4 DEF StateOf
  <2>6. Abstract!Switch(current')
    BY <1>1, <2>3, <2>5 DEF Abstract!Switch, MappedState
  <2> QED
    BY <2>5, <2>6 DEF Abstract!Next
<1>7. CASE TimerTick \/ Interrupt \/ UNCHANGED vars
  <2>1. current' = current /\ lists' = lists /\ lastPid' = lastPid
    BY <1>7 DEF TimerTick, Interrupt, vars
  <2>2. \A p \in Proc : StateOf(p)' = StateOf(p)
    BY <1>1, <2>1 DEF StateOf, Created
  <2>3. MappedState' = MappedState
    BY <1>1, <2>2
  <2> QED
    BY <2>1, <2>3 DEF Abstract!vars, MappedState
<1> QED
  BY <1>3, <1>4, <1>5, <1>6, <1>7 DEF Next, ThreadStep

\* create, sleep and the handler run Threads: a thread that is asleep is
\* neither switched to nor creates others, and is woken before it goes on
\* (Process.cpp:34-101, Idt.cpp:43-88).  (That none is forgotten, the fairness of
\* Threads, is checked.)
THEOREM RunsThreads == OneSleep /\ Spec => Abstract!Init /\ [][Abstract!Next]_(Abstract!vars)
<1> SUFFICES ASSUME OneSleep
             PROVE  Spec => Abstract!Init /\ [][Abstract!Next]_(Abstract!vars)
  OBVIOUS
<1>1. Init => Abstract!Init
  <2> SUFFICES ASSUME Init PROVE Abstract!Init
    OBVIOUS
  <2>1. IInv /\ OneSleepInv /\ ~Asleep /\ Created = {0} /\ 0 \in Proc
    <3>1. lastPid = 1 /\ 0 \in Proc
      BY SchedulerAssumption DEF Init, Proc
    <3> QED
      BY <3>1, InitInv, OneSleepFirst DEF Asleep, Created
  <2>2. \A p \in Proc : StateOf(p) = IF p = 0 THEN "runnable" ELSE "none"
    BY <2>1 DEF StateOf
  <2>3. MappedState = [p \in Proc |-> IF p = 0 THEN "runnable" ELSE "none"]
    BY <2>1, <2>2, StatesNow DEF StateIsMapped
  <2> QED
    BY <2>3 DEF Init, Abstract!Init, MappedState, kernelProcess
<1>2. IInv /\ OneSleepInv /\ (IInv /\ OneSleepInv)' /\ [Next]_vars => [Abstract!Next]_(Abstract!vars)
  BY StepsOfThreads
<1> QED
  BY <1>1, <1>2, OneSleepInductive, PTL DEF Spec

=============================================================================
