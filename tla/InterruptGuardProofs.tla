------------------------ MODULE InterruptGuardProofs ------------------------
(***************************************************************************)
(* Proofs about InterruptGuard for any set of threads and any nesting      *)
(* depth: types, mutual exclusion, interrupts restored, and that every     *)
(* step is one of CriticalSection.                                         *)
(***************************************************************************)
EXTENDS InterruptGuard, SequenceTheorems, TLAPS

\* Why the guards exclude each other: whoever is inside runs with interrupts
\* off, so that the handler cannot take the CPU from it.
OnlyCurrentInside ==
  /\ \A t \in Thread : t # current => guards[t] = << >>
  /\ guards[current] # << >> => interrupts = 0 /\ handler = 0

HandlerAlone ==
  /\ handler \in {0, 1}
  /\ handler > 0 => interrupts = 0

\* Boot: nothing has turned interrupts on, so no guard has seen them on.
BootInv ==
  phase # "threads" =>
    /\ interrupts = 0
    /\ handler = 0
    /\ current = Boot
    /\ created = {Boot}
    /\ constructing \subseteq {Boot}
    /\ Boot \in constructing => image[Boot] = 0
    /\ \A i \in 1 .. Len(guards[Boot]) : guards[Boot][i] = 0

\* Threads: the outermost guard has seen interrupts on and the inner ones
\* off, and whoever is off the CPU resumes with interrupts on.
ThreadsInv ==
  phase = "threads" =>
    /\ (handler = 0 /\ guards[current] = << >>) => interrupts = 1
    /\ guards[current] # << >> =>
         /\ guards[current][1] = 1
         /\ \A i \in 2 .. Len(guards[current]) : guards[current][i] = 0
    /\ \A t \in created : (t # current \/ handler > 0) => saved[t] = 1
    /\ \A t \in constructing :
         image[t] = IF guards[t] = << >> THEN 1 ELSE 0

IInv ==
  /\ TypeOK
  /\ OnlyCurrentInside
  /\ HandlerAlone
  /\ BootInv
  /\ ThreadsInv

-----------------------------------------------------------------------------
\* The stack of a guard object's rflags: what a constructor pushes ...
LEMMA Pushed ==
  ASSUME NEW s \in Seq(Bit), NEW b \in Bit
  PROVE  /\ Append(s, b) \in Seq(Bit)
         /\ Append(s, b) # << >>
         /\ Len(Append(s, b)) = Len(s) + 1
         /\ Append(s, b)[Len(s) + 1] = b
         /\ \A i \in 1 .. Len(s) : Append(s, b)[i] = s[i]
BY AppendProperties

\* ... and what a destructor pops.
LEMMA Popped ==
  ASSUME NEW s \in Seq(Bit), s # << >>
  PROVE  LET p == SubSeq(s, 1, Len(s) - 1)
         IN  /\ Len(s) \in Nat \ {0}
             /\ s[Len(s)] \in Bit
             /\ p \in Seq(Bit)
             /\ Len(p) = Len(s) - 1
             /\ (p = << >>) <=> Len(s) = 1
             /\ \A i \in 1 .. Len(p) : p[i] = s[i]
<1>1. Len(s) \in Nat \ {0} /\ s[Len(s)] \in Bit
  BY EmptySeq, LenProperties, ElementOfSeq
<1>2. \A i \in 1 .. Len(s) - 1 : s[i] \in Bit
  BY <1>1, ElementOfSeq
<1>3. SubSeq(s, 1, Len(s) - 1) \in Seq(Bit)
  BY <1>1, <1>2, SubSeqProperties
<1>4. Len(SubSeq(s, 1, Len(s) - 1)) = Len(s) - 1
  <2> DEFINE n == Len(s) - 1
  <2>1. n \in Nat
    BY <1>1
  <2>2. Len(SubSeq(s, 1, n)) = IF 1 <= n THEN n - 1 + 1 ELSE 0
    <3> HIDE DEF n
    <3> QED BY <1>2, <2>1, SubSeqProperties DEF n
  <2> HIDE DEF n
  <2>3. Len(SubSeq(s, 1, n)) = n
    BY <2>1, <2>2
  <2> QED BY <2>3 DEF n
<1>5. \A i \in 1 .. Len(s) - 1 : SubSeq(s, 1, Len(s) - 1)[i] = s[i]
  BY <1>1, <1>2, SubSeqProperties
<1>6. (SubSeq(s, 1, Len(s) - 1) = << >>) <=> Len(s) = 1
  <2> DEFINE p == SubSeq(s, 1, Len(s) - 1)
  <2>1. Len(p) = Len(s) - 1 /\ p \in Seq(Bit)
    BY <1>3, <1>4
  <2>2. Len(<< >>) = 0 /\ (p # << >> => Len(p) \in Nat \ {0})
    BY <2>1, EmptySeq
  <2> HIDE DEF p
  <2>3. p = << >> <=> Len(s) = 1
    BY <1>1, <2>1, <2>2
  <2> QED BY <2>3 DEF p
<1> QED BY <1>1, <1>3, <1>4, <1>5, <1>6

-----------------------------------------------------------------------------
\* IInv holds when kmain starts.
LEMMA InitIInv == Init => IInv
<1> SUFFICES ASSUME Init PROVE IInv
  OBVIOUS
<1> USE GuardAssumption DEF Init
<1>1. \A t \in Thread : guards[t] = << >> /\ guards[t] \in Seq(Bit)
  BY EmptySeq
<1>2. TypeOK
  BY <1>1 DEF TypeOK, Bit
<1>3. Len(guards[Boot]) = 0
  BY <1>1, EmptySeq
<1>4. BootInv
  BY <1>3 DEF BootInv
<1>5. OnlyCurrentInside /\ HandlerAlone /\ ThreadsInv
  BY <1>1 DEF OnlyCurrentInside, HandlerAlone, ThreadsInv
<1> QED BY <1>2, <1>4, <1>5 DEF IInv

\* pushfq: a thread in no guard reads IF on, one inside a guard reads it off.
LEMMA StepLoadRflags == IInv /\ LoadRflags => IInv'
<1> SUFFICES ASSUME IInv, LoadRflags PROVE IInv'
  OBVIOUS
<1> USE DEF IInv, LoadRflags, InThread
<1>1. TypeOK'
  BY DEF TypeOK
<1>2. OnlyCurrentInside' /\ HandlerAlone'
  BY DEF OnlyCurrentInside, HandlerAlone
<1>3. BootInv'
  BY DEF BootInv, TypeOK
<1>4. ThreadsInv'
  <2>1. image'[current] = interrupts
    BY DEF TypeOK
  <2>2. phase = "threads" =>
          interrupts = IF guards[current] = << >> THEN 1 ELSE 0
    BY DEF ThreadsInv, OnlyCurrentInside
  <2>3. \A t \in constructing : t # current => image'[t] = image[t]
    BY DEF TypeOK
  <2> QED BY <2>1, <2>2, <2>3 DEF ThreadsInv
<1> QED BY <1>1, <1>2, <1>3, <1>4

\* cli: the new innermost guard holds what pushfq has read.
LEMMA StepClearInterrupts == IInv /\ ClearInterrupts => IInv'
<1> SUFFICES ASSUME IInv, ClearInterrupts PROVE IInv'
  OBVIOUS
<1> USE DEF IInv, ClearInterrupts, InThread
<1> DEFINE s == guards[current]
           p == Append(s, image[current])
<1>1. s \in Seq(Bit) /\ image[current] \in Bit /\ current \in Thread
  BY DEF TypeOK
<1>2. /\ p \in Seq(Bit) /\ p # << >> /\ Len(p) = Len(s) + 1
      /\ p[Len(s) + 1] = image[current]
      /\ \A i \in 1 .. Len(s) : p[i] = s[i]
  BY <1>1, Pushed
<1>3. /\ guards'[current] = p
      /\ \A t \in Thread : t # current => guards'[t] = guards[t]
  BY DEF TypeOK
<1>4. Len(s) \in Nat /\ (s = << >> <=> Len(s) = 0)
  BY <1>1, EmptySeq, LenProperties
<1> HIDE DEF s, p
<1>5. TypeOK'
  <2>1. guards' = [guards EXCEPT ![current] = p]
    BY DEF s, p
  <2> QED BY <1>2, <2>1 DEF TypeOK, Bit
<1>6. OnlyCurrentInside' /\ HandlerAlone'
  BY <1>2, <1>3 DEF OnlyCurrentInside, HandlerAlone
<1>7. BootInv'
  <2> SUFFICES ASSUME phase # "threads" PROVE BootInv'
    BY DEF BootInv
  <2>1. current = Boot /\ image[Boot] = 0
    BY DEF BootInv
  <2>2. \A i \in 1 .. Len(s) : s[i] = 0
    BY <2>1 DEF BootInv, s
  <2>3. \A i \in 1 .. Len(p) : p[i] = 0
    BY <1>2, <1>4, <2>1, <2>2
  <2> QED BY <1>3, <2>1, <2>3 DEF BootInv
<1>8. ThreadsInv'
  <2> SUFFICES ASSUME phase = "threads" PROVE ThreadsInv'
    BY DEF ThreadsInv
  <2>1. image[current] = IF s = << >> THEN 1 ELSE 0
    BY DEF ThreadsInv, s
  <2>2. s # << >> => s[1] = 1 /\ \A i \in 2 .. Len(s) : s[i] = 0
    BY DEF ThreadsInv, s
  <2>3. p[1] = 1
    BY <1>2, <1>4, <2>1, <2>2
  <2>4. \A i \in 2 .. Len(p) : p[i] = 0
    BY <1>2, <1>4, <2>1, <2>2
  <2>5. \A t \in constructing' : guards'[t] = guards[t]
    BY <1>3 DEF TypeOK
  <2> QED BY <1>2, <1>3, <2>3, <2>4, <2>5 DEF ThreadsInv
<1> QED BY <1>5, <1>6, <1>7, <1>8

\* The destructor: only that of the outermost guard turns interrupts on.
LEMMA StepDestruct == IInv /\ Destruct => IInv'
<1> SUFFICES ASSUME IInv, Destruct PROVE IInv'
  OBVIOUS
<1> USE DEF IInv, Destruct, InThread
<1> DEFINE s == guards[current]
           p == SubSeq(s, 1, Len(s) - 1)
<1>1. s \in Seq(Bit) /\ s # << >> /\ current \in Thread /\ interrupts = 0
  BY DEF TypeOK, OnlyCurrentInside
<1>2. /\ Len(s) \in Nat \ {0} /\ s[Len(s)] \in Bit
      /\ p \in Seq(Bit) /\ Len(p) = Len(s) - 1
      /\ p = << >> <=> Len(s) = 1
      /\ \A i \in 1 .. Len(p) : p[i] = s[i]
  BY <1>1, Popped
<1>3. /\ guards'[current] = p
      /\ \A t \in Thread : t # current => guards'[t] = guards[t]
  BY DEF TypeOK
<1>4. interrupts' = s[Len(s)]
  BY <1>1, <1>2 DEF Restored, Bit
<1>5. guards' = [guards EXCEPT ![current] = p]
  OBVIOUS
<1> HIDE DEF s, p
<1>6. TypeOK'
  BY <1>2, <1>4, <1>5 DEF TypeOK, Bit
<1>7. phase # "threads" => \A i \in 1 .. Len(s) : s[i] = 0
  BY DEF BootInv, s
<1>8. phase = "threads" => /\ s[1] = 1
                           /\ \A i \in 2 .. Len(s) : s[i] = 0
  BY <1>1 DEF ThreadsInv, s
<1>9. p # << >> => interrupts' = 0
  BY <1>2, <1>4, <1>7, <1>8
<1>10. OnlyCurrentInside' /\ HandlerAlone'
  BY <1>3, <1>9 DEF OnlyCurrentInside, HandlerAlone
<1>11. BootInv'
  <2> SUFFICES ASSUME phase # "threads" PROVE BootInv'
    BY DEF BootInv
  <2>1. current = Boot
    BY DEF BootInv
  <2>2. interrupts' = 0 /\ \A i \in 1 .. Len(p) : p[i] = 0
    BY <1>2, <1>4, <1>7
  <2> QED BY <1>3, <2>1, <2>2 DEF BootInv
<1>12. ThreadsInv'
  <2> SUFFICES ASSUME phase = "threads" PROVE ThreadsInv'
    BY DEF ThreadsInv
  <2>1. p = << >> => interrupts' = 1
    BY <1>2, <1>4, <1>8
  <2>2. p # << >> => p[1] = 1 /\ \A i \in 2 .. Len(p) : p[i] = 0
    BY <1>2, <1>8
  <2>3. \A t \in constructing : guards'[t] = guards[t] /\ t # current
    BY <1>3 DEF TypeOK
  <2> QED BY <1>3, <2>1, <2>2, <2>3 DEF ThreadsInv
<1> QED BY <1>6, <1>10, <1>11, <1>12

\* create: the frame of the new thread turns interrupts on.
LEMMA StepCreate ==
  ASSUME NEW t \in Thread PROVE IInv /\ Create(t) => IInv'
<1> SUFFICES ASSUME IInv, Create(t) PROVE IInv'
  OBVIOUS
<1> USE DEF IInv, Create, InThread, NewRflags
<1>1. TypeOK' /\ saved'[t] = 1
  BY DEF TypeOK, Bit
<1>2. OnlyCurrentInside' /\ HandlerAlone' /\ BootInv'
  BY DEF OnlyCurrentInside, HandlerAlone, BootInv
<1>3. \A u \in created : saved'[u] = saved[u]
  BY DEF TypeOK
<1>4. ThreadsInv'
  BY <1>1, <1>3 DEF ThreadsInv
<1> QED BY <1>1, <1>2, <1>4

\* The vector is taken: IF was on, so nobody is inside.
LEMMA StepInterrupt == IInv /\ Interrupt => IInv'
<1> SUFFICES ASSUME IInv, Interrupt PROVE IInv'
  OBVIOUS
<1> USE DEF IInv, Interrupt, Taken, GateFlag
<1>1. handler = 0 /\ guards[current] = << >> /\ phase = "threads"
  BY DEF HandlerAlone, OnlyCurrentInside, BootInv, TypeOK
<1>2. TypeOK' /\ saved'[current] = 1
  <2>1. pending' \in BOOLEAN
    OBVIOUS
  <2>2. saved' = [saved EXCEPT ![current] = 1] /\ interrupts' = 0
    OBVIOUS
  <2> QED BY <1>1, <2>1, <2>2 DEF TypeOK, Bit
<1>3. OnlyCurrentInside' /\ HandlerAlone' /\ BootInv'
  BY <1>1 DEF OnlyCurrentInside, HandlerAlone, BootInv
<1>4. \A u \in created : u # current => saved'[u] = saved[u]
  BY DEF TypeOK
<1>5. ThreadsInv'
  BY <1>1, <1>2, <1>4 DEF ThreadsInv
<1> QED BY <1>2, <1>3, <1>5

\* iretq: whichever thread it resumes has IF on in its frame.
LEMMA StepReturn ==
  ASSUME NEW t \in Thread PROVE IInv /\ Return(t) => IInv'
<1> SUFFICES ASSUME IInv, Return(t) PROVE IInv'
  OBVIOUS
<1> USE DEF IInv, Return
<1>1. handler = 1 /\ interrupts = 0 /\ phase = "threads"
  BY DEF HandlerAlone, BootInv, TypeOK
<1>2. saved[t] = 1 /\ handler' = 0
  BY <1>1 DEF ThreadsInv
<1>3. \A u \in Thread : guards[u] = << >>
  BY <1>1 DEF OnlyCurrentInside
<1>4. TypeOK'
  BY <1>1 DEF TypeOK, Bit
<1>5. OnlyCurrentInside' /\ HandlerAlone' /\ BootInv'
  BY <1>1, <1>2, <1>3 DEF OnlyCurrentInside, HandlerAlone, BootInv
<1>6. ThreadsInv'
  BY <1>1, <1>2, <1>3 DEF ThreadsInv
<1> QED BY <1>4, <1>5, <1>6

\* Every step keeps IInv.
LEMMA StepIInv == IInv /\ [Next]_vars => IInv'
<1> SUFFICES ASSUME IInv, [Next]_vars PROVE IInv'
  OBVIOUS
<1> USE DEF IInv
<1>1. CASE RequestSelf
  BY <1>1 DEF RequestSelf, TypeOK, OnlyCurrentInside, HandlerAlone, BootInv,
              ThreadsInv
<1>2. CASE InitApic
  BY <1>2 DEF InitApic, TypeOK, OnlyCurrentInside, HandlerAlone, BootInv,
              ThreadsInv
<1>3. CASE SetInterrupts
  <2>1. /\ current = Boot /\ created = {Boot} /\ handler = 0
        /\ guards[Boot] = << >> /\ constructing = {}
    BY <1>3 DEF SetInterrupts, BootInv
  <2>2. TypeOK' /\ OnlyCurrentInside' /\ HandlerAlone' /\ BootInv'
    BY <1>3, <2>1 DEF SetInterrupts, TypeOK, Bit, OnlyCurrentInside,
                      HandlerAlone, BootInv
  <2>3. ThreadsInv'
    BY <1>3, <2>1 DEF SetInterrupts, ThreadsInv
  <2> QED BY <2>2, <2>3
<1>4. CASE TimerTick
  BY <1>4 DEF TimerTick, TypeOK, OnlyCurrentInside, HandlerAlone, BootInv,
              ThreadsInv
<1>5. CASE UNCHANGED vars
  BY <1>5 DEF vars, TypeOK, OnlyCurrentInside, HandlerAlone, BootInv,
              ThreadsInv
<1> QED
  BY <1>1, <1>2, <1>3, <1>4, <1>5, StepLoadRflags, StepClearInterrupts,
     StepDestruct, StepCreate, StepInterrupt, StepReturn DEF Next

\* The inductive invariant holds in every reachable state.
THEOREM Invariance == Spec => []IInv
BY InitIInv, StepIInv, PTL DEF Spec

-----------------------------------------------------------------------------
\* Types, for any set of threads and any depth of nesting.
THEOREM TypeCorrect == Spec => []TypeOK
<1>1. IInv => TypeOK
  BY DEF IInv
<1> QED BY <1>1, Invariance, PTL

\* At most one of the threads and the handler is in a guarded section.
THEOREM Exclusion == Spec => []MutualExclusion
<1>1. IInv => MutualExclusion
  BY DEF IInv, OnlyCurrentInside, HandlerAlone, MutualExclusion, Inside,
         TypeOK
<1> QED BY <1>1, Invariance, PTL

\* A thread outside all guards has interrupts on.
THEOREM Restoration == Spec => []InterruptsRestored
<1>1. IInv => InterruptsRestored
  BY DEF IInv, ThreadsInv, InterruptsRestored, Inside
<1> QED BY <1>1, Invariance, PTL

\* No interrupt before kmain allows it.
THEOREM QuietBoot == Spec => []BootUninterrupted
<1>1. IInv => BootUninterrupted
  BY DEF IInv, BootInv, BootUninterrupted
<1> QED BY <1>1, Invariance, PTL

\* The CPU leaves a thread only when it is in no guard: the heap and the
\* scheduler's lists are not given up half changed.
NoSwitchInside == [][current' # current => ~Inside(current)]_vars

\* Guards keep the handler, the only one to switch, away (InterruptGuard.cpp:5-13).
THEOREM NoPreemptionInside == Spec => NoSwitchInside
<1>1. IInv /\ [Next]_vars => [current' # current => ~Inside(current)]_vars
  <2> SUFFICES ASSUME IInv, Next PROVE current' # current => ~Inside(current)
    OBVIOUS
  <2>1. handler > 0 => ~Inside(current)
    BY DEF IInv, OnlyCurrentInside, Inside
  <2> QED
    BY <2>1 DEF Next, LoadRflags, ClearInterrupts, Destruct, RequestSelf,
       InitApic, SetInterrupts, TimerTick, Interrupt, Create, Return
<1> QED BY <1>1, Invariance, PTL DEF Spec, NoSwitchInside

-----------------------------------------------------------------------------
\* Who is inside, by what the CPU does.
OccupantsByState ==
  /\ handler \in {0, 1}
  /\ handler = 0 => Occupants = IF Inside(current) THEN {current} ELSE {}
  /\ handler = 1 => Occupants = {HANDLER}

LEMMA OccupantsAre == IInv => OccupantsByState
<1> SUFFICES ASSUME IInv PROVE OccupantsByState
  OBVIOUS
<1> USE DEF OccupantsByState
<1>1. \A t \in Thread : Inside(t) => t = current /\ handler = 0
  BY DEF IInv, OnlyCurrentInside, HandlerAlone, Inside
<1>2. current \in Thread /\ HANDLER # current /\ handler \in {0, 1}
  BY GuardAssumption DEF IInv, TypeOK, HandlerAlone
<1>3. CASE handler = 0
  BY <1>1, <1>2, <1>3 DEF Occupants
<1>4. CASE handler = 1
  BY <1>1, <1>2, <1>4 DEF Occupants
<1> QED BY <1>2, <1>3, <1>4

LEMMA OccupantsAreNext == IInv' => OccupantsByState'
BY OccupantsAre, PTL

\* A step that changes neither the current thread, nor the handler, nor
\* whether the current thread is inside, leaves CriticalSection unchanged.
LEMMA Stutter ==
  ASSUME IInv, IInv', current' = current, handler' = handler,
         Inside(current)' <=> Inside(current)
  PROVE  UNCHANGED << Occupants, current >>
<1>1. handler \in {0, 1}
  BY OccupantsAre, OccupantsAreNext DEF OccupantsByState
<1>2. CASE handler = 0
  <2>1. Occupants = IF Inside(current) THEN {current} ELSE {}
    BY <1>2, OccupantsAre DEF OccupantsByState
  <2>2. Occupants' = IF Inside(current)' THEN {current'} ELSE {}
    BY <1>2, OccupantsAreNext DEF OccupantsByState
  <2> QED BY <2>1, <2>2
<1>3. CASE handler = 1
  BY <1>3, OccupantsAre, OccupantsAreNext DEF OccupantsByState
<1> QED BY <1>1, <1>2, <1>3

\* Every step of guards and handler is a step of CriticalSection.
LEMMA StepRefines ==
  IInv /\ IInv' /\ [Next]_vars => [Abstract!Next]_Abstract!vars
<1> SUFFICES ASSUME IInv, IInv', [Next]_vars
             PROVE  Abstract!Next \/ UNCHANGED << Occupants, current >>
  BY DEF Abstract!vars
<1>1. CASE \/ LoadRflags \/ RequestSelf \/ InitApic \/ SetInterrupts
           \/ TimerTick \/ UNCHANGED vars \/ \E t \in Thread : Create(t)
  <2>1. current' = current /\ handler' = handler /\ guards' = guards
    BY <1>1 DEF LoadRflags, RequestSelf, InitApic, SetInterrupts, TimerTick,
                vars, Create
  <2> QED BY <2>1, Stutter DEF Inside
<1>2. CASE ClearInterrupts
  <2>1. handler = 0 /\ handler' = 0 /\ current' = current
    BY <1>2 DEF ClearInterrupts, InThread
  <2>2. guards[current] \in Seq(Bit) /\ image[current] \in Bit
    BY DEF IInv, TypeOK
  <2>3. Inside(current)'
    <3>1. guards'[current] = Append(guards[current], image[current])
      BY <1>2 DEF ClearInterrupts, IInv, TypeOK
    <3> QED BY <2>1, <2>2, <3>1, Pushed DEF Inside
  <2>4. CASE Inside(current)
    BY <2>1, <2>3, <2>4, Stutter
  <2>5. CASE ~Inside(current)
    <3>1. Occupants = {} /\ Occupants' = {current}
      <4>1. Occupants = {}
        BY <2>1, <2>5, OccupantsAre DEF OccupantsByState
      <4>2. Occupants' = IF Inside(current)' THEN {current'} ELSE {}
        BY <2>1, OccupantsAreNext DEF OccupantsByState
      <4> QED BY <2>1, <2>3, <4>1, <4>2
    <3>2. Abstract!Enter
      BY <2>1, <3>1 DEF Abstract!Enter
    <3> QED BY <3>2 DEF Abstract!Next
  <2> QED BY <2>4, <2>5
<1>3. CASE Destruct
  <2>1. handler = 0 /\ handler' = 0 /\ current' = current /\ Inside(current)
    BY <1>3 DEF Destruct, InThread, Inside
  <2>2. CASE Inside(current)'
    BY <2>1, <2>2, Stutter
  <2>3. CASE ~Inside(current)'
    <3>1. Occupants = {current}
      BY <2>1, OccupantsAre DEF OccupantsByState
    <3>2. Occupants' = IF Inside(current)' THEN {current'} ELSE {}
      BY <2>1, OccupantsAreNext DEF OccupantsByState
    <3>3. Abstract!Leave
      BY <2>1, <2>3, <3>1, <3>2 DEF Abstract!Leave
    <3> QED BY <3>3 DEF Abstract!Next
  <2> QED BY <2>2, <2>3
<1>4. CASE Interrupt
  <2>1. handler = 0 /\ handler' = 1 /\ current' = current /\ ~Inside(current)
    BY <1>4 DEF Interrupt, Taken, IInv, HandlerAlone, OnlyCurrentInside,
                Inside
  <2>2. Occupants = {}
    BY <2>1, OccupantsAre DEF OccupantsByState
  <2>3. Occupants' = {HANDLER}
    BY <2>1, OccupantsAreNext DEF OccupantsByState
  <2>4. Abstract!HandlerEnter
    BY <2>1, <2>2, <2>3 DEF Abstract!HandlerEnter
  <2> QED BY <2>4 DEF Abstract!Next
<1>5. ASSUME NEW t \in Thread, Return(t)
      PROVE  Abstract!Next
  <2>1. handler = 1 /\ handler' = 0 /\ current' = t
    BY <1>5 DEF Return, IInv, HandlerAlone
  <2>2. ~Inside(current)'
    BY <1>5, <2>1 DEF Return, IInv, OnlyCurrentInside, Inside
  <2>3. Occupants = {HANDLER}
    BY <2>1, OccupantsAre DEF OccupantsByState
  <2>4. Occupants' = IF Inside(current)' THEN {current'} ELSE {}
    BY <2>1, OccupantsAreNext DEF OccupantsByState
  <2>5. Abstract!HandlerLeave(t)
    BY <2>1, <2>2, <2>3, <2>4 DEF Abstract!HandlerLeave
  <2> QED BY <2>5 DEF Abstract!Next
<1> QED BY <1>1, <1>2, <1>3, <1>4, <1>5 DEF Next

\* The guards implement CriticalSection, its liveness aside.
THEOREM Refinement == Spec => Abstract!SafetySpec
<1>1. Init => Abstract!Init
  BY DEF Init, Abstract!Init, Occupants, Inside
<1> QED
  BY <1>1, StepRefines, Invariance, PTL DEF Spec, Abstract!SafetySpec

=============================================================================
