-------------------------- MODULE CriticalSection --------------------------
(***************************************************************************)
(* What InterruptGuard is for: the threads and the interrupt handler are   *)
(* inside their critical sections one at a time, the CPU does not leave a  *)
(* thread that is inside, and nobody stays inside.                         *)
(***************************************************************************)
CONSTANTS Thread,    \* the threads there can be
          Boot,      \* the one of them that runs first
          HANDLER    \* the interrupt handler, none of them

VARIABLES inside,    \* who is inside a critical section
          running    \* the thread the CPU is at

vars == << inside, running >>

Init ==
  /\ inside = {}
  /\ running = Boot

Enter ==
  /\ inside = {}
  /\ inside' = {running}
  /\ UNCHANGED running

Leave ==
  /\ inside = {running}
  /\ inside' = {}
  /\ UNCHANGED running

HandlerEnter ==
  /\ inside = {}
  /\ inside' = {HANDLER}
  /\ UNCHANGED running

\* The handler leaves for the thread it has chosen.
HandlerLeave(t) ==
  /\ inside = {HANDLER}
  /\ inside' = {}
  /\ running' = t

Next ==
  Enter \/ Leave \/ HandlerEnter \/ \E t \in Thread : HandlerLeave(t)

\* The specification of what may happen, and of what must.
SafetySpec == Init /\ [][Next]_vars

Spec ==
  /\ SafetySpec
  /\ WF_vars(Leave)
  /\ WF_vars(\E t \in Thread : HandlerLeave(t))

=============================================================================
