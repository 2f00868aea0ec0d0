------------------------------ MODULE Threads ------------------------------
(***************************************************************************)
(* What the scheduler promises: one CPU shared by the threads that are not *)
(* asleep.  A thread leaves the CPU only for another that can run, one     *)
(* that is asleep is woken, and no runnable thread is passed over forever. *)
(***************************************************************************)
CONSTANTS Thread, Boot   \* the threads there can be, and the first of them

VARIABLES state,         \* per thread: "none", "runnable" or "asleep"
          running        \* the thread the CPU is at

vars == << state, running >>

Init ==
  /\ state = [t \in Thread |-> IF t = Boot THEN "runnable" ELSE "none"]
  /\ running = Boot

\* The running thread creates t.
Create(t) ==
  /\ state[running] = "runnable"
  /\ state[t] = "none"
  /\ state' = [state EXCEPT ![t] = "runnable"]
  /\ UNCHANGED running

\* The running thread goes to sleep; the CPU is still at it.
Sleep ==
  /\ state[running] = "runnable"
  /\ state' = [state EXCEPT ![running] = "asleep"]
  /\ UNCHANGED running

Wake(t) ==
  /\ state[t] = "asleep"
  /\ state' = [state EXCEPT ![t] = "runnable"]
  /\ UNCHANGED running

Switch(t) ==
  /\ state[t] = "runnable"
  /\ running' = t
  /\ UNCHANGED state

Next == Sleep \/ \E t \in Thread : Create(t) \/ Wake(t) \/ Switch(t)

Spec ==
  /\ Init
  /\ [][Next]_vars
  /\ \A t \in Thread : WF_vars(Wake(t)) /\ SF_vars(Switch(t))

=============================================================================
