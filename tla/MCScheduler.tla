---------------------------- MODULE MCScheduler ----------------------------
(* Programs for the scheduler: the one this kernel boots, and others that   *)
(* use more of the interface Process.hpp declares.                          *)
EXTENDS Scheduler

create(rip) == [op |-> "create", rip |-> rip, isUser |-> FALSE]
createUser(rip) == [op |-> "create", rip |-> rip, isUser |-> TRUE]
sleep == [op |-> "sleep"]

MCRip == {"kernelMainThread", "manyThreads", "idleThread", "worker"}

\* KernelMainThread.cpp: kernelMainThread creates idleThread, sleeps once,
\* and halts; idleThread halts.
kernelMainThread == << create("idleThread"), sleep >>
idleThread == << >>

\* manyThreads: threads are created before, during and after the sleep of the
\* boot thread, by it and by another, two of them in user mode.
ThreadsCode ==
  [kernelMainThread |-> kernelMainThread,
   manyThreads |-> << create("worker"), createUser("idleThread"),
                      sleep, createUser("idleThread") >>,
   idleThread |-> idleThread,
   worker |-> << create("idleThread") >>]

\* The boot thread sleeps twice.
SleepTwiceCode ==
  [kernelMainThread |-> << create("idleThread"), sleep, sleep >>,
   manyThreads |-> << >>, idleThread |-> idleThread, worker |-> << >>]

\* Two threads sleep, each once.
TwoSleepersCode ==
  [kernelMainThread |-> << create("worker"), create("idleThread"), sleep >>,
   manyThreads |-> << >>, idleThread |-> idleThread, worker |-> << sleep >>]

\* The programs of MCScheduler_threads are among those SchedulerProofs is about.
ASSUME ThreadsSleepOnce == Code = ThreadsCode => OneSleep

=============================================================================
