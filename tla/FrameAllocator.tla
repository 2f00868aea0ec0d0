--------------------------- MODULE FrameAllocator ---------------------------
(***************************************************************************)
(* What the physical memory manager promises: a pool of page frames, each  *)
(* either free or held by one client, the lowest free one handed out first.*)
(***************************************************************************)
EXTENDS Naturals

VARIABLES free, held    \* sets of frame numbers

vars == << free, held >>

Init == free = {} /\ held = {}

\* The pool is filled once, when nothing is free or held.
Fill ==
  /\ free = {} /\ held = {}
  /\ free' \subseteq Nat \ {0}
  /\ UNCHANGED held

Alloc ==
  \E f \in free :
    /\ \A g \in free : f <= g
    /\ free' = free \ {f}
    /\ held' = held \cup {f}

Free ==
  \E f \in held :
    /\ free' = free \cup {f}
    /\ held' = held \ {f}

Next == Fill \/ Alloc \/ Free

Spec == Init /\ [][Next]_vars

=============================================================================
