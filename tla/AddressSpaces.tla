--------------------------- MODULE AddressSpaces ---------------------------
(***************************************************************************)
(* What the virtual memory manager promises: address spaces that map pages *)
(* to frames.  The pages of the kernel are the same in all of them, the    *)
(* others are each space's own, and a frame is mapped for one purpose.     *)
(***************************************************************************)
CONSTANTS Space, Page, KernelPage, Frame, NONE   \* KernelPage \subseteq Page

VARIABLES created,   \* the spaces there are
          map        \* map[s][p]: the frame page p has in s, or NONE

vars == << created, map >>

Init ==
  /\ created = {}
  /\ map = [s \in Space |-> [p \in Page |-> NONE]]

\* A new space has the kernel's pages and no other.
Create(s) ==
  /\ s \notin created
  /\ created' = created \cup {s}
  /\ \A t \in Space \ {s} : map'[t] = map[t]
  /\ \A p \in Page : IF p \in KernelPage
                       THEN \A t \in created : map'[s][p] = map[t][p]
                       ELSE map'[s][p] = NONE
  /\ created = {} => map' = map

\* The spaces that change when page p of s does.
Sharing(s, p) == IF p \in KernelPage THEN created ELSE {s}

Set(s, p, f) ==
  map' = [t \in Space |-> IF t \in Sharing(s, p) THEN [map[t] EXCEPT ![p] = f]
                                                 ELSE map[t]]

Map(s, p) ==
  /\ s \in created
  /\ map[s][p] = NONE
  /\ LET f == map'[s][p]
     IN  /\ f \in Frame
         /\ \A t \in Space, q \in Page : map[t][q] # f
         /\ Set(s, p, f)
  /\ UNCHANGED created

Unmap(s, p) ==
  /\ s \in created
  /\ map[s][p] # NONE
  /\ Set(s, p, NONE)
  /\ UNCHANGED created

Next == \E s \in Space : Create(s) \/ \E p \in Page : Map(s, p) \/ Unmap(s, p)

=============================================================================
