----------------------------- MODULE Allocator -----------------------------
(***************************************************************************)
(* What operator new and operator delete promise: aligned pieces of memory *)
(* that overlap no other piece in use.  A failed call changes nothing.     *)
(***************************************************************************)
EXTENDS Integers

VARIABLE live   \* the pieces in use, records [at, size]

Disjoint(r, s) == r.at + r.size <= s.at \/ s.at + s.size <= r.at

Init == live = {}

New ==
  \E piece \in live' \ live :
    /\ piece.at % 8 = 0
    /\ \A other \in live : Disjoint(piece, other)
    /\ live' = live \cup {piece}

Delete == \E piece \in live : live' = live \ {piece}

Next == New \/ Delete

Spec == Init /\ [][Next]_live

=============================================================================
