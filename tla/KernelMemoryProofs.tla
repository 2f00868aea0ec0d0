------------------------- MODULE KernelMemoryProofs -------------------------
(***************************************************************************)
(* Proofs about KernelHeap, and about KernelMemory, the heap over page     *)
(* tables and frames.                                                      *)
(*                                                                         *)
(* The first part is about the heap alone, for any requests and any number *)
(* of pages.                                                               *)
(*                                                                         *)
(* What new promises follows from where the blocks lie: none reaches into  *)
(* the next in order of address, and all end where the heap ends, or ended *)
(* before the expansion in progress.  For that the walk matters only in    *)
(* that what it stops at is what it looks for.                             *)
(*                                                                         *)
(* That the list tiles the heap, and that one expansion is enough, does    *)
(* depend on the walk: it must come to the last block.  The invariant here *)
(* is that the list links every header to the next in order of address     *)
(* (Chained); by the number of headers before a header, its rank, a walk   *)
(* that does not stop has met the first n of them after n links            *)
(* (WalkMeets).  Inductions over numbers are by the least counterexample   *)
(* (Least).                                                                *)
(***************************************************************************)
EXTENDS KernelMemory, FiniteSetTheorems, WellFoundedInduction, TLAPS

LEMMA Sizing ==
  ASSUME NEW n \in Nat
  PROVE  /\ alignedSize(n) \in Nat /\ alignedSize(n) % 8 = 0
         /\ n <= alignedSize(n) /\ alignedSize(n) < n + 8
         /\ newPageCount(n) \in Nat
         /\ alignedSize(n) + HeaderSize <= Page * newPageCount(n)
<1>1. alignedSize(n) \in Nat /\ alignedSize(n) % 8 = 0 /\ n <= alignedSize(n) /\ alignedSize(n) < n + 8
  BY DEF alignedSize
<1>2. ASSUME NEW m \in Nat
      PROVE  (m + 4095) \div 4096 \in Nat /\ m <= 4096 * ((m + 4095) \div 4096)
  OBVIOUS
<1>3. newPageCount(n) = (alignedSize(n) + 24 + 4095) \div 4096
  BY <1>1 DEF newPageCount, Page, HeaderSize
<1> QED
  BY <1>1, <1>2, <1>3 DEF Page, HeaderSize

LEMMA Eights ==
  ASSUME NEW a \in Int, NEW b \in Int, a % 8 = 0, b % 8 = 0
  PROVE  (a + b) % 8 = 0 /\ (a - b) % 8 = 0
OBVIOUS

\* Pages are whole: what is mapped or taken back is a multiple of one.
LEMMA Pages ==
  ASSUME NEW a \in Int, a % Page = 0
  PROVE  /\ (a + Page) % Page = 0 /\ (a - Page) % Page = 0 /\ a % 8 = 0
         /\ \A k \in Nat : (a + Page * k) % 8 = 0 /\ Page * k \in Nat /\ (Page * k) % 8 = 0
BY DEF Page

LEMMA Cutting ==
  ASSUME NEW h \in Nat, NEW n \in Nat, NEW size \in Nat,
         h % 8 = 0, n % 8 = 0, size % 8 = 0, size >= n + 32
  PROVE  /\ size - n - 24 \in Nat /\ (size - n - 24) % 8 = 0
         /\ (h + 24 + n) % 8 = 0
OBVIOUS

LEMMA Stops ==
  ASSUME NEW stop
  PROVE  Found(stop) \subseteq stop
BY DEF Found

-----------------------------------------------------------------------------
\* The blocks end here, or did when the expansion in progress began.
BlocksEnd == IF pc \in {"expand", "rollback"} THEN oldEnd ELSE KERNEL_HEAP_END

Placed ==
  \A h \in DOMAIN blocks :
    /\ h % 8 = 0 /\ blocks[h].size % 8 = 0
    /\ h + HeaderSize + blocks[h].size <= BlocksEnd

Apart ==
  \A g, h \in DOMAIN blocks : g < h => g + HeaderSize + blocks[g].size <= h

Owned ==
  /\ InUseIffLive
  /\ \A p, q \in live : p.at = q.at => p = q

\* What an expansion still has to map, and that init's finds nothing there.
Growing ==
  /\ KERNEL_HEAP_END % Page = 0 /\ oldEnd % Page = 0
  /\ pc = "search" => asked # 0
  /\ pc = "boot" => KERNEL_HEAP_END = 0 /\ blocks = [h \in {} |-> NULL] /\ asked = 0
  /\ pc \in {"expand", "rollback"} =>
       /\ oldEnd <= KERNEL_HEAP_END
       /\ asked = 0 => oldEnd = 0 /\ blocks = [h \in {} |-> NULL]
  /\ pc = "expand" =>
       KERNEL_HEAP_END + Page * left =
         oldEnd + Page * (IF asked = 0 THEN 4 ELSE newPageCount(asked))

IInv == TypeOK /\ Placed /\ Apart /\ Owned /\ Growing

LEMMA InitInv == ASSUME Init PROVE IInv
<1> USE DEF Init
<1>1. TypeOK
  BY HeapAssumption DEF TypeOK
<1>2. Placed /\ Apart
  BY DEF Placed, Apart
<1>3. Owned
  BY DEF Owned, InUseIffLive
<1>4. Growing
  BY DEF Growing, Page
<1> QED
  BY <1>1, <1>2, <1>3, <1>4 DEF IInv

-----------------------------------------------------------------------------
\* alloc takes a free block: whole, or cut.
LEMMA FitStep ==
  ASSUME IInv, AllocFit
  PROVE  IInv'
<1> USE DEF IInv
<1> DEFINE n == alignedSize(asked)
<1>1. /\ asked \in Nat \ {0} /\ n \in Nat /\ n % 8 = 0 /\ asked <= n
      /\ pc = "search" /\ pc' = "idle" /\ asked' = 0 /\ left' = 0 /\ oldEnd' = 0 /\ expansions' = 0
      /\ UNCHANGED << linkedList, KERNEL_HEAP_END >>
  <2>1. asked \in Nat \ {0}
    BY DEF AllocFit, TypeOK, Growing
  <2> QED
    BY <2>1, Sizing DEF AllocFit, Return
<1>2. PICK h \in Found(Fit(asked)) :
        /\ IF Splits(h, n) THEN blocks' = Split(h, n) /\ isFree' = TakeBlock(h, {h + HeaderSize + n})
                           ELSE isFree' = TakeBlock(h, {}) /\ UNCHANGED blocks
        /\ live' = live \cup {[at |-> h + HeaderSize, size |-> asked]}
  BY DEF AllocFit
<1> DEFINE rest == h + HeaderSize + n
           end == h + HeaderSize + blocks[h].size
<1> HIDE DEF n
<1>3. h \in isFree /\ n <= blocks[h].size
  BY Stops DEF Fit, n
<1>4. /\ h \in DOMAIN blocks /\ h \in Nat /\ h % 8 = 0
      /\ blocks[h].size \in Nat /\ blocks[h].size % 8 = 0
  BY <1>3 DEF TypeOK, Placed
<1>5. BlocksEnd' = BlocksEnd
  BY <1>1 DEF BlocksEnd
<1>6. \A piece \in live : /\ piece.at \in Nat /\ piece.size \in Nat \ {0}
                           /\ piece.at - HeaderSize \in DOMAIN blocks \ isFree
                           /\ piece.size <= blocks[piece.at - HeaderSize].size
  BY DEF TypeOK, Owned, InUseIffLive
<1>7. ASSUME blocks' \in [DOMAIN blocks' -> [size : Nat, next : Nat \cup {NULL}]],
             DOMAIN blocks' \subseteq Nat,
             DOMAIN blocks' \ isFree' = (DOMAIN blocks \ isFree) \cup {h},
             isFree' \subseteq DOMAIN blocks',
             blocks'[h].size >= n,
             \A g \in DOMAIN blocks \ {h} : blocks'[g] = blocks[g]
      PROVE  TypeOK' /\ Owned' /\ Growing'
  <2>1. TypeOK'
    <3>1. [at |-> h + HeaderSize, size |-> asked] \in [at : Nat, size : Nat \ {0}]
      BY <1>1, <1>4 DEF HeaderSize
    <3> QED
      BY <1>1, <1>2, <1>7, <3>1 DEF TypeOK
  <2>2. {piece.at - HeaderSize : piece \in live'} = (DOMAIN blocks \ isFree) \cup {h}
    <3>1. (h + HeaderSize) - HeaderSize = h
      BY <1>4 DEF HeaderSize
    <3>2. {piece.at - HeaderSize : piece \in live} = DOMAIN blocks \ isFree
      BY DEF Owned, InUseIffLive
    <3> DEFINE new == [at |-> h + HeaderSize, size |-> asked]
    <3>3. new.at - HeaderSize = h
      BY <3>1
    <3>4. {piece.at - HeaderSize : piece \in live \cup {new}} =
            {piece.at - HeaderSize : piece \in live} \cup {new.at - HeaderSize}
      OBVIOUS
    <3> QED
      BY <1>2, <3>2, <3>3, <3>4
  <2>3. \A piece \in live' : piece.size <= blocks'[piece.at - HeaderSize].size
    <3>1. (h + HeaderSize) - HeaderSize = h
      BY <1>4 DEF HeaderSize
    <3>2. asked <= blocks'[h].size
      BY <1>1, <1>4, <1>7
    <3>3. ASSUME NEW piece \in live
          PROVE  piece.size <= blocks'[piece.at - HeaderSize].size
      BY <1>3, <1>6, <1>7
    <3> QED
      BY <1>2, <3>1, <3>2, <3>3
  <2>4. \A p, q \in live' : p.at = q.at => p = q
    <3>1. \A p \in live : p.at # h + HeaderSize
      BY <1>3, <1>4, <1>6 DEF HeaderSize
    <3> QED
      BY <1>2, <3>1 DEF Owned
  <2>5. Growing'
    BY <1>1 DEF Growing, TypeOK, Page
  <2> QED
    BY <1>7, <2>1, <2>2, <2>3, <2>4, <2>5 DEF Owned, InUseIffLive
<1>8. CASE ~Splits(h, n)
  <2>1. UNCHANGED blocks /\ isFree' = isFree \ {h}
    BY <1>2, <1>8 DEF TakeBlock
  <2>2. TypeOK' /\ Owned' /\ Growing'
    BY <1>3, <1>4, <1>7, <2>1 DEF TypeOK
  <2>3. Placed' /\ Apart'
    BY <1>5, <2>1 DEF Placed, Apart
  <2> QED
    BY <2>2, <2>3
<1>9. CASE Splits(h, n)
  <2>1. blocks' = Split(h, n) /\ isFree' = (isFree \cup {rest}) \ {h}
    BY <1>2, <1>9 DEF TakeBlock
  <2>2. /\ rest \in Nat /\ rest % 8 = 0 /\ h < rest
        /\ blocks[h].size - n - HeaderSize \in Nat /\ (blocks[h].size - n - HeaderSize) % 8 = 0
        /\ rest + HeaderSize + (blocks[h].size - n - HeaderSize) = end
        /\ h + HeaderSize + n = rest /\ rest < end
    <3>1. blocks[h].size >= n + 32
      BY <1>9 DEF Splits, minSplitSize, HeaderSize
    <3>2. (blocks[h].size - n - 24) % 8 = 0 /\ (h + 24 + n) % 8 = 0
      BY <1>1, <1>4, <3>1, Cutting
    <3> QED
      BY <1>1, <1>4, <3>1, <3>2 DEF HeaderSize
  <2>3. rest \notin DOMAIN blocks
    BY <1>4, <2>2 DEF Apart, HeaderSize
  <2>4. /\ DOMAIN blocks' = DOMAIN blocks \cup {rest}
        /\ blocks'[rest] = [size |-> blocks[h].size - n - HeaderSize, next |-> blocks[h].next]
        /\ blocks'[h] = [size |-> n, next |-> rest]
        /\ \A g \in DOMAIN blocks \ {h} : blocks'[g] = blocks[g]
    BY <1>4, <2>1, <2>2, <2>3 DEF Split
  <2>5. blocks' \in [DOMAIN blocks' -> [size : Nat, next : Nat \cup {NULL}]]
    <3>1. blocks[h].next \in Nat \cup {NULL}
      BY <1>4 DEF TypeOK
    <3>2. \A g \in DOMAIN blocks' : blocks'[g] \in [size : Nat, next : Nat \cup {NULL}]
      BY <1>1, <2>2, <2>4, <3>1 DEF TypeOK
    <3>3. blocks' = [g \in DOMAIN blocks' |-> blocks'[g]]
      BY <2>1 DEF Split
    <3> QED
      BY <3>2, <3>3
  <2>6. TypeOK' /\ Owned' /\ Growing'
    BY <1>1, <1>3, <1>4, <1>7, <2>1, <2>2, <2>3, <2>4, <2>5 DEF TypeOK
  <2>7. Placed'
    <3>1. ASSUME NEW g \in DOMAIN blocks'
          PROVE  /\ g % 8 = 0 /\ blocks'[g].size % 8 = 0
                 /\ g + HeaderSize + blocks'[g].size <= BlocksEnd
      <4>1. end <= BlocksEnd /\ BlocksEnd \in Nat
        BY <1>4 DEF Placed, BlocksEnd, TypeOK
      <4>2. CASE g = rest
        BY <2>2, <2>4, <4>1, <4>2
      <4>3. CASE g = h
        BY <1>1, <1>4, <2>2, <2>4, <4>1, <4>3 DEF HeaderSize
      <4>4. CASE g \in DOMAIN blocks \ {h}
        BY <2>4, <4>4 DEF Placed
      <4> QED
        BY <2>4, <4>2, <4>3, <4>4
    <3> QED
      BY <1>5, <3>1 DEF Placed
  <2>8. Apart'
    <3>1. ASSUME NEW f \in DOMAIN blocks', NEW g \in DOMAIN blocks', f < g
          PROVE  f + HeaderSize + blocks'[f].size <= g
      <4>1. \A x \in DOMAIN blocks : x \in Nat /\ blocks[x].size \in Nat
        BY DEF TypeOK
      <4>2. CASE g = rest
        <5>1. CASE f = h
          BY <2>2, <2>4, <4>2, <5>1
        <5>2. CASE f # h
          <6>1. f \in DOMAIN blocks \ {h} /\ f < h
            <7>1. f \in DOMAIN blocks \ {h}
              BY <2>2, <2>4, <3>1, <4>2, <5>2
            <7>2. ~(h < f)
              BY <1>4, <2>2, <3>1, <4>1, <4>2, <7>1 DEF Apart, HeaderSize
            <7> QED
              BY <1>4, <4>1, <7>1, <7>2
          <6> QED
            BY <1>4, <2>2, <2>4, <4>1, <4>2, <6>1 DEF Apart, HeaderSize
        <5> QED
          BY <5>1, <5>2
      <4>3. CASE g # rest /\ f = rest
        <5>1. g \in DOMAIN blocks /\ h < g
          BY <1>4, <2>2, <2>4, <3>1, <4>1, <4>3
        <5> QED
          BY <1>4, <2>2, <2>4, <4>3, <5>1 DEF Apart
      <4>4. CASE g # rest /\ f # rest
        <5>1. f \in DOMAIN blocks /\ g \in DOMAIN blocks /\ f + HeaderSize + blocks[f].size <= g
          BY <2>4, <3>1, <4>4 DEF Apart
        <5>2. blocks'[f].size <= blocks[f].size /\ blocks'[f].size \in Nat
          BY <1>1, <1>3, <1>4, <2>4, <4>1, <5>1
        <5> QED
          BY <4>1, <5>1, <5>2 DEF HeaderSize
      <4> QED
        BY <4>2, <4>3, <4>4
    <3> QED
      BY <3>1 DEF Apart
  <2> QED
    BY <2>6, <2>7, <2>8
<1> QED
  BY <1>8, <1>9

\* What an expansion adds to the list lies between the old end and the new.
LEMMA GrowStep ==
  ASSUME IInv, Expanded
  PROVE  IInv'
<1> USE DEF IInv
<1> DEFINE size == Page * newPageCount(asked)
<1>1. /\ pc = "expand" /\ left = 0 /\ asked \in Nat \ {0} /\ oldEnd \in Nat
      /\ pc' = "search" /\ expansions' \in Nat
      /\ UNCHANGED << linkedList, KERNEL_HEAP_END, asked, left, oldEnd, live >>
  BY DEF Expanded, TypeOK
<1>2. /\ size \in Nat /\ size % 8 = 0 /\ HeaderSize < size /\ oldEnd % 8 = 0
      /\ (size - HeaderSize) % 8 = 0
  <2>1. newPageCount(asked) \in Nat /\ alignedSize(asked) + HeaderSize <= size
        /\ asked <= alignedSize(asked) /\ alignedSize(asked) \in Nat
    BY <1>1, Sizing
  <2>2. size \in Nat /\ size % 8 = 0 /\ oldEnd % 8 = 0
    BY <1>1, <2>1, Pages DEF Growing, Page
  <2>3. (size - 24) % 8 = 0
    BY <2>2, Eights
  <2> QED
    BY <1>1, <2>1, <2>2, <2>3 DEF HeaderSize
<1>3. KERNEL_HEAP_END = oldEnd + size
  <2>1. KERNEL_HEAP_END + Page * left = oldEnd + size
    BY <1>1 DEF Growing
  <2>2. Page * left = 0 /\ KERNEL_HEAP_END \in Nat
    BY <1>1 DEF Page, TypeOK
  <2> QED
    BY <2>1, <2>2
<1> HIDE DEF size
<1>4. BlocksEnd = oldEnd /\ BlocksEnd' = oldEnd + size
  BY <1>1, <1>3 DEF BlocksEnd
<1>5. \A h \in DOMAIN blocks : /\ h \in Nat /\ h % 8 = 0 /\ h < oldEnd
                               /\ blocks[h].size \in Nat /\ blocks[h].size % 8 = 0
                               /\ h + HeaderSize + blocks[h].size <= oldEnd
  <2>1. \A h \in DOMAIN blocks : h \in Nat /\ blocks[h].size \in Nat
    BY DEF TypeOK
  <2> QED
    BY <1>1, <1>4, <2>1 DEF Placed, HeaderSize
<1>6. \/ UNCHANGED << blocks, isFree >>
      \/ \E h \in isFree : /\ h + HeaderSize + blocks[h].size = oldEnd
                           /\ blocks' = Grown(h, size) /\ UNCHANGED isFree
      \/ \E h \in DOMAIN blocks : blocks' = Appended(h, size) /\ isFree' = isFree \cup {oldEnd}
  <2> DEFINE atOldEnd == {h \in DOMAIN blocks : blockEndAddr(h) = oldEnd}
  <2>1. \/ \E h \in Found(atOldEnd) :
             IF h \in isFree THEN blocks' = Grown(h, size) /\ UNCHANGED isFree
                             ELSE blocks' = Appended(h, size) /\ isFree' = isFree \cup {oldEnd}
        \/ UNCHANGED << blocks, isFree >>
    BY DEF Expanded, size
  <2>2. Found(atOldEnd) \subseteq atOldEnd
    BY Stops
  <2> QED
    BY <2>1, <2>2 DEF blockEndAddr
<1>7. Growing' /\ pc' \in {"boot", "idle", "search", "expand", "rollback", "fault"}
  BY <1>1 DEF Growing
<1>8. CASE UNCHANGED << blocks, isFree >>
  <2>1. TypeOK' /\ Owned' /\ Apart'
    BY <1>1, <1>7, <1>8 DEF TypeOK, Owned, InUseIffLive, Apart
  <2>2. Placed'
    BY <1>1, <1>2, <1>4, <1>5, <1>8 DEF Placed, HeaderSize
  <2> QED
    BY <1>7, <2>1, <2>2
<1>9. ASSUME NEW h \in isFree, h + HeaderSize + blocks[h].size = oldEnd,
             blocks' = Grown(h, size), UNCHANGED isFree
      PROVE  IInv'
  <2>1. h \in DOMAIN blocks
    BY DEF TypeOK
  <2>2. /\ DOMAIN blocks' = DOMAIN blocks
        /\ blocks'[h].size = blocks[h].size + size
        /\ blocks' \in [DOMAIN blocks -> [size : Nat, next : Nat \cup {NULL}]]
        /\ \A g \in DOMAIN blocks \ {h} : blocks'[g] = blocks[g]
    <3>1. \A g \in DOMAIN blocks : blocks[g] \in [size : Nat, next : Nat \cup {NULL}]
      BY DEF TypeOK
    <3>2. blocks[h].size \in Nat /\ blocks[h].size + size \in Nat
      BY <1>2, <1>5, <2>1
    <3>3. blocks' = [blocks EXCEPT ![h] = [blocks[h] EXCEPT !.size = blocks[h].size + size]]
      BY <1>9 DEF Grown
    <3>4. [blocks[h] EXCEPT !.size = blocks[h].size + size] \in [size : Nat, next : Nat \cup {NULL}]
      BY <2>1, <3>1, <3>2
    <3>5. blocks \in [DOMAIN blocks -> [size : Nat, next : Nat \cup {NULL}]]
      BY DEF TypeOK
    <3>6. /\ DOMAIN blocks' = DOMAIN blocks
          /\ blocks'[h] = [blocks[h] EXCEPT !.size = blocks[h].size + size]
          /\ \A g \in DOMAIN blocks \ {h} : blocks'[g] = blocks[g]
      BY <2>1, <3>3, <3>5
    <3>7. blocks'[h].size = blocks[h].size + size
      BY <2>1, <3>1, <3>6
    <3>8. blocks' \in [DOMAIN blocks -> [size : Nat, next : Nat \cup {NULL}]]
      BY <2>1, <3>3, <3>4, <3>5
    <3> QED
      BY <3>6, <3>7, <3>8
  <2>3. TypeOK'
    BY <1>1, <1>7, <1>9, <2>2 DEF TypeOK
  <2>4. Owned'
    <3>1. \A piece \in live : piece.at - HeaderSize \in DOMAIN blocks \ {h}
      BY <1>9 DEF Owned, InUseIffLive
    <3> QED
      BY <1>1, <1>9, <2>2, <3>1 DEF Owned, InUseIffLive
  <2>5. Placed'
    <3>1. (blocks[h].size + size) % 8 = 0
      <4>1. /\ blocks[h].size \in Int /\ blocks[h].size % 8 = 0
            /\ size \in Int /\ size % 8 = 0
        BY <1>2, <1>5, <2>1
      <4> QED
        BY <4>1, Eights
    <3>2. ASSUME NEW g \in DOMAIN blocks
          PROVE  /\ g % 8 = 0 /\ blocks'[g].size % 8 = 0
                 /\ g + HeaderSize + blocks'[g].size <= oldEnd + size
      <4>1. CASE g = h
        BY <1>2, <1>5, <1>9, <2>1, <2>2, <3>1, <4>1 DEF HeaderSize
      <4>2. CASE g # h
        BY <1>1, <1>2, <1>5, <2>2, <4>2 DEF HeaderSize
      <4> QED
        BY <4>1, <4>2
    <3> QED
      BY <1>4, <2>2, <3>2 DEF Placed
  <2>6. Apart'
    <3>1. ASSUME NEW f \in DOMAIN blocks, NEW g \in DOMAIN blocks, f < g
          PROVE  f + HeaderSize + blocks'[f].size <= g
      <4>1. f # h
        BY <1>1, <1>5, <1>9, <2>1, <3>1 DEF Apart
      <4> QED
        BY <2>2, <3>1, <4>1 DEF Apart
    <3> QED
      BY <2>2, <3>1 DEF Apart
  <2> QED
    BY <1>7, <2>3, <2>4, <2>5, <2>6
<1>10. ASSUME NEW h \in DOMAIN blocks,
              blocks' = Appended(h, size), isFree' = isFree \cup {oldEnd}
       PROVE  IInv'
  <2>1. oldEnd \notin DOMAIN blocks
    BY <1>1, <1>5
  <2>2. /\ DOMAIN blocks' = DOMAIN blocks \cup {oldEnd}
        /\ blocks'[oldEnd] = [size |-> size - HeaderSize, next |-> NULL]
        /\ \A g \in DOMAIN blocks : blocks'[g].size = blocks[g].size
        /\ \A g \in DOMAIN blocks : blocks'[g] \in [size : Nat, next : Nat \cup {NULL}]
    <3>1. \A g \in DOMAIN blocks : blocks[g] \in [size : Nat, next : Nat \cup {NULL}]
      BY DEF TypeOK
    <3> QED
      BY <1>1, <1>10, <2>1, <3>1 DEF Appended
  <2>3. blocks' \in [DOMAIN blocks' -> [size : Nat, next : Nat \cup {NULL}]]
    <3>1. size - HeaderSize \in Nat
      BY <1>2 DEF HeaderSize
    <3>2. \A g \in DOMAIN blocks' : blocks'[g] \in [size : Nat, next : Nat \cup {NULL}]
      BY <2>2, <3>1
    <3>3. blocks' = [g \in DOMAIN blocks' |-> blocks'[g]]
      BY <1>10 DEF Appended
    <3> QED
      BY <3>2, <3>3
  <2>4. TypeOK'
    BY <1>1, <1>7, <1>10, <2>2, <2>3 DEF TypeOK
  <2>5. Owned'
    <3>1. DOMAIN blocks' \ isFree' = DOMAIN blocks \ isFree
      BY <1>10, <2>1, <2>2
    <3>2. \A piece \in live : piece.at - HeaderSize \in DOMAIN blocks
      BY DEF Owned, InUseIffLive
    <3> QED
      BY <1>1, <2>2, <3>1, <3>2 DEF Owned, InUseIffLive
  <2>6. Placed'
    <3>1. ASSUME NEW g \in DOMAIN blocks'
          PROVE  /\ g % 8 = 0 /\ blocks'[g].size % 8 = 0
                 /\ g + HeaderSize + blocks'[g].size <= oldEnd + size
      <4>1. CASE g = oldEnd
        BY <1>1, <1>2, <2>2, <4>1 DEF HeaderSize
      <4>2. CASE g \in DOMAIN blocks
        BY <1>1, <1>2, <1>5, <2>2, <4>2 DEF HeaderSize
      <4> QED
        BY <2>2, <4>1, <4>2
    <3> QED
      BY <1>4, <3>1 DEF Placed
  <2>7. Apart'
    <3>1. ASSUME NEW f \in DOMAIN blocks', NEW g \in DOMAIN blocks', f < g
          PROVE  f + HeaderSize + blocks'[f].size <= g
      <4>1. f \in DOMAIN blocks
        BY <1>1, <1>5, <2>2, <3>1
      <4>2. CASE g = oldEnd
        BY <1>5, <2>2, <4>1, <4>2
      <4>3. CASE g \in DOMAIN blocks
        BY <2>2, <3>1, <4>1, <4>3 DEF Apart
      <4> QED
        BY <2>2, <4>2, <4>3
    <3> QED
      BY <3>1 DEF Apart
  <2> QED
    BY <1>7, <2>4, <2>5, <2>6, <2>7
<1> QED
  BY <1>6, <1>8, <1>9, <1>10

\* The steps that leave the blocks and their owners alone move the end of the
\* heap, or where the blocks must end.
LEMMA EndStep ==
  ASSUME IInv, UNCHANGED << blocks, isFree, live >>, TypeOK', Growing',
         BlocksEnd <= BlocksEnd'
  PROVE  IInv'
<1>1. Owned' /\ Apart'
  BY DEF IInv, Owned, InUseIffLive, Apart
<1>2. Placed'
  <2>1. BlocksEnd \in Nat /\ BlocksEnd' \in Nat
    BY DEF IInv, TypeOK, BlocksEnd
  <2>2. \A h \in DOMAIN blocks : h \in Nat /\ blocks[h].size \in Nat
    BY DEF IInv, TypeOK
  <2> QED
    BY <2>1, <2>2 DEF IInv, Placed, HeaderSize
<1> QED
  BY <1>1, <1>2 DEF IInv

LEMMA StepInv == ASSUME IInv, [Next]_vars PROVE IInv'
<1> USE DEF IInv
<1>1. CASE init
  <2>1. TypeOK' /\ UNCHANGED << blocks, isFree, live >>
    BY <1>1 DEF init, TypeOK
  <2>2. Growing'
    BY <1>1 DEF init, Growing, TypeOK, Page
  <2>3. BlocksEnd <= BlocksEnd'
    BY <1>1 DEF init, BlocksEnd, TypeOK
  <2> QED
    BY <2>1, <2>2, <2>3, EndStep
<1>2. ASSUME NEW size \in Sizes, New(size) PROVE IInv'
  <2>1. asked' \in Nat \ {0}
    BY <1>2, HeapAssumption DEF New
  <2>2. TypeOK' /\ UNCHANGED << blocks, isFree, live >>
    BY <1>2, <2>1 DEF New, TypeOK
  <2>3. Growing'
    BY <1>2, <2>1 DEF New, Growing
  <2>4. BlocksEnd <= BlocksEnd'
    BY <1>2 DEF New, BlocksEnd, TypeOK
  <2> QED
    BY <2>2, <2>3, <2>4, EndStep
<1>3. CASE AllocFit
  BY <1>3, FitStep
<1>4. CASE AllocExpand
  <2>1. asked \in Nat \ {0} /\ newPageCount(asked) \in Nat
    BY <1>4, Sizing DEF AllocExpand, Growing, TypeOK
  <2>2. TypeOK' /\ UNCHANGED << blocks, isFree, live >>
    BY <1>4, <2>1 DEF AllocExpand, TypeOK
  <2>3. Growing'
    BY <1>4, <2>1 DEF AllocExpand, Growing, TypeOK, Page
  <2>4. BlocksEnd <= BlocksEnd'
    BY <1>4 DEF AllocExpand, BlocksEnd, TypeOK
  <2> QED
    BY <2>2, <2>3, <2>4, EndStep
<1>5. CASE ExpandPage
  <2>1. TypeOK' /\ UNCHANGED << blocks, isFree, live >>
    BY <1>5 DEF ExpandPage, TypeOK, Page
  <2>2. Growing'
    <3>1. KERNEL_HEAP_END' + Page * left' = KERNEL_HEAP_END + Page * left
      BY <1>5 DEF ExpandPage, TypeOK, Page
    <3>2. KERNEL_HEAP_END' % Page = 0
      BY <1>5, Pages DEF ExpandPage, TypeOK, Growing
    <3>3. oldEnd <= KERNEL_HEAP_END'
      BY <1>5 DEF ExpandPage, TypeOK, Growing, Page
    <3> QED
      BY <1>5, <3>1, <3>2, <3>3 DEF ExpandPage, Growing
  <2>3. BlocksEnd <= BlocksEnd'
    BY <1>5 DEF ExpandPage, BlocksEnd, TypeOK
  <2> QED
    BY <2>1, <2>2, <2>3, EndStep
<1>6. CASE ExpandFails
  <2>1. TypeOK' /\ UNCHANGED << blocks, isFree, live >>
    BY <1>6 DEF ExpandFails, TypeOK
  <2>2. Growing'
    BY <1>6 DEF ExpandFails, Growing
  <2>3. BlocksEnd <= BlocksEnd'
    BY <1>6 DEF ExpandFails, BlocksEnd, TypeOK
  <2> QED
    BY <2>1, <2>2, <2>3, EndStep
<1>7. CASE RollBackPage
  <2>1. oldEnd <= KERNEL_HEAP_END'
    BY <1>7 DEF RollBackPage, TypeOK, Growing, Page
  <2>2. KERNEL_HEAP_END' \in Nat
    BY <1>7, <2>1 DEF RollBackPage, TypeOK, Page
  <2>3. TypeOK' /\ UNCHANGED << blocks, isFree, live >>
    BY <1>7, <2>2 DEF RollBackPage, TypeOK
  <2>4. Growing'
    <3>1. KERNEL_HEAP_END' % Page = 0
      BY <1>7, Pages DEF RollBackPage, TypeOK, Growing
    <3> QED
      BY <1>7, <2>1, <3>1 DEF RollBackPage, Growing
  <2>5. BlocksEnd <= BlocksEnd'
    BY <1>7 DEF RollBackPage, BlocksEnd, TypeOK
  <2> QED
    BY <2>3, <2>4, <2>5, EndStep
<1>8. CASE RolledBack
  <2>1. TypeOK' /\ UNCHANGED << blocks, isFree, live >>
    BY <1>8 DEF RolledBack, Return, TypeOK
  <2>2. Growing'
    BY <1>8 DEF RolledBack, Return, Growing, TypeOK, Page
  <2>3. BlocksEnd <= BlocksEnd'
    BY <1>8 DEF RolledBack, Return, BlocksEnd, TypeOK
  <2> QED
    BY <2>1, <2>2, <2>3, EndStep
<1>9. CASE InitDone
  <2>1. /\ asked = 0 /\ pc = "expand" /\ left = 0 /\ KERNEL_HEAP_END = 16384
        /\ DOMAIN blocks = {} /\ isFree = {} /\ live = {}
    <3>1. asked = 0 /\ pc = "expand" /\ left = 0 /\ oldEnd = 0 /\ DOMAIN blocks = {}
      BY <1>9 DEF InitDone, Growing
    <3>2. KERNEL_HEAP_END + Page * 0 = 0 + Page * 4
      BY <3>1 DEF Growing
    <3>3. live = {}
      BY <3>1 DEF Owned, InUseIffLive
    <3> QED
      BY <3>1, <3>2, <3>3 DEF TypeOK, Page
  <2>2. /\ blocks' = [h \in {0} |-> [size |-> 16360, next |-> NULL]] /\ isFree' = {0}
        /\ linkedList' = 0 /\ pc' = "idle" /\ KERNEL_HEAP_END' = 16384 /\ live' = {}
        /\ asked' = 0 /\ left' = 0 /\ oldEnd' = 0 /\ expansions' = 0
    BY <1>9, <2>1 DEF InitDone, Return, HeaderSize
  <2>3. DOMAIN blocks' = {0} /\ blocks'[0].size = 16360
    BY <2>2
  <2>4. TypeOK'
    BY <2>2, <2>3 DEF TypeOK
  <2>5. Placed' /\ Apart'
    BY <2>2, <2>3 DEF Placed, Apart, BlocksEnd, HeaderSize
  <2>6. Owned'
    BY <2>2, <2>3 DEF Owned, InUseIffLive
  <2>7. Growing'
    BY <2>2 DEF Growing, Page
  <2> QED
    BY <2>4, <2>5, <2>6, <2>7
<1>10. CASE Expanded
  BY <1>10, GrowStep
<1>11. ASSUME NEW piece \in live, Delete(piece) PROVE IInv'
  <2>1. /\ piece.at - HeaderSize \in DOMAIN blocks
        /\ {p.at - HeaderSize : p \in live} = DOMAIN blocks \ isFree
        /\ \A p, q \in live : p.at = q.at => p = q
    BY <1>11 DEF Owned, InUseIffLive
  <2>2. /\ isFree' = isFree \cup {piece.at - HeaderSize} /\ live' = live \ {piece}
        /\ pc = "idle"
        /\ UNCHANGED << blocks, linkedList, KERNEL_HEAP_END, pc, asked, left, oldEnd, expansions >>
    BY <1>11 DEF Delete
  <2>3. TypeOK'
    BY <2>1, <2>2 DEF TypeOK
  <2>4. {p.at - HeaderSize : p \in live'} = DOMAIN blocks \ isFree'
    <3>1. \A p \in live : p.at \in Nat
      BY DEF TypeOK
    <3>2. \A p \in live' : p.at - HeaderSize # piece.at - HeaderSize
      BY <1>11, <2>1, <2>2, <3>1 DEF HeaderSize
    <3> QED
      BY <2>1, <2>2, <3>2
  <2>5. Owned'
    BY <2>1, <2>2, <2>4 DEF Owned, InUseIffLive
  <2>6. Placed' /\ Apart' /\ Growing'
    BY <2>2 DEF Placed, Apart, BlocksEnd, Growing
  <2> QED
    BY <2>3, <2>5, <2>6
<1>12. CASE UNCHANGED vars
  BY <1>12 DEF vars, TypeOK, Placed, BlocksEnd, Apart, Owned, InUseIffLive, Growing
<1> QED
  BY <1>1, <1>2, <1>3, <1>4, <1>5, <1>6, <1>7, <1>8, <1>9, <1>10, <1>11, <1>12 DEF Next, InCall

THEOREM Inductive == Spec => []IInv
<1>1. Init => IInv
  BY InitInv
<1>2. IInv /\ [Next]_vars => IInv'
  BY StepInv
<1> QED
  BY <1>1, <1>2, PTL DEF Spec

-----------------------------------------------------------------------------
\* Every variable of the heap has its type (KernelHeap.cpp).
THEOREM TypeCorrect == Spec => []TypeOK
<1>1. IInv => TypeOK
  BY DEF IInv
<1> QED
  BY <1>1, Inductive, PTL

\* A block is in use exactly while a client has it, and is large enough, for
\* any history of new and delete (KernelHeap.cpp:54-133).
THEOREM Ownership == Spec => []InUseIffLive
<1>1. IInv => InUseIffLive
  BY DEF IInv, Owned
<1> QED
  BY <1>1, Inductive, PTL

\* No two blocks overlap and none reaches beyond the heap, between calls
\* (KernelHeap.cpp:67-77, 96-118).
THEOREM BlocksApart ==
  Spec => [](Ready => /\ \A h \in DOMAIN blocks : blockEndAddr(h) <= KERNEL_HEAP_END
                      /\ \A g, h \in DOMAIN blocks : g < h => blockEndAddr(g) <= h)
<1>1. IInv => (Ready => /\ \A h \in DOMAIN blocks : blockEndAddr(h) <= KERNEL_HEAP_END
                        /\ \A g, h \in DOMAIN blocks : g < h => blockEndAddr(g) <= h)
  BY DEF IInv, Ready, Placed, Apart, BlocksEnd, blockEndAddr
<1> QED
  BY <1>1, Inductive, PTL

\* What AllocFit returns is aligned and overlaps no piece in use.
LEMMA FreshPiece ==
  ASSUME IInv, AllocFit
  PROVE  Abstract!New
<1> USE DEF IInv
<1>1. PICK h \in Found(Fit(asked)) : live' = live \cup {[at |-> h + HeaderSize, size |-> asked]}
  BY DEF AllocFit
<1> DEFINE piece == [at |-> h + HeaderSize, size |-> asked]
<1>2. asked \in Nat /\ asked <= alignedSize(asked) /\ alignedSize(asked) \in Nat
  BY Sizing DEF TypeOK
<1>3. h \in isFree /\ alignedSize(asked) <= blocks[h].size
  BY Stops DEF Fit
<1>4. h \in DOMAIN blocks /\ h \in Nat /\ h % 8 = 0 /\ blocks[h].size \in Nat
  BY <1>3 DEF TypeOK, Placed
<1>5. ASSUME NEW other \in live
      PROVE  other.at # piece.at /\ Abstract!Disjoint(piece, other)
  <2> DEFINE g == other.at - HeaderSize
  <2>1. /\ other.at \in Nat /\ other.size \in Nat /\ g \in DOMAIN blocks \ isFree
        /\ other.size <= blocks[g].size
    BY <1>5 DEF TypeOK, Owned, InUseIffLive
  <2>2. g \in Nat /\ blocks[g].size \in Nat /\ g # h
    BY <1>3, <2>1 DEF TypeOK
  <2>3. \/ g + HeaderSize + blocks[g].size <= h
        \/ h + HeaderSize + blocks[h].size <= g
    BY <1>4, <2>1, <2>2 DEF Apart
  <2>4. \/ other.at + other.size <= h + HeaderSize
        \/ h + HeaderSize + asked <= other.at
    BY <1>2, <1>3, <1>4, <2>1, <2>2, <2>3 DEF HeaderSize
  <2> QED
    BY <1>4, <2>1, <2>2, <2>4 DEF Abstract!Disjoint, HeaderSize
<1>6. piece.at % 8 = 0
  BY <1>4 DEF HeaderSize
<1>7. piece \in live' \ live
  BY <1>1, <1>5
<1> QED
  BY <1>1, <1>5, <1>6, <1>7 DEF Abstract!New

\* The heap implements new and delete: every piece handed out is aligned and
\* overlaps none in use, for any requests and any number of pages
\* (KernelHeap.cpp, cxxabi.cpp:18-41).
THEOREM Refinement == Spec => ImplementsAllocator
<1>1. Init => Abstract!Init
  BY DEF Init, Abstract!Init
<1>2. IInv /\ [Next]_vars => [Abstract!Next]_live
  <2> SUFFICES ASSUME IInv, [Next]_vars PROVE [Abstract!Next]_live
    OBVIOUS
  <2>1. CASE AllocFit
    BY <2>1, FreshPiece DEF Abstract!Next
  <2>2. ASSUME NEW piece \in live, Delete(piece) PROVE Abstract!Delete
    BY <2>2 DEF Delete, Abstract!Delete
  <2>3. ASSUME [Next]_vars, ~AllocFit, ~(\E piece \in live : Delete(piece))
        PROVE  UNCHANGED live
    BY <2>3 DEF Next, InCall, vars, init, New, AllocExpand, ExpandPage, ExpandFails, RollBackPage,
                RolledBack, InitDone, Expanded
  <2> QED
    BY <2>1, <2>2, <2>3 DEF Abstract!Next
<1> QED
  BY <1>1, <1>2, Inductive, PTL DEF Spec, ImplementsAllocator, Abstract!Spec

-----------------------------------------------------------------------------
\* The walk over the list

\* A set of numbers that is not empty has a least one.
LEMMA Least ==
  ASSUME NEW T \in SUBSET Nat, T # {}
  PROVE  \E x \in T : \A y \in T : x <= y
<1> DEFINE Lt == {s \in Nat \X Nat : s[1] < s[2]}
<1>1. IsWellFoundedOn(Lt, Nat)
  BY NatLessThanWellFounded DEF OpToRel
<1>2. PICK x \in T : \A y \in T : << y, x >> \notin Lt
  BY <1>1, WFMin
<1>3. \A y \in T : ~(y < x)
  BY <1>2
<1> QED
  BY <1>3

\* What a walk has met after n links, as a function of n.
Follow(F, stop) == F \cup ({blocks[h].next : h \in (F \cap DOMAIN blocks) \ stop} \ {NULL})
IsWalk(f, n, stop) ==
  f = [k \in 0 .. n |-> IF k = 0 THEN {linkedList} \ {NULL} ELSE Follow(f[k - 1], stop)]

\* There is such a function: the least n without one would follow one that has it.
LEMMA WalkExists ==
  ASSUME NEW stop, NEW n \in Nat
  PROVE  \E f : IsWalk(f, n, stop)
<1> DEFINE T == {k \in Nat : ~\E f : IsWalk(f, k, stop)}
<1> SUFFICES ASSUME T # {} PROVE FALSE
  OBVIOUS
<1>1. PICK k \in T : \A y \in T : k <= y
  BY Least
<1>2. CASE k = 0
  <2> DEFINE f == [j \in 0 .. 0 |-> {linkedList} \ {NULL}]
  <2>1. f = [j \in 0 .. 0 |-> IF j = 0 THEN {linkedList} \ {NULL} ELSE Follow(f[j - 1], stop)]
    OBVIOUS
  <2> QED
    BY <1>1, <1>2, <2>1 DEF IsWalk
<1>3. CASE k # 0
  <2>1. k \in Nat /\ k - 1 \in Nat /\ k - 1 \notin T
    BY <1>1, <1>3
  <2>2. PICK g : IsWalk(g, k - 1, stop)
    BY <2>1
  <2> DEFINE f == [j \in 0 .. k |-> IF j = k THEN Follow(g[k - 1], stop) ELSE g[j]]
  <2>3. \A j \in 0 .. k - 1 : g[j] = IF j = 0 THEN {linkedList} \ {NULL} ELSE Follow(g[j - 1], stop)
    BY <2>2 DEF IsWalk
  <2>4. \A j \in 0 .. k : f[j] = IF j = 0 THEN {linkedList} \ {NULL} ELSE Follow(f[j - 1], stop)
    <3>1. ASSUME NEW j \in 0 .. k - 1
          PROVE  f[j] = g[j] /\ j \in 0 .. k /\ (j # 0 => f[j - 1] = g[j - 1])
      BY <2>1
    <3>2. f[k] = Follow(g[k - 1], stop) /\ f[k - 1] = g[k - 1]
      BY <2>1
    <3> HIDE DEF f
    <3>3. ASSUME NEW j \in 0 .. k - 1
          PROVE  f[j] = IF j = 0 THEN {linkedList} \ {NULL} ELSE Follow(f[j - 1], stop)
      BY <2>3, <3>1
    <3>4. f[k] = IF k = 0 THEN {linkedList} \ {NULL} ELSE Follow(f[k - 1], stop)
      BY <1>3, <3>2
    <3>5. \A j \in 0 .. k : j = k \/ j \in 0 .. k - 1
      BY <2>1
    <3> QED
      BY <3>3, <3>4, <3>5
  <2>5. f = [j \in 0 .. k |-> IF j = 0 THEN {linkedList} \ {NULL} ELSE Follow(f[j - 1], stop)]
    BY <2>4
  <2>6. IsWalk(f, k, stop)
    BY <2>5 DEF IsWalk
  <2> QED
    BY <1>1, <2>6
<1> QED
  BY <1>2, <1>3

\* The walk of alloc.
LEMMA VisitedIs ==
  ASSUME NEW stop, Cardinality(DOMAIN blocks) \in Nat
  PROVE  \E f : /\ IsWalk(f, Cardinality(DOMAIN blocks), stop)
                /\ Visited(stop) = f[Cardinality(DOMAIN blocks)]
<1> DEFINE c == Cardinality(DOMAIN blocks)
           W == CHOOSE f : f = [n \in 0 .. c |->
        IF n = 0 THEN {linkedList} \ {NULL}
        ELSE LET links == (f[n - 1] \cap DOMAIN blocks) \ stop
             IN  f[n - 1] \cup ({blocks[h].next : h \in links} \ {NULL})]
<1>1. Visited(stop) = W[c]
  BY DEF Visited
<1>2. PICK f : IsWalk(f, c, stop)
  BY WalkExists
<1>3. f = [n \in 0 .. c |->
        IF n = 0 THEN {linkedList} \ {NULL}
        ELSE LET links == (f[n - 1] \cap DOMAIN blocks) \ stop
             IN  f[n - 1] \cup ({blocks[h].next : h \in links} \ {NULL})]
  BY <1>2 DEF IsWalk, Follow
<1>4. W = [n \in 0 .. c |->
        IF n = 0 THEN {linkedList} \ {NULL}
        ELSE LET links == (W[n - 1] \cap DOMAIN blocks) \ stop
             IN  W[n - 1] \cup ({blocks[h].next : h \in links} \ {NULL})]
  BY <1>3
<1> HIDE DEF W
<1>5. IsWalk(W, c, stop)
  BY <1>4 DEF IsWalk, Follow
<1> QED
  BY <1>1, <1>5

\* The list links all headers in order of address: it begins with the heap,
\* and each block ends where the next begins or where the blocks end.
Chained ==
  /\ IsFiniteSet(DOMAIN blocks)
  /\ linkedList = 0 => 0 \in DOMAIN blocks
  /\ linkedList = NULL => ~Ready /\ asked = 0
  /\ \A h \in DOMAIN blocks :
       IF blocks[h].next = NULL THEN blockEndAddr(h) = BlocksEnd
       ELSE blocks[h].next \in DOMAIN blocks /\ blocks[h].next = blockEndAddr(h)
  /\ \A h \in DOMAIN blocks \ {0} : \E g \in DOMAIN blocks : blocks[g].next = h

\* The number of headers before h.
Before(h) == {g \in DOMAIN blocks : g < h}
Rank(h) == Cardinality(Before(h))

\* A header other than the first is linked to by one with exactly one header
\* fewer before it.
LEMMA Ranks ==
  ASSUME IInv, Chained, NEW h \in DOMAIN blocks
  PROVE  /\ Rank(h) \in Nat /\ Rank(h) < Cardinality(DOMAIN blocks)
         /\ h # 0 => \E g \in DOMAIN blocks : blocks[g].next = h /\ Rank(h) = Rank(g) + 1
<1>1. DOMAIN blocks \subseteq Nat /\ IsFiniteSet(DOMAIN blocks)
  BY DEF IInv, TypeOK, Chained
<1>2. \A g \in DOMAIN blocks : IsFiniteSet(Before(g)) /\ Rank(g) \in Nat
  <2>1. \A g \in DOMAIN blocks : Before(g) \in SUBSET DOMAIN blocks
    BY DEF Before
  <2> QED
    BY <1>1, <2>1, FS_Subset, FS_CardinalityType DEF Rank
<1>3. Rank(h) < Cardinality(DOMAIN blocks)
  <2>1. Before(h) \in SUBSET DOMAIN blocks /\ Before(h) # DOMAIN blocks
    BY <1>1 DEF Before
  <2>2. Cardinality(Before(h)) <= Cardinality(DOMAIN blocks)
        /\ Cardinality(Before(h)) # Cardinality(DOMAIN blocks)
    BY <1>1, <2>1, FS_Subset
  <2>3. Cardinality(DOMAIN blocks) \in Nat
    BY <1>1, FS_CardinalityType
  <2> QED
    BY <1>2, <2>2, <2>3 DEF Rank
<1>4. ASSUME h # 0
      PROVE  \E g \in DOMAIN blocks : blocks[g].next = h /\ Rank(h) = Rank(g) + 1
  <2>1. PICK g \in DOMAIN blocks : blocks[g].next = h
    BY <1>4 DEF Chained
  <2>2. h = g + HeaderSize + blocks[g].size /\ blocks[g].size \in Nat
    <3>1. blocks[g].next # NULL
      BY <1>1, <2>1, HeapAssumption
    <3> QED
      BY <2>1, <3>1 DEF Chained, blockEndAddr, IInv, TypeOK
  <2>3. \A x \in DOMAIN blocks : x < h <=> x < g \/ x = g
    <3>1. \A x \in DOMAIN blocks : g < x => h <= x
      BY <2>2 DEF IInv, Apart
    <3> QED
      BY <1>1, <2>1, <2>2, <3>1 DEF HeaderSize
  <2>4. Before(h) = Before(g) \cup {g} /\ g \notin Before(g)
    BY <1>1, <2>1, <2>3 DEF Before
  <2>5. Rank(h) = Rank(g) + 1
    BY <1>2, <2>1, <2>4, FS_AddElement DEF Rank
  <2> QED
    BY <2>1, <2>5
<1> QED
  BY <1>2, <1>3, <1>4

\* After n links the walk has stopped, or met the first n headers.
LEMMA WalkMeets ==
  ASSUME IInv, Chained, linkedList = 0, NEW stop, NEW c \in Nat,
         NEW f, IsWalk(f, c, stop), NEW n \in 0 .. c
  PROVE  /\ f[n] \subseteq DOMAIN blocks
         /\ (f[n] \cap stop # {} \/ \A h \in DOMAIN blocks : Rank(h) <= n => h \in f[n])
<1> DEFINE Meets(k) ==
             /\ f[k] \subseteq DOMAIN blocks
             /\ (f[k] \cap stop # {} \/ \A h \in DOMAIN blocks : Rank(h) <= k => h \in f[k])
           T == {k \in 0 .. c : ~Meets(k)}
<1> SUFFICES ASSUME T # {} PROVE FALSE
  OBVIOUS
<1>0. T \in SUBSET Nat
  OBVIOUS
<1>1. PICK k \in T : \A y \in T : k <= y
  BY <1>0, Least
<1>2. \A j \in 0 .. c : f[j] = IF j = 0 THEN {linkedList} \ {NULL} ELSE Follow(f[j - 1], stop)
  BY DEF IsWalk
<1>3. \A h \in DOMAIN blocks : Rank(h) \in Nat
  BY Ranks
<1>4. CASE k = 0
  <2>1. f[0] = {0} /\ 0 \in DOMAIN blocks
    BY <1>1, <1>2, <1>4, HeapAssumption DEF Chained
  <2>2. ASSUME NEW h \in DOMAIN blocks, h # 0 PROVE ~(Rank(h) <= 0)
    <3>1. PICK g \in DOMAIN blocks : Rank(h) = Rank(g) + 1
      BY <2>2, Ranks
    <3> QED
      BY <1>3, <3>1
  <2> QED
    BY <1>1, <1>4, <2>1, <2>2
<1>5. CASE k # 0
  <2>1. k \in Nat /\ k \in 0 .. c /\ k - 1 \in 0 .. c /\ k - 1 \notin T
    BY <1>1, <1>5
  <2>2. Meets(k - 1)
    BY <2>1
  <2>3. f[k] = f[k - 1] \cup ({blocks[h].next : h \in (f[k - 1] \cap DOMAIN blocks) \ stop} \ {NULL})
    BY <1>2, <1>5, <2>1 DEF Follow
  <2>4. \A h \in DOMAIN blocks : blocks[h].next \in DOMAIN blocks \cup {NULL}
    BY DEF Chained
  <2>5. f[k] \subseteq DOMAIN blocks
    BY <2>2, <2>3, <2>4
  <2>6. ASSUME f[k - 1] \cap stop = {}, NEW h \in DOMAIN blocks, Rank(h) <= k
        PROVE  h \in f[k]
    <3>1. \A g \in DOMAIN blocks : Rank(g) <= k - 1 => g \in f[k - 1]
      BY <2>2, <2>6
    <3>2. CASE h = 0
      <4>1. Rank(0) = 0
        <5>1. Before(0) = {}
          BY DEF Before, IInv, TypeOK
        <5> QED
          BY <5>1, FS_EmptySet DEF Rank
      <4> QED
        BY <2>1, <2>3, <3>1, <3>2, <4>1
    <3>3. CASE h # 0
      <4>1. PICK g \in DOMAIN blocks : blocks[g].next = h /\ Rank(h) = Rank(g) + 1
        BY <3>3, Ranks
      <4>2. g \in f[k - 1]
        BY <1>3, <2>1, <2>6, <3>1, <4>1
      <4>3. h # NULL /\ g \notin stop
        BY <2>6, <4>2, HeapAssumption DEF IInv, TypeOK
      <4> QED
        BY <2>3, <4>1, <4>2, <4>3
    <3> QED
      BY <3>2, <3>3
  <2>7. Meets(k)
    BY <2>3, <2>5, <2>6
  <2> QED
    BY <1>1, <2>7
<1> QED
  BY <1>4, <1>5

\* A walk that does not stop meets every header.
LEMMA WalkAll ==
  ASSUME IInv, Chained, linkedList = 0, NEW stop
  PROVE  /\ Visited(stop) \subseteq DOMAIN blocks
         /\ Found(stop) = {} => Visited(stop) = DOMAIN blocks
<1> DEFINE c == Cardinality(DOMAIN blocks)
<1>1. c \in Nat
  BY FS_CardinalityType DEF Chained
<1>2. PICK f : IsWalk(f, c, stop) /\ Visited(stop) = f[c]
  BY <1>1, VisitedIs
<1>3. \A h \in DOMAIN blocks : Rank(h) \in Nat /\ Rank(h) < c
  BY Ranks
<1> HIDE DEF c
<1>4. /\ f[c] \subseteq DOMAIN blocks
      /\ (f[c] \cap stop # {} \/ \A h \in DOMAIN blocks : Rank(h) <= c => h \in f[c])
  <2>1. c \in 0 .. c
    BY <1>1
  <2> QED
    BY <1>1, <1>2, <2>1, WalkMeets
<1> QED
  BY <1>1, <1>2, <1>3, <1>4 DEF Found

-----------------------------------------------------------------------------
\* The list stays whole

\* After an expansion there is a block for the call.
Sufficient == expansions = 0 \/ (expansions = 1 /\ pc = "search" /\ Fit(asked) # {})

ListInv == IInv /\ Chained /\ Sufficient

\* Blocks at the same addresses, with the same sizes and links.
LEMMA ListKept ==
  ASSUME IInv, Chained, UNCHANGED << blocks, linkedList >>, BlocksEnd' = BlocksEnd,
         linkedList = NULL => ~Ready' /\ asked' = 0
  PROVE  Chained'
BY DEF Chained, blockEndAddr

\* alloc cuts a block in two: the new header is linked between it and the next.
LEMMA ListCut ==
  ASSUME IInv, Chained, AllocFit
  PROVE  Chained'
<1> DEFINE n == alignedSize(asked)
<1>1. asked \in Nat /\ n \in Nat
  BY Sizing DEF IInv, TypeOK
<1>2. /\ pc = "search" /\ pc' = "idle" /\ UNCHANGED << linkedList, KERNEL_HEAP_END >>
      /\ asked' = 0
  BY DEF AllocFit, Return
<1>3. linkedList = 0 /\ BlocksEnd' = BlocksEnd /\ 0 # NULL
  BY <1>2, HeapAssumption DEF Chained, Ready, BlocksEnd, IInv, TypeOK
<1>4. PICK h \in Found(Fit(asked)) :
        IF Splits(h, n) THEN blocks' = Split(h, n) ELSE UNCHANGED blocks
  BY DEF AllocFit
<1> DEFINE rest == h + HeaderSize + n
<1> HIDE DEF n
<1>5. h \in DOMAIN blocks /\ h \in Nat /\ blocks[h].size \in Nat
  BY Stops DEF Fit, IInv, TypeOK
<1>6. CASE ~Splits(h, n)
  BY <1>2, <1>3, <1>4, <1>6, ListKept
<1>7. CASE Splits(h, n)
  <2>1. /\ rest \in Nat /\ h < rest /\ rest < h + HeaderSize + blocks[h].size
        /\ rest + HeaderSize + (blocks[h].size - n - HeaderSize) = h + HeaderSize + blocks[h].size
    BY <1>1, <1>5, <1>7 DEF Splits, minSplitSize, HeaderSize
  <2>2. rest \notin DOMAIN blocks /\ rest # h
    BY <1>5, <2>1 DEF IInv, Apart, HeaderSize
  <2>3. /\ DOMAIN blocks' = DOMAIN blocks \cup {rest}
        /\ blocks'[rest] = [size |-> blocks[h].size - n - HeaderSize, next |-> blocks[h].next]
        /\ blocks'[h] = [size |-> n, next |-> rest]
        /\ \A g \in DOMAIN blocks \ {h} : blocks'[g] = blocks[g]
    BY <1>4, <1>5, <1>7, <2>2 DEF Split
  <2>4. /\ blocks'[rest].next = blocks[h].next /\ rest + HeaderSize + blocks'[rest].size = blockEndAddr(h)
        /\ blocks'[h].next = rest /\ h + HeaderSize + blocks'[h].size = rest
    BY <2>1, <2>3 DEF blockEndAddr
  <2> HIDE DEF rest
  <2>5. IsFiniteSet(DOMAIN blocks')
    BY <2>3, FS_AddElement DEF Chained
  <2>6. ASSUME NEW g \in DOMAIN blocks'
        PROVE  IF blocks'[g].next = NULL THEN g + HeaderSize + blocks'[g].size = BlocksEnd
               ELSE /\ blocks'[g].next \in DOMAIN blocks'
                    /\ blocks'[g].next = g + HeaderSize + blocks'[g].size
    <3>1. CASE g = h
      BY <2>1, <2>3, <2>4, <3>1, HeapAssumption
    <3>2. CASE g = rest
      <4>1. IF blocks[h].next = NULL THEN blockEndAddr(h) = BlocksEnd
            ELSE blocks[h].next \in DOMAIN blocks /\ blocks[h].next = blockEndAddr(h)
        BY <1>5 DEF Chained
      <4> QED
        BY <2>3, <2>4, <3>2, <4>1
    <3>3. CASE g \in DOMAIN blocks \ {h}
      <4>1. IF blocks[g].next = NULL THEN blockEndAddr(g) = BlocksEnd
            ELSE blocks[g].next \in DOMAIN blocks /\ blocks[g].next = blockEndAddr(g)
        BY <3>3 DEF Chained
      <4> QED
        BY <2>3, <3>3, <4>1 DEF blockEndAddr
    <3> QED
      BY <2>3, <3>1, <3>2, <3>3
  <2>7. ASSUME NEW x \in DOMAIN blocks' \ {0}
        PROVE  \E g \in DOMAIN blocks' : blocks'[g].next = x
    <3>1. CASE x = rest
      BY <1>5, <2>3, <2>4, <3>1
    <3>2. CASE x # rest
      <4>1. PICK g \in DOMAIN blocks : blocks[g].next = x
        BY <2>3, <3>2 DEF Chained
      <4> QED
        BY <2>3, <2>4, <4>1
    <3> QED
      BY <3>1, <3>2
  <2>8. linkedList' = 0 /\ 0 \in DOMAIN blocks'
    BY <1>2, <1>3, <2>3 DEF Chained
  <2> QED
    BY <1>3, <2>5, <2>6, <2>7, <2>8 DEF Chained, blockEndAddr
<1> QED
  BY <1>6, <1>7

\* What is last ends where the blocks end, and nothing else does.
LEMMA LastBlock ==
  ASSUME IInv, Chained, NEW h \in DOMAIN blocks, blockEndAddr(h) = BlocksEnd
  PROVE  /\ blocks[h].next = NULL
         /\ \A g \in DOMAIN blocks \ {h} : blocks[g].next # NULL
<1>1. \A g \in DOMAIN blocks : /\ g \in Nat /\ blocks[g].size \in Nat
                               /\ g + HeaderSize + blocks[g].size <= BlocksEnd
  BY DEF IInv, TypeOK, Placed
<1>2. BlocksEnd \in Nat
  BY DEF IInv, TypeOK, BlocksEnd
<1>3. blocks[h].next = NULL
  <2>1. BlocksEnd \notin DOMAIN blocks
    BY <1>1, <1>2 DEF HeaderSize
  <2> QED
    BY <2>1 DEF Chained
<1>4. ASSUME NEW g \in DOMAIN blocks, g # h, blocks[g].next = NULL PROVE FALSE
  <2>1. g + HeaderSize + blocks[g].size = h + HeaderSize + blocks[h].size
    BY <1>4 DEF Chained, blockEndAddr
  <2>2. g < h \/ h < g
    BY <1>1, <1>4
  <2>3. (g < h => g + HeaderSize + blocks[g].size <= h) /\ (h < g => h + HeaderSize + blocks[h].size <= g)
    BY DEF IInv, Apart
  <2> QED
    BY <1>1, <2>1, <2>2, <2>3 DEF HeaderSize
<1> QED
  BY <1>3, <1>4

\* Back from expand alloc finds the last block, and afterwards one that is
\* large enough.
LEMMA ListGrown ==
  ASSUME IInv, Chained, Expanded
  PROVE  Chained' /\ Fit(asked)' # {}
<1> DEFINE size == Page * newPageCount(asked)
           atOldEnd == {h \in DOMAIN blocks : blockEndAddr(h) = oldEnd}
<1>1. /\ pc = "expand" /\ left = 0 /\ asked \in Nat /\ asked # 0 /\ pc' = "search"
      /\ oldEnd \in Nat /\ KERNEL_HEAP_END \in Nat /\ UNCHANGED << linkedList, KERNEL_HEAP_END, asked, oldEnd >>
  BY DEF Expanded, IInv, TypeOK
<1>2. size \in Nat /\ alignedSize(asked) \in Nat /\ alignedSize(asked) + HeaderSize <= size
  <2>1. newPageCount(asked) \in Nat /\ alignedSize(asked) \in Nat /\ alignedSize(asked) + HeaderSize <= size
    BY <1>1, Sizing
  <2>2. size \in Nat
    BY <2>1 DEF Page
  <2> QED
    BY <2>1, <2>2
<1>3. KERNEL_HEAP_END = oldEnd + size
  <2>1. KERNEL_HEAP_END + Page * left = oldEnd + size
    BY <1>1 DEF IInv, Growing
  <2>2. Page * left = 0
    BY <1>1 DEF Page
  <2> QED
    BY <1>1, <2>1, <2>2
<1>4. BlocksEnd = oldEnd /\ BlocksEnd' = oldEnd + size
  BY <1>1, <1>3 DEF BlocksEnd
<1>5. linkedList = 0 /\ linkedList' = 0 /\ 0 # NULL
  BY <1>1, HeapAssumption DEF Chained, IInv, TypeOK
<1>6. PICK h \in DOMAIN blocks :
        /\ blockEndAddr(h) = oldEnd
        /\ IF h \in isFree THEN blocks' = Grown(h, size) /\ UNCHANGED isFree
                           ELSE blocks' = Appended(h, size) /\ isFree' = isFree \cup {oldEnd}
  <2>1. Found(atOldEnd) # {}
    <3> SUFFICES ASSUME NotFound(atOldEnd) PROVE FALSE
      BY DEF Expanded
    <3>1. PICK h \in Visited(atOldEnd) : blocks[h].next = NULL
      BY DEF NotFound
    <3>2. h \in DOMAIN blocks
      BY <1>5, <3>1, WalkAll
    <3>3. h \in atOldEnd
      BY <1>4, <3>1, <3>2 DEF Chained
    <3> QED
      BY <3>1, <3>3 DEF NotFound, Found
  <2>2. \E h \in Found(atOldEnd) :
          IF h \in isFree THEN blocks' = Grown(h, size) /\ UNCHANGED isFree
                          ELSE blocks' = Appended(h, size) /\ isFree' = isFree \cup {oldEnd}
    BY <2>1 DEF Expanded, NotFound
  <2>3. Found(atOldEnd) \subseteq atOldEnd
    BY Stops
  <2> QED
    BY <2>2, <2>3
<1> HIDE DEF size, atOldEnd
<1>7. /\ blocks[h].next = NULL /\ \A g \in DOMAIN blocks \ {h} : blocks[g].next # NULL
      /\ h \in Nat /\ blocks[h].size \in Nat /\ h + HeaderSize + blocks[h].size = oldEnd
      /\ blocks[h] \in [size : Nat, next : Nat \cup {NULL}]
  BY <1>4, <1>6, LastBlock DEF IInv, TypeOK, blockEndAddr
<1>8. \A g \in DOMAIN blocks \ {h} :
        blocks[g].next \in DOMAIN blocks /\ blocks[g].next = g + HeaderSize + blocks[g].size
  BY <1>7 DEF Chained, blockEndAddr
<1>9. CASE h \in isFree
  <2>1. /\ DOMAIN blocks' = DOMAIN blocks /\ blocks'[h].size = blocks[h].size + size
        /\ blocks'[h].next = NULL /\ \A g \in DOMAIN blocks \ {h} : blocks'[g] = blocks[g]
        /\ isFree' = isFree
    BY <1>6, <1>7, <1>9 DEF Grown
  <2>2. h \in Fit(asked)'
    BY <1>1, <1>2, <1>7, <1>9, <2>1 DEF Fit, HeaderSize
  <2>3. ASSUME NEW g \in DOMAIN blocks
        PROVE  IF blocks'[g].next = NULL THEN g + HeaderSize + blocks'[g].size = oldEnd + size
               ELSE /\ blocks'[g].next \in DOMAIN blocks'
                    /\ blocks'[g].next = g + HeaderSize + blocks'[g].size
    <3>1. CASE g = h
      BY <1>2, <1>7, <2>1, <3>1 DEF HeaderSize
    <3>2. CASE g # h
      BY <1>7, <1>8, <2>1, <3>2
    <3> QED
      BY <3>1, <3>2
  <2>4. \A x \in DOMAIN blocks \ {0} : \E g \in DOMAIN blocks : blocks'[g].next = x
    <3>1. \A g \in DOMAIN blocks : blocks'[g].next = blocks[g].next
      BY <1>7, <2>1
    <3> QED
      BY <3>1 DEF Chained
  <2>5. IsFiniteSet(DOMAIN blocks') /\ 0 \in DOMAIN blocks'
    BY <1>5, <2>1 DEF Chained
  <2> QED
    BY <1>4, <1>5, <2>1, <2>2, <2>3, <2>4, <2>5 DEF Chained, blockEndAddr
<1>10. CASE h \notin isFree
  <2>1. oldEnd \notin DOMAIN blocks /\ oldEnd # h /\ oldEnd # NULL
    <3>1. \A g \in DOMAIN blocks : g \in Nat /\ blocks[g].size \in Nat /\ g + HeaderSize + blocks[g].size <= oldEnd
      BY <1>4 DEF IInv, TypeOK, Placed
    <3> QED
      BY <1>1, <1>6, <3>1, HeapAssumption DEF HeaderSize
  <2>2. /\ DOMAIN blocks' = DOMAIN blocks \cup {oldEnd}
        /\ blocks'[oldEnd] = [size |-> size - HeaderSize, next |-> NULL]
        /\ blocks'[h] = [blocks[h] EXCEPT !.next = oldEnd]
        /\ \A g \in DOMAIN blocks \ {h} : blocks'[g] = blocks[g]
        /\ isFree' = isFree \cup {oldEnd}
    BY <1>6, <1>10, <2>1 DEF Appended
  <2>3. /\ blocks'[oldEnd].size = size - HeaderSize /\ blocks'[oldEnd].next = NULL
        /\ blocks'[h].size = blocks[h].size /\ blocks'[h].next = oldEnd
    BY <1>7, <2>2
  <2>4. oldEnd \in Fit(asked)'
    BY <1>1, <1>2, <2>2, <2>3 DEF Fit, HeaderSize
  <2>5. ASSUME NEW g \in DOMAIN blocks'
        PROVE  IF blocks'[g].next = NULL THEN g + HeaderSize + blocks'[g].size = oldEnd + size
               ELSE /\ blocks'[g].next \in DOMAIN blocks'
                    /\ blocks'[g].next = g + HeaderSize + blocks'[g].size
    <3>1. CASE g = h
      BY <1>7, <2>1, <2>2, <2>3, <3>1
    <3>2. CASE g = oldEnd
      BY <1>1, <1>2, <2>3, <3>2 DEF HeaderSize
    <3>3. CASE g \in DOMAIN blocks \ {h}
      BY <1>7, <1>8, <2>2, <3>3
    <3> QED
      BY <2>2, <3>1, <3>2, <3>3
  <2>6. ASSUME NEW x \in DOMAIN blocks' \ {0} PROVE \E g \in DOMAIN blocks' : blocks'[g].next = x
    <3>1. CASE x = oldEnd
      BY <1>6, <2>2, <2>3, <3>1
    <3>2. CASE x # oldEnd
      <4>1. PICK g \in DOMAIN blocks : blocks[g].next = x
        BY <2>2, <3>2 DEF Chained
      <4>2. x # NULL
        BY <2>2, <3>2, HeapAssumption DEF IInv, TypeOK
      <4> QED
        BY <1>7, <2>2, <4>1, <4>2
    <3> QED
      BY <3>1, <3>2
  <2>7. IsFiniteSet(DOMAIN blocks') /\ 0 \in DOMAIN blocks'
    BY <1>5, <2>2, FS_AddElement DEF Chained
  <2> QED
    BY <1>4, <1>5, <2>4, <2>5, <2>6, <2>7 DEF Chained, blockEndAddr
<1> QED
  BY <1>9, <1>10

\* Every step keeps the list whole; after an expansion alloc finds a block.
LEMMA ListStep ==
  ASSUME ListInv, [Next]_vars
  PROVE  ListInv'
<1> USE DEF ListInv
<1>1. IInv'
  BY StepInv
<1>2. CASE AllocFit
  <2>1. Sufficient'
    BY <1>2 DEF AllocFit, Return, Sufficient
  <2> QED
    BY <1>1, <1>2, <2>1, ListCut
<1>3. CASE Expanded
  <2>1. expansions = 0 /\ expansions' = 1 /\ pc' = "search"
    BY <1>3 DEF Sufficient, Expanded
  <2> QED
    BY <1>1, <1>3, <2>1, ListGrown DEF Sufficient
<1>4. CASE InitDone
  <2>1. /\ blocks' = [h \in {0} |-> [size |-> KERNEL_HEAP_END - HeaderSize, next |-> NULL]]
        /\ linkedList' = 0 /\ pc' = "idle" /\ KERNEL_HEAP_END' = KERNEL_HEAP_END /\ expansions' = 0
        /\ KERNEL_HEAP_END \in Nat
    BY <1>4 DEF InitDone, Return, IInv, TypeOK
  <2>2. /\ DOMAIN blocks' = {0} /\ blocks'[0].next = NULL
        /\ 0 + HeaderSize + blocks'[0].size = KERNEL_HEAP_END
    BY <2>1 DEF HeaderSize
  <2>3. BlocksEnd' = KERNEL_HEAP_END /\ linkedList' # NULL
    BY <2>1, HeapAssumption DEF BlocksEnd
  <2>4. IsFiniteSet(DOMAIN blocks')
    BY <2>2, FS_Singleton
  <2>5. Chained'
    BY <2>1, <2>2, <2>3, <2>4 DEF Chained, blockEndAddr
  <2> QED
    BY <1>1, <2>1, <2>5 DEF Sufficient
<1>5. ASSUME UNCHANGED << blocks, linkedList >>, BlocksEnd' = BlocksEnd,
             linkedList = NULL => ~Ready' /\ asked' = 0, expansions' = 0 \/ UNCHANGED vars
               \/ (expansions' = expansions /\ expansions = 0)
      PROVE  ListInv'
  <2>1. Chained'
    BY <1>5, ListKept
  <2>2. Sufficient'
    BY <1>5 DEF Sufficient, vars, Fit
  <2> QED
    BY <1>1, <2>1, <2>2
<1>6. CASE init
  <2>1. Sufficient => expansions = 0
    BY <1>6 DEF init, Sufficient
  <2> QED
    BY <1>5, <1>6, <2>1 DEF init, BlocksEnd, Ready
<1>7. ASSUME NEW size \in Sizes, New(size) PROVE ListInv'
  <2>1. expansions = 0 /\ linkedList # NULL
    BY <1>7 DEF New, Sufficient, Chained, Ready
  <2> QED
    BY <1>5, <1>7, <2>1 DEF New, BlocksEnd
<1>8. CASE AllocExpand
  <2>1. linkedList = 0
    BY <1>8 DEF AllocExpand, Chained, Ready, IInv, TypeOK
  <2>2. expansions = 0
    <3>1. ASSUME Fit(asked) # {} PROVE FALSE
      <4>1. Found(Fit(asked)) = {} /\ Fit(asked) \subseteq DOMAIN blocks
        BY <1>8 DEF AllocExpand, NotFound, Fit, IInv, TypeOK
      <4>2. Visited(Fit(asked)) = DOMAIN blocks
        BY <2>1, <4>1, WalkAll
      <4> QED
        BY <3>1, <4>1, <4>2 DEF Found
    <3> QED
      BY <3>1 DEF Sufficient
  <2>3. linkedList # NULL
    BY <2>1, HeapAssumption
  <2> QED
    BY <1>5, <1>8, <2>2, <2>3 DEF AllocExpand, BlocksEnd
<1>9. CASE ExpandPage \/ ExpandFails \/ RollBackPage
  <2>1. /\ UNCHANGED << blocks, linkedList, asked, expansions, oldEnd >> /\ ~Ready /\ ~Ready'
        /\ BlocksEnd' = BlocksEnd /\ pc # "search"
    BY <1>9 DEF ExpandPage, ExpandFails, RollBackPage, Ready, BlocksEnd
  <2> QED
    BY <1>5, <2>1 DEF Sufficient, Chained
<1>10. CASE RolledBack
  <2>1. UNCHANGED << blocks, linkedList >> /\ BlocksEnd' = BlocksEnd /\ expansions = 0 /\ expansions' = 0
    BY <1>10 DEF RolledBack, Return, BlocksEnd, Sufficient
  <2>2. linkedList = NULL => ~Ready' /\ asked' = 0
    BY <1>10 DEF RolledBack, Return, Chained, Ready
  <2> QED
    BY <1>5, <2>1, <2>2
<1>11. ASSUME NEW piece \in live, Delete(piece) PROVE ListInv'
  <2>1. UNCHANGED << blocks, linkedList, pc, asked, KERNEL_HEAP_END, oldEnd, expansions >> /\ pc = "idle"
    BY <1>11 DEF Delete
  <2> QED
    BY <1>5, <2>1 DEF Sufficient, Chained, Ready, BlocksEnd
<1>12. CASE UNCHANGED vars
  BY <1>5, <1>12 DEF vars, BlocksEnd, Ready, Chained
<1> QED
  BY <1>2, <1>3, <1>4, <1>6, <1>7, <1>8, <1>9, <1>10, <1>11, <1>12 DEF Next, InCall

\* In every state the list is whole, over the invariant of the blocks.
LEMMA ListInductive == Spec => []ListInv
<1>1. Init => ListInv
  <2> SUFFICES ASSUME Init PROVE ListInv
    OBVIOUS
  <2>1. DOMAIN blocks = {} /\ linkedList = NULL /\ asked = 0 /\ pc = "boot" /\ expansions = 0
    BY DEF Init
  <2>2. Chained
    BY <2>1, FS_EmptySet, HeapAssumption DEF Chained, Ready
  <2> QED
    BY <2>1, <2>2, InitInv DEF ListInv, Sufficient
<1>2. ListInv /\ [Next]_vars => ListInv'
  BY ListStep
<1> QED
  BY <1>1, <1>2, PTL DEF Spec

\* Between calls the list tiles the heap, whatever has been split, appended
\* and grown (KernelHeap.cpp:67-77, 96-118).
THEOREM ListTilesHeap == Spec => []Tiling
<1>1. ListInv => Tiling
  <2> SUFFICES ASSUME ListInv, Ready PROVE Tiling
    BY DEF Tiling
  <2>1. linkedList = 0
    BY DEF ListInv, Chained, IInv, TypeOK
  <2>2. Visited({}) = DOMAIN blocks
    BY <2>1, WalkAll DEF ListInv, Found
  <2>3. BlocksEnd = KERNEL_HEAP_END
    BY DEF BlocksEnd, Ready
  <2> QED
    BY <2>1, <2>2, <2>3 DEF ListInv, Chained, Tiling
<1> QED
  BY <1>1, ListInductive, PTL

\* alloc calls itself at most once: the walk that stops at no block is the
\* whole list, so it finds what expand has added (KernelHeap.cpp:79-128).
THEOREM OneExpansion == Spec => []ExpandsAtMostOnce
<1>1. ListInv => ExpandsAtMostOnce
  BY DEF ListInv, Sufficient, ExpandsAtMostOnce
<1> QED
  BY <1>1, ListInductive, PTL

-----------------------------------------------------------------------------
(***************************************************************************)
(* The heap over page tables and frames is the heap of KernelHeap: what    *)
(* the frames decide is among what KernelHeap leaves open.  So what is     *)
(* proved above of KernelHeap holds of the composition.                    *)
(*                                                                         *)
(* Likewise its steps are steps of the page tables of VirtualMemory, so    *)
(* their invariant holds as well.  For that the heap must map only pages   *)
(* that are not mapped and free only those that are: the invariant that    *)
(* ties the two together says that exactly the pages below                 *)
(* KERNEL_HEAP_END are mapped.                                             *)
(***************************************************************************)

\* A step of the composition is a step of the heap, or none of its own.
LEMMA HeapSteps == MemoryNext => [Next]_vars
<1> SUFFICES ASSUME MemoryNext PROVE [Next]_vars
  OBVIOUS
<1>1. CASE NewKernel \/ Unmap \/ (\E v \in Vmm \ {Kernel} : CreateSpace(v)) \/ (\E v \in Vmm : Switch(v))
  BY <1>1 DEF NewKernel, Unmap, CreateSpace, Switch
<1>2. CASE Boot
  BY <1>2 DEF Boot, Next
<1>3. CASE HeapStep(AllocFit \/ AllocExpand \/ InitDone \/ Expanded \/ RolledBack)
  BY <1>3 DEF HeapStep, Next, InCall
<1>4. CASE MapNext \/ MapFails \/ FreeLast
  BY <1>4 DEF MapNext, MapFails, FreeLast, HeapStep, Next, InCall
<1>5. CASE \/ \E size \in Sizes : HeapStep(New(size))
           \/ \E piece \in live : HeapStep(Delete(piece))
  BY <1>5 DEF HeapStep, Next
<1> QED
  BY <1>1, <1>2, <1>3, <1>4, <1>5 DEF MemoryNext, CallStep

\* Whatever frames there are and whichever address space is loaded, the heap
\* behaves as KernelHeap says (KernelHeap.cpp:29-52 over
\* VirtualMemoryManager.cpp:183-197).
THEOREM Composition == MemorySpec => Spec
<1>1. MemoryInit => Init
  BY DEF MemoryInit
<1>2. [MemoryNext]_memory => [Next]_vars
  BY HeapSteps DEF memory
<1> QED
  BY <1>1, <1>2, PTL DEF MemorySpec, Spec

\* Types over real page tables and frames (KernelHeap.cpp).
THEOREM MemoryTypeCorrect == MemorySpec => []TypeOK
BY Composition, TypeCorrect, PTL

\* Ownership over real page tables and frames, exhausted ones included
\* (KernelHeap.cpp:54-133).
THEOREM MemoryOwnership == MemorySpec => []InUseIffLive
BY Composition, Ownership, PTL

\* new and delete over real page tables and frames (KernelHeap.cpp,
\* cxxabi.cpp:18-41).
THEOREM MemoryRefinement == MemorySpec => ImplementsAllocator
BY Composition, Refinement, PTL DEF ImplementsAllocator, Abstract!Spec

-----------------------------------------------------------------------------
\* The tables of the composition, and what is proved of them

\* The instance the proofs are of; the one of KernelMemory has the same
\* definitions under other names.
Proofs == INSTANCE VirtualMemoryProofs WITH
  Pages <- {AddressOf(i) : i \in 0 .. MaxPages - 1}

\* They are the same: the walks ...
LEMMA SameWalks ==
  \A m, root, va :
    /\ Tables!Pdpt(m, root, va) = Proofs!Pdpt(m, root, va)
    /\ Tables!Pd(m, root, va) = Proofs!Pd(m, root, va)
    /\ Tables!Pt(m, root, va) = Proofs!Pt(m, root, va)
    /\ Tables!Mapped(m, root, va) = Proofs!Mapped(m, root, va)
    /\ Tables!toPhysicalAddress(m, root, va) = Proofs!toPhysicalAddress(m, root, va)
    /\ Tables!Freed(m, root, va) = Proofs!Freed(m, root, va)
    /\ Tables!Touched(m, root, va) = Proofs!Touched(m, root, va)
<1> TAKE m, root, va
<1>1. \A t, i : Tables!Entry(m, t, i) = Proofs!Entry(m, t, i)
  BY DEF Tables!Entry, Proofs!Entry
<1>2. Tables!Pdpt(m, root, va) = Proofs!Pdpt(m, root, va)
  BY <1>1 DEF Tables!Pdpt, Proofs!Pdpt
<1>3. Tables!Pd(m, root, va) = Proofs!Pd(m, root, va)
  BY <1>1, <1>2 DEF Tables!Pd, Proofs!Pd
<1>4. Tables!Pt(m, root, va) = Proofs!Pt(m, root, va)
  BY <1>1, <1>3 DEF Tables!Pt, Proofs!Pt
<1>5. Tables!Mapped(m, root, va) = Proofs!Mapped(m, root, va)
  BY <1>1, <1>4 DEF Tables!Mapped, Proofs!Mapped
<1>6. Tables!toPhysicalAddress(m, root, va) = Proofs!toPhysicalAddress(m, root, va)
  BY <1>5 DEF Tables!toPhysicalAddress, Proofs!toPhysicalAddress
<1> QED
  BY <1>2, <1>3, <1>4, <1>5, <1>6 DEF Tables!Touched, Proofs!Touched, Tables!Freed, Proofs!Freed

\* ... the frames and the state between calls ...
LEMMA SameFrames ==
  /\ \A F : Tables!FrameOf(F) = Proofs!FrameOf(F)
  /\ Tables!Empty = Proofs!Empty /\ Tables!Usable = Proofs!Usable /\ Tables!BootTables = Proofs!BootTables
  /\ Tables!Roots = Proofs!Roots /\ Tables!Constructed = Proofs!Constructed
  /\ \A i : Tables!KernelHalf(i) <=> Proofs!KernelHalf(i)
  /\ (Tables!Returned <=> Proofs!Returned) /\ (Tables!MayCall <=> Proofs!MayCall)
  /\ \A S : Tables!Cardinality(S) = Proofs!Cardinality(S)
  /\ Tables!vars = Proofs!vars
<1>1. \A F : Tables!FrameOf(F) = Proofs!FrameOf(F)
  BY DEF Tables!FrameOf, Proofs!FrameOf
<1>2. Tables!Empty = Proofs!Empty
  BY DEF Tables!Empty, Proofs!Empty, Tables!Index, Proofs!Index
<1>3. Tables!BootTables = Proofs!BootTables
  BY DEF Tables!BootTables, Proofs!BootTables, Tables!DirectPds, Proofs!DirectPds, Tables!DirectPts, Proofs!DirectPts
<1>4. Tables!Usable = Proofs!Usable
  BY <1>3 DEF Tables!Usable, Proofs!Usable
<1>5. Tables!Constructed = Proofs!Constructed
  BY DEF Tables!Constructed, Proofs!Constructed
<1>6. Tables!Roots = Proofs!Roots
  BY <1>5 DEF Tables!Roots, Proofs!Roots
<1>7. \A i : Tables!KernelHalf(i) <=> Proofs!KernelHalf(i)
  BY DEF Tables!KernelHalf, Proofs!KernelHalf
<1>8. (Tables!Returned <=> Proofs!Returned) /\ (Tables!MayCall <=> Proofs!MayCall)
  BY DEF Tables!Returned, Proofs!Returned, Tables!MayCall, Proofs!MayCall
<1>9. \A S : Tables!Cardinality(S) = Proofs!Cardinality(S)
  BY DEF Tables!Cardinality, Proofs!Cardinality
<1>10. Tables!vars = Proofs!vars
  BY DEF Tables!vars, Proofs!vars
<1> QED
  BY <1>1, <1>2, <1>3, <1>4, <1>5, <1>6, <1>7, <1>8, <1>9, <1>10

\* ... mapPage ...
LEMMA SameMapPage ==
  ASSUME NEW s, NEW root, NEW va, NEW f
  PROVE  Tables!mapPage(s, root, va, f) = Proofs!mapPage(s, root, va, f)
<1>1. \A r, t, i : Tables!NextTable(r, t, i) = Proofs!NextTable(r, t, i)
  BY SameFrames DEF Tables!NextTable, Proofs!NextTable
<1> DEFINE s1   == Proofs!NextTable(s, root, va[1])
           pdpt == s1.mem[root][va[1]]
           s2   == Proofs!NextTable(s1, pdpt, va[2])
           pd   == s2.mem[pdpt][va[2]]
           s3   == Proofs!NextTable(s2, pd, va[3])
           pt   == s3.mem[pd][va[3]]
<1>2. Proofs!mapPage(s, root, va, f) = [mem |-> [s3.mem EXCEPT ![pt][va[4]] = f], free |-> s3.free]
  BY DEF Proofs!mapPage
<1>3. Tables!mapPage(s, root, va, f) = [mem |-> [s3.mem EXCEPT ![pt][va[4]] = f], free |-> s3.free]
  BY <1>1 DEF Tables!mapPage
<1> QED
  BY <1>2, <1>3

\* ... the calls ...
LEMMA SameCalls ==
  ASSUME NEW v, NEW va
  PROVE  /\ Tables!allocPage(v, va) <=> Proofs!allocPage(v, va)
         /\ Tables!freePage(v, va) <=> Proofs!freePage(v, va)
         /\ Tables!loadCr3(v) <=> Proofs!loadCr3(v)
<1>1. Tables!allocPage(v, va) <=> Proofs!allocPage(v, va)
  BY SameWalks, SameFrames, SameMapPage DEF Tables!allocPage, Proofs!allocPage
<1>2. Tables!freePage(v, va) <=> Proofs!freePage(v, va)
  BY SameWalks, SameFrames DEF Tables!freePage, Proofs!freePage
<1> QED
  BY <1>1, <1>2, SameFrames DEF Tables!loadCr3, Proofs!loadCr3

\* ... and the rest of freePage ...
LEMMA SameUnmap ==
   /\ Tables!unmapPage <=> Proofs!unmapPage
   /\ Tables!ForgetTable <=> Proofs!ForgetTable
<1>1. \A f : Tables!toVirtualHhdmAddress(f) = Proofs!toVirtualHhdmAddress(f)
  BY DEF Tables!toVirtualHhdmAddress, Proofs!toVirtualHhdmAddress, Tables!DirectMap, Proofs!DirectMap
<1>2. \A t : Tables!IsEmpty(t) <=> Proofs!IsEmpty(t)
  BY SameFrames DEF Tables!IsEmpty, Proofs!IsEmpty
<1>3. Tables!unmapPage <=> Proofs!unmapPage
  BY <1>1, <1>2, SameWalks DEF Tables!unmapPage, Proofs!unmapPage
<1>4. Tables!ForgetTable <=> Proofs!ForgetTable
  BY SameWalks DEF Tables!ForgetTable, Proofs!ForgetTable
<1> QED
  BY <1>3, <1>4

\* ... new address spaces ...
LEMMA SameNew ==
  /\ Tables!NewKernel <=> Proofs!NewKernel
  /\ \A v : Tables!New(v) <=> Proofs!New(v)
<1>1. ASSUME NEW v, NEW F PROVE Tables!Construct(v, F) <=> Proofs!Construct(v, F)
  BY SameFrames DEF Tables!Construct, Proofs!Construct, Tables!Copied, Proofs!Copied, Tables!Index, Proofs!Index
<1>2. Tables!HeapExists <=> Proofs!HeapExists
  BY SameFrames, SameWalks DEF Tables!HeapExists, Proofs!HeapExists
<1>3. Tables!NewKernel <=> Proofs!NewKernel
  BY <1>1, SameFrames DEF Tables!NewKernel, Proofs!NewKernel
<1> QED
  BY <1>1, <1>2, <1>3 DEF Tables!New, Proofs!New

\* ... and what every frame is used for.
LEMMA SamePurpose == \A u : Tables!OnePurpose(u) <=> Proofs!OnePurpose(u)
<1>1. \A E : Tables!Named(E) = Proofs!Named(E)
  BY DEF Tables!Named, Proofs!Named
<1>2. \A T : Tables!Present(T) = Proofs!Present(T)
  BY DEF Tables!Present, Proofs!Present, Tables!Index, Proofs!Index
<1>3. Tables!TopEntries = Proofs!TopEntries
  BY <1>2, SameFrames DEF Tables!TopEntries, Proofs!TopEntries, Tables!DirectMap, Proofs!DirectMap
<1>4. Tables!PdptEntries = Proofs!PdptEntries
  BY <1>1, <1>2, <1>3 DEF Tables!PdptEntries, Proofs!PdptEntries
<1>5. Tables!PdEntries = Proofs!PdEntries
  BY <1>1, <1>2, <1>4 DEF Tables!PdEntries, Proofs!PdEntries
<1>6. Tables!PtEntries = Proofs!PtEntries
  BY <1>1, <1>2, <1>5 DEF Tables!PtEntries, Proofs!PtEntries
<1> QED
  BY <1>1, <1>3, <1>4, <1>5, <1>6, SameFrames DEF Tables!OnePurpose, Proofs!OnePurpose

\* The pages of the heap have addresses, each its own.
LEMMA Addresses ==
  ASSUME NEW i \in 0 .. MaxPages - 1
  PROVE  /\ AddressOf(i) \in Proofs!Va /\ AddressOf(i)[1] = HeapTop
         /\ i = (N * AddressOf(i)[3]) + AddressOf(i)[4]
<1>1. i \in Nat /\ i < N * N /\ N \in Nat \ {0, 1} /\ HeapTop \in 0 .. N - 1
  BY HeapAssumption, MemoryAssumption DEF HeapTop
<1>2. i \div N \in 0 .. N - 1 /\ i % N \in 0 .. N - 1 /\ i = (N * (i \div N)) + (i % N)
  <2>1. i \div N \in Nat /\ i % N \in 0 .. N - 1 /\ i = (N * (i \div N)) + (i % N)
    BY <1>1
  <2>2. ASSUME NEW d \in Nat, d >= N, NEW r \in Nat, i = (N * d) + r PROVE FALSE
    <3>1. N * d >= N * N
      BY <1>1, <2>2
    <3> QED
      BY <1>1, <2>2, <3>1
  <2> QED
    BY <1>1, <2>1, <2>2
<1> QED
  BY <1>1, <1>2 DEF AddressOf, Proofs!Va, Proofs!Index

\* The constants are what VirtualMemory assumes: the heap's pages are in one
\* entry of the top level, another than the direct map's.
LEMMA TablesAssumption ==
  /\ Proofs!VirtualMemoryAssumption
  /\ Proofs!KernelHalf(HeapTop) /\ Kernel \in Vmm
<1>1. N \in Nat \ {0, 1} /\ HeapTop # N \div 2 /\ HeapTop >= N \div 2
  BY MemoryAssumption DEF HeapTop
<1>2. Tables!BootTables = Proofs!BootTables /\ Tables!Va = Proofs!Va
  BY SameFrames DEF Tables!Va, Proofs!Va, Tables!Index, Proofs!Index
<1>3. \A va \in {AddressOf(i) : i \in 0 .. MaxPages - 1} :
        va \in {wa \in Proofs!Va : wa[1] # Proofs!DirectMap} /\ va[1] = HeapTop
  BY <1>1, Addresses DEF Proofs!DirectMap
<1> QED
  BY <1>1, <1>2, <1>3, MemoryAssumption DEF Proofs!VirtualMemoryAssumption, Proofs!KernelHalf


-----------------------------------------------------------------------------
\* The heap and its pages

\* The first n pages of the heap.
HeapPages(n) == {AddressOf(i) : i \in 0 .. n - 1}

\* The tables are as VirtualMemoryProofs says, and map the heap's pages below
\* its end: one more while freePage runs, which expand has then counted off.
TablesInv == \E u \in SUBSET Proofs!Usable : u = usable /\ Proofs!IInv(u)
Backed ==
  IF unmapping = NONE
    THEN Proofs!HeapMapped = HeapPages(PageAtEnd)
    ELSE /\ unmapping = << Kernel, AddressOf(PageAtEnd) >>
         /\ PageAtEnd < MaxPages
         /\ Proofs!HeapMapped = HeapPages(PageAtEnd + 1)
MemoryInv ==
  /\ IInv /\ TablesInv
  /\ KERNEL_HEAP_END <= Page * MaxPages
  /\ pc # "boot" => pml4[Kernel] # NONE
  /\ intact /\ pml4[Kernel] # NONE => Backed

\* Pages of the heap have addresses of their own.
LEMMA NextPage ==
  ASSUME NEW k \in Nat, k < MaxPages
  PROVE  /\ AddressOf(k) \in HeapPages(MaxPages) /\ AddressOf(k) \notin HeapPages(k)
         /\ HeapPages(k + 1) = HeapPages(k) \cup {AddressOf(k)}
<1>1. MaxPages \in Nat
  BY HeapAssumption
<1>2. ASSUME NEW i \in 0 .. k - 1 PROVE AddressOf(i) # AddressOf(k)
  <2>1. i \in 0 .. MaxPages - 1 /\ k \in 0 .. MaxPages - 1 /\ i # k
    BY <1>1
  <2>2. /\ i = (N * AddressOf(i)[3]) + AddressOf(i)[4]
        /\ k = (N * AddressOf(k)[3]) + AddressOf(k)[4]
    BY <2>1, Addresses
  <2> QED
    BY <2>1, <2>2
<1>3. 0 .. (k + 1) - 1 = (0 .. k - 1) \cup {k}
  OBVIOUS
<1> QED
  BY <1>1, <1>2, <1>3 DEF HeapPages

\* The end of the heap in pages.
LEMMA EndInPages ==
  ASSUME IInv
  PROVE  /\ PageAtEnd \in Nat /\ KERNEL_HEAP_END = Page * PageAtEnd
         /\ PageAtEnd < MaxPages <=> KERNEL_HEAP_END < Page * MaxPages
         /\ KERNEL_HEAP_END + Page = Page * (PageAtEnd + 1)
         /\ (KERNEL_HEAP_END + Page) \div Page = PageAtEnd + 1
         /\ KERNEL_HEAP_END > 0 =>
              /\ LastPage \in Nat /\ PageAtEnd = LastPage + 1
              /\ KERNEL_HEAP_END - Page = Page * LastPage
<1>1. KERNEL_HEAP_END \in Nat /\ KERNEL_HEAP_END % 4096 = 0 /\ MaxPages \in Nat
  BY HeapAssumption DEF IInv, TypeOK, Growing, Page
<1>2. PICK k \in Nat : KERNEL_HEAP_END = 4096 * k
  BY <1>1
<1>3. /\ (4096 * k) \div 4096 = k /\ (4096 * k + 4096) \div 4096 = k + 1
      /\ (4096 * k - 4096) \div 4096 = k - 1
  OBVIOUS
<1> QED
  BY <1>1, <1>2, <1>3 DEF PageAtEnd, LastPage, Page

\* A step of the composition is a step of the tables, or none of their own.
LEMMA TableSteps ==
  ASSUME MemoryInv, MemoryNext
  PROVE  [Proofs!Next]_(Proofs!vars)
<1> USE SameFrames
<1>1. CASE NewKernel
  BY <1>1, SameNew DEF NewKernel, Proofs!Next
<1>2. CASE Unmap
  BY <1>2, SameUnmap DEF Unmap, Proofs!Next
<1>3. ASSUME NEW v \in Vmm \ {Kernel}, CreateSpace(v) PROVE Proofs!Next
  BY <1>3, SameNew DEF CreateSpace, Proofs!Next
<1>4. ASSUME NEW v \in Vmm, Switch(v) PROVE Proofs!Next
  BY <1>4, SameCalls DEF Switch, Proofs!Next
<1>5. ASSUME UNCHANGED tables PROVE UNCHANGED Proofs!vars
  BY <1>5 DEF tables, Proofs!vars
<1>6. CASE Boot \/ MapFails
  BY <1>5, <1>6 DEF Boot, MapFails, HeapStep
<1>7. CASE \/ HeapStep(AllocFit \/ AllocExpand \/ InitDone \/ Expanded \/ RolledBack)
           \/ \E size \in Sizes : HeapStep(New(size))
           \/ \E piece \in live : HeapStep(Delete(piece))
  BY <1>5, <1>7 DEF HeapStep
<1>8. ASSUME NEW k \in Nat, k < MaxPages, pml4[Kernel] # NONE,
             \/ Proofs!allocPage(Kernel, AddressOf(k)) /\ AddressOf(k) \notin Proofs!HeapMapped
             \/ Proofs!freePage(Kernel, AddressOf(k)) /\ AddressOf(k) \in Proofs!HeapMapped
      PROVE  Proofs!Next
  <2>1. AddressOf(k) \in HeapPages(MaxPages) /\ Proofs!KernelHalf(AddressOf(k)[1])
    BY <1>8, NextPage, TablesAssumption, HeapAssumption DEF AddressOf
  <2>2. Proofs!May(Kernel, AddressOf(k)) /\ Kernel \in Vmm
    BY <1>8, TablesAssumption DEF Proofs!May
  <2>3. AddressOf(k) \in Proofs!HeapMapped
          <=> Proofs!Mapped(mem, pml4[Kernel], AddressOf(k)) # NONE
    BY <2>1 DEF Proofs!HeapMapped, HeapPages
  <2> QED
    BY <1>8, <2>1, <2>2, <2>3 DEF Proofs!Next, HeapPages
<1>9. CASE MapNext
  <2>1. /\ pml4[Kernel] # NONE /\ intact /\ unmapping = NONE
        /\ Proofs!allocPage(Kernel, AddressOf(PageAtEnd)) /\ PageAtEnd \in Nat /\ PageAtEnd < MaxPages
    BY <1>9, SameCalls, EndInPages
       DEF MapNext, ExpandPage, MemoryInv, Proofs!allocPage, Proofs!MayCall, Proofs!Returned, PageAtEnd
  <2>2. AddressOf(PageAtEnd) \notin Proofs!HeapMapped
    BY <2>1, NextPage DEF MemoryInv, Backed
  <2> QED
    BY <1>8, <2>1, <2>2
<1>10. CASE FreeLast
  <2>1. /\ pml4[Kernel] # NONE /\ intact /\ unmapping = NONE
        /\ Proofs!freePage(Kernel, AddressOf(LastPage))
        /\ LastPage \in Nat /\ PageAtEnd = LastPage + 1 /\ LastPage < MaxPages
    <3>1. KERNEL_HEAP_END > 0 /\ KERNEL_HEAP_END <= Page * MaxPages
      BY <1>10 DEF FreeLast, RollBackPage, MemoryInv, IInv, TypeOK
    <3>2. /\ LastPage \in Nat /\ PageAtEnd = LastPage + 1
          /\ PageAtEnd \in Nat /\ KERNEL_HEAP_END = Page * PageAtEnd
      BY <3>1, EndInPages DEF MemoryInv
    <3>3. LastPage < MaxPages
      BY <3>1, <3>2, HeapAssumption DEF Page
    <3> QED
      BY <1>10, <3>2, <3>3, SameCalls
         DEF FreeLast, RollBackPage, MemoryInv, Proofs!freePage, Proofs!MayCall, Proofs!Returned
  <2>2. AddressOf(LastPage) \in Proofs!HeapMapped
    BY <2>1, NextPage DEF MemoryInv, Backed
  <2> QED
    BY <1>8, <2>1, <2>2
<1> QED
  BY <1>1, <1>2, <1>3, <1>4, <1>6, <1>7, <1>9, <1>10 DEF MemoryNext, CallStep

\* At first no frame but those of usable is free, and nothing is mapped.
LEMMA MemoryFirst == ASSUME MemoryInit PROVE MemoryInv
<1>1. IInv /\ KERNEL_HEAP_END = 0 /\ pc = "boot"
  BY InitInv DEF MemoryInit, Init
<1>2. PICK u : u = usable
  OBVIOUS
<1>3. u \in SUBSET Proofs!Usable
  BY <1>2, SameFrames DEF MemoryInit
<1>4. Proofs!InitWith(u)
  <2>1. Tables!BootMem = Proofs!BootMem
    <3>1. \A f, i : Tables!BootEntry(f, i) = Proofs!BootEntry(f, i)
      BY SameFrames DEF Tables!BootEntry, Proofs!BootEntry, Tables!DirectMap, Proofs!DirectMap,
        Tables!DirectPds, Proofs!DirectPds, Tables!DirectPts, Proofs!DirectPts
    <3> QED
      BY <3>1 DEF Tables!BootMem, Proofs!BootMem, Tables!Frame, Proofs!Frame, Tables!Index, Proofs!Index
  <2> QED
    BY <1>2, <2>1 DEF MemoryInit, Tables!InitWith, Proofs!InitWith
<1>5. Proofs!IInv(u)
  BY <1>3, <1>4, TablesAssumption, Proofs!InvFirst
<1>6. pml4[Kernel] = NONE
  BY <1>4, TablesAssumption DEF Proofs!InitWith
<1> QED
  BY <1>1, <1>2, <1>3, <1>5, <1>6, HeapAssumption DEF MemoryInv, TablesInv, Page

\* A step of the heap that leaves the tables and its end alone.
LEMMA BackedKept ==
  ASSUME MemoryInv, intact' /\ pml4'[Kernel] # NONE => intact /\ pml4[Kernel] # NONE,
         unmapping' = unmapping, KERNEL_HEAP_END' = KERNEL_HEAP_END,
         intact' /\ pml4'[Kernel] # NONE => Proofs!HeapMapped' = Proofs!HeapMapped
  PROVE  intact' /\ pml4'[Kernel] # NONE => Backed'
BY DEF MemoryInv, Backed, PageAtEnd

\* The end of the heap and what is mapped move together.
LEMMA BackedStep ==
  ASSUME MemoryInv, MemoryNext, intact', pml4'[Kernel] # NONE
  PROVE  Backed'
<1> USE SameFrames
<1>1. PICK u \in SUBSET Proofs!Usable : u = usable /\ Proofs!IInv(u)
  BY DEF MemoryInv, TablesInv
<1>2. ASSUME UNCHANGED tables, KERNEL_HEAP_END' = KERNEL_HEAP_END PROVE Backed'
  <2>1. Proofs!HeapMapped' = Proofs!HeapMapped
    BY <1>2 DEF tables, Proofs!HeapMapped
  <2> QED
    BY <1>2, <2>1, BackedKept DEF tables
<1>3. CASE NewKernel
  <2>1. Proofs!HeapMapped' = {} /\ unmapping' = NONE
    BY <1>1, <1>3, SameNew, TablesAssumption, Proofs!NoHeapPages DEF NewKernel
  <2>2. KERNEL_HEAP_END' = 0
    BY <1>3 DEF NewKernel, vars, MemoryInv, IInv, Growing
  <2>3. PageAtEnd' = 0 /\ HeapPages(0) = {}
    BY <2>2 DEF PageAtEnd, HeapPages, Page
  <2> QED
    BY <2>1, <2>3 DEF Backed
<1>4. CASE Boot \/ MapFails
  BY <1>2, <1>4 DEF Boot, init, MapFails, HeapStep, ExpandFails
<1>5. CASE \/ HeapStep(AllocFit \/ AllocExpand \/ InitDone \/ Expanded \/ RolledBack)
           \/ \E size \in Sizes : HeapStep(New(size))
           \/ \E piece \in live : HeapStep(Delete(piece))
  BY <1>2, <1>5
     DEF HeapStep, AllocFit, AllocExpand, InitDone, Expanded, RolledBack, New, Delete
<1>6. CASE MapNext
  <2> DEFINE k == PageAtEnd
  <2>1. /\ pml4[Kernel] # NONE /\ intact /\ unmapping = NONE
        /\ Proofs!allocPage(Kernel, AddressOf(k)) /\ k \in Nat /\ k < MaxPages
        /\ PageAtEnd' = k + 1
    BY <1>6, SameCalls, EndInPages
       DEF MapNext, ExpandPage, MemoryInv, Proofs!allocPage, Proofs!MayCall, Proofs!Returned, PageAtEnd
  <2>2. /\ Proofs!HeapMapped = HeapPages(k) /\ HeapPages(k + 1) = HeapPages(k) \cup {AddressOf(k)}
        /\ AddressOf(k) \notin HeapPages(k) /\ AddressOf(k) \in HeapPages(MaxPages)
    BY <2>1, NextPage DEF MemoryInv, Backed
  <2>3. Proofs!KernelHalf(AddressOf(k)[1])
    BY TablesAssumption DEF AddressOf
  <2> HIDE DEF k
  <2>4. Proofs!HeapMapped' = Proofs!HeapMapped \cup {AddressOf(k)} /\ unmapping' = NONE
    BY <1>1, <2>1, <2>2, <2>3, TablesAssumption, Proofs!HeapPageMapped DEF HeapPages
  <2> QED
    BY <2>1, <2>2, <2>4 DEF Backed, HeapPages
<1>7. CASE FreeLast
  <2> DEFINE k == LastPage
  <2>1. KERNEL_HEAP_END > 0 /\ KERNEL_HEAP_END <= Page * MaxPages
    BY <1>7 DEF FreeLast, RollBackPage, MemoryInv, IInv, TypeOK
  <2>2. /\ k \in Nat /\ PageAtEnd = k + 1 /\ PageAtEnd \in Nat
        /\ KERNEL_HEAP_END = Page * PageAtEnd /\ KERNEL_HEAP_END' = Page * k
    BY <1>7, <2>1, EndInPages DEF MemoryInv, FreeLast, RollBackPage
  <2> HIDE DEF k
  <2>3. k < MaxPages /\ PageAtEnd' = k
    BY <2>1, <2>2, HeapAssumption DEF Page, PageAtEnd
  <2>4. Proofs!freePage(Kernel, AddressOf(k)) /\ pml4[Kernel] # NONE
    BY <1>7, SameCalls DEF k, FreeLast, RollBackPage, MemoryInv
  <2>5. /\ unmapping' = << Kernel, AddressOf(k) >> /\ unmapping = NONE /\ intact
        /\ Proofs!HeapMapped' = Proofs!HeapMapped
    BY <2>4 DEF Proofs!freePage, Proofs!MayCall, Proofs!Returned, Proofs!HeapMapped
  <2>6. Proofs!HeapMapped = HeapPages(k + 1) /\ unmapping' # NONE
    <3>1. unmapping' \in Vmm \X Tables!Va
      <4>1. k \in 0 .. MaxPages - 1
        BY <2>2, <2>3, HeapAssumption
      <4>2. AddressOf(k) \in Tables!Va
        BY <4>1, Addresses DEF Tables!Va, Proofs!Va, Tables!Index, Proofs!Index
      <4> QED
        BY <2>5, <4>2, TablesAssumption
    <3> QED
      BY <2>2, <2>4, <2>5, <3>1, MemoryAssumption DEF MemoryInv, Backed
  <2> QED
    BY <2>3, <2>5, <2>6 DEF Backed, HeapPages
<1>8. CASE Unmap
  <2>1. Proofs!unmapPage /\ unmapping # NONE /\ pml4' = pml4 /\ intact
    BY <1>1, <1>8, SameUnmap
       DEF Unmap, Proofs!unmapPage, Proofs!ForgetTable, Proofs!IInv, Proofs!TablesSound
  <2> DEFINE k == PageAtEnd
  <2>2. /\ unmapping = << Kernel, AddressOf(k) >> /\ k < MaxPages /\ k \in Nat
        /\ Proofs!HeapMapped = HeapPages(k + 1)
    BY <2>1, EndInPages DEF MemoryInv, Backed
  <2>3. PageAtEnd' = k
    BY <1>8 DEF Unmap, vars, PageAtEnd
  <2> HIDE DEF k
  <2>4. Proofs!HeapMapped' = Proofs!HeapMapped \ {AddressOf(k)} /\ unmapping' = NONE
    BY <1>1, <2>1, <2>2, TablesAssumption, Proofs!HeapPageUnmapped
  <2>5. HeapPages(k + 1) \ {AddressOf(k)} = HeapPages(k)
    BY <2>2, NextPage
  <2> QED
    BY <2>2, <2>3, <2>4, <2>5 DEF Backed, HeapPages
<1>9. ASSUME NEW v \in Vmm \ {Kernel}, CreateSpace(v) PROVE Backed'
  <2>1. Proofs!New(v) /\ KERNEL_HEAP_END' = KERNEL_HEAP_END
    BY <1>9, SameNew DEF CreateSpace, vars
  <2>2. Proofs!HeapMapped' = Proofs!HeapMapped /\ pml4'[Kernel] = pml4[Kernel] /\ unmapping' = NONE
    BY <1>1, <2>1, TablesAssumption, Proofs!HeapPagesKept
  <2>3. intact /\ unmapping = NONE
    BY <2>1 DEF Proofs!New, Proofs!Construct, Proofs!MayCall, Proofs!Returned
  <2> QED
    BY <2>1, <2>2, <2>3, BackedKept
<1>10. ASSUME NEW v \in Vmm, Switch(v) PROVE Backed'
  <2>1. UNCHANGED << mem, pml4, unmapping, intact >> /\ KERNEL_HEAP_END' = KERNEL_HEAP_END
    BY <1>10, SameCalls DEF Switch, Proofs!loadCr3, vars
  <2>2. Proofs!HeapMapped' = Proofs!HeapMapped
    BY <2>1 DEF Proofs!HeapMapped
  <2> QED
    BY <2>1, <2>2, BackedKept
<1> QED
  BY <1>3, <1>4, <1>5, <1>6, <1>7, <1>8, <1>9, <1>10 DEF MemoryNext, CallStep

\* Every step keeps the heap, the tables and what ties them together.
LEMMA MemoryStep ==
  ASSUME MemoryInv, [MemoryNext]_memory
  PROVE  MemoryInv'
<1>1. CASE UNCHANGED memory
  <2>1. UNCHANGED << vars, tables, usable >>
    BY <1>1 DEF memory
  <2>2. IInv'
    BY <2>1, StepInv DEF MemoryInv
  <2>3. TablesInv'
    <3>1. PICK u \in SUBSET Proofs!Usable : u = usable /\ Proofs!IInv(u)
      BY DEF MemoryInv, TablesInv
    <3>2. [Proofs!Next]_(Proofs!vars)
      BY <2>1 DEF tables, Proofs!vars
    <3>3. Proofs!IInv(u)'
      BY <3>1, <3>2, TablesAssumption, Proofs!InvStep
    <3> QED
      BY <2>1, <3>1, <3>3 DEF TablesInv
  <2>4. intact' /\ pml4'[Kernel] # NONE => Backed'
    <3>1. Proofs!HeapMapped' = Proofs!HeapMapped
      BY <2>1 DEF tables, Proofs!HeapMapped
    <3> QED
      BY <2>1, <3>1, BackedKept DEF tables, vars
  <2> QED
    BY <2>1, <2>2, <2>3, <2>4 DEF MemoryInv, vars, tables
<1>2. CASE MemoryNext
  <2>1. IInv'
    BY <1>2, HeapSteps, StepInv DEF MemoryInv
  <2>2. TablesInv'
    <3>1. PICK u \in SUBSET Proofs!Usable : u = usable /\ Proofs!IInv(u)
      BY DEF MemoryInv, TablesInv
    <3>2. [Proofs!Next]_(Proofs!vars)
      BY <1>2, TableSteps
    <3>3. Proofs!IInv(u)'
      BY <3>1, <3>2, TablesAssumption, Proofs!InvStep
    <3>4. usable' = usable
      BY <1>2 DEF MemoryNext, NewKernel, Boot, CallStep, HeapStep, MapNext, MapFails, FreeLast,
                  Unmap, CreateSpace, Switch
    <3> QED
      BY <3>1, <3>3, <3>4 DEF TablesInv
  <2>3. KERNEL_HEAP_END' <= Page * MaxPages
    <3>1. CASE MapNext
      BY <3>1, EndInPages, HeapAssumption DEF MemoryInv, MapNext, ExpandPage, Page
    <3>2. CASE FreeLast
      BY <3>2, HeapAssumption DEF MemoryInv, FreeLast, RollBackPage, Page, IInv, TypeOK
    <3>3. CASE ~MapNext /\ ~FreeLast
      <4>1. KERNEL_HEAP_END' = KERNEL_HEAP_END
        BY <1>2, <3>3
           DEF MemoryNext, NewKernel, Boot, init, CallStep, HeapStep, MapFails, ExpandFails,
               Unmap, CreateSpace, Switch, vars, AllocFit, AllocExpand, InitDone, Expanded,
               RolledBack, New, Delete
      <4> QED
        BY <4>1 DEF MemoryInv
    <3> QED
      BY <3>1, <3>2, <3>3
  <2>4. pc' # "boot" => pml4'[Kernel] # NONE
    <3>1. CASE NewKernel
      BY <3>1 DEF NewKernel, vars, MemoryInv, IInv, TypeOK
    <3>2. ASSUME NEW v \in Vmm \ {Kernel}, CreateSpace(v) PROVE pml4'[Kernel] = pml4[Kernel]
      <4>1. pml4 \in [Vmm -> Proofs!Frame \cup {NONE}] /\ Kernel \in Vmm
        BY TablesAssumption DEF MemoryInv, TablesInv, Proofs!IInv, Proofs!TypeOK
      <4> QED
        BY <3>2, <4>1, SameNew DEF CreateSpace, Proofs!New, Proofs!Construct
    <3>3. CASE Boot
      BY <3>3 DEF Boot, tables
    <3>4. CASE ~NewKernel /\ ~Boot /\ ~\E v \in Vmm \ {Kernel} : CreateSpace(v)
      <4>1. pml4' = pml4
        BY <1>2, <3>4, SameCalls, SameUnmap
           DEF MemoryNext, CallStep, HeapStep, MapNext, MapFails, FreeLast, Unmap, Switch, tables,
               Proofs!allocPage, Proofs!freePage, Proofs!unmapPage, Proofs!ForgetTable,
               Proofs!loadCr3
      <4>2. pc # "boot" \/ pc' = pc
        BY <1>2, <3>4
           DEF MemoryNext, CallStep, HeapStep, MapNext, MapFails, FreeLast, Unmap, Switch, vars,
               AllocFit, AllocExpand, InitDone, Expanded, RolledBack, New, Delete, ExpandPage,
               ExpandFails, RollBackPage
      <4> QED
        BY <4>1, <4>2 DEF MemoryInv
    <3>5. ASSUME NEW v \in Vmm \ {Kernel}, CreateSpace(v) PROVE pc' = pc
      BY <3>5 DEF CreateSpace, vars
    <3> QED
      BY <3>1, <3>2, <3>3, <3>4, <3>5 DEF MemoryInv
  <2>5. intact' /\ pml4'[Kernel] # NONE => Backed'
    BY <1>2, BackedStep
  <2> QED
    BY <2>1, <2>2, <2>3, <2>4, <2>5 DEF MemoryInv
<1> QED
  BY <1>1, <1>2

\* In every state the heap, the tables and what ties them together hold.
LEMMA MemoryInductive == MemorySpec => []MemoryInv
<1>1. MemoryInit => MemoryInv
  BY MemoryFirst
<1>2. MemoryInv /\ [MemoryNext]_memory => MemoryInv'
  BY MemoryStep
<1> QED
  BY <1>1, <1>2, PTL DEF MemorySpec

\* Exactly the pages below KERNEL_HEAP_END are mapped, in every address space,
\* whether expand has succeeded or rolled back (KernelHeap.cpp:36-49,
\* VirtualMemoryManager.cpp:26-27, 36-197).
THEOREM HeapIsBacked == MemorySpec => []HeapBacked
<1>1. MemoryInv => HeapBacked
  <2> SUFFICES ASSUME MemoryInv, intact, Tables!Returned, pml4[Kernel] # NONE,
                      NEW root \in Tables!Roots \cup {cr3}, NEW i \in 0 .. MaxPages - 1
               PROVE  (Tables!Mapped(mem, root, AddressOf(i)) # NONE) <=> (Page * i < KERNEL_HEAP_END)
    BY DEF HeapBacked
  <2>1. PICK u \in SUBSET Proofs!Usable : u = usable /\ Proofs!IInv(u)
    BY DEF MemoryInv, TablesInv
  <2>2. /\ AddressOf(i) \in HeapPages(MaxPages) /\ Proofs!KernelHalf(AddressOf(i)[1])
        /\ i \in Nat /\ i < MaxPages
    <3>1. AddressOf(i)[1] = HeapTop
      BY DEF AddressOf
    <3> QED
      BY <3>1, HeapAssumption, TablesAssumption DEF HeapPages
  <2>3. Tables!Mapped(mem, root, AddressOf(i)) = Proofs!Mapped(mem, pml4[Kernel], AddressOf(i))
    <3>1. root \in Proofs!Roots \cup {cr3}
      BY SameFrames
    <3> QED
      BY <2>1, <2>2, <3>1, SameWalks, TablesAssumption, Proofs!HeapPagesEverywhere DEF HeapPages
  <2>4. AddressOf(i) \in Proofs!HeapMapped
          <=> Proofs!Mapped(mem, pml4[Kernel], AddressOf(i)) # NONE
    BY <2>2 DEF Proofs!HeapMapped, HeapPages
  <2>5. Proofs!HeapMapped = HeapPages(PageAtEnd)
    BY DEF MemoryInv, Backed, Tables!Returned
  <2>6. AddressOf(i) \in HeapPages(PageAtEnd) <=> i < PageAtEnd
    <3>1. PageAtEnd \in Nat /\ PageAtEnd <= MaxPages
      BY EndInPages, HeapAssumption DEF MemoryInv, Page
    <3>2. ASSUME NEW j \in 0 .. PageAtEnd - 1, AddressOf(j) = AddressOf(i) PROVE j = i
      <4>1. j \in 0 .. MaxPages - 1
        BY <3>1, HeapAssumption
      <4>2. /\ i = (N * AddressOf(i)[3]) + AddressOf(i)[4]
            /\ j = (N * AddressOf(j)[3]) + AddressOf(j)[4]
        BY <4>1, Addresses
      <4> QED
        BY <3>2, <4>2
    <3> QED
      BY <2>2, <3>1, <3>2 DEF HeapPages
  <2>7. i < PageAtEnd <=> Page * i < KERNEL_HEAP_END
    <3>1. PageAtEnd \in Nat /\ KERNEL_HEAP_END = Page * PageAtEnd
      BY EndInPages DEF MemoryInv
    <3> QED
      BY <2>2, <3>1 DEF Page
  <2> QED
    BY <2>3, <2>4, <2>5, <2>6, <2>7
<1> QED
  BY <1>1, MemoryInductive, PTL

\* The frames of the heap's pages and of all tables are each used once, and
\* none is lost, with every frame accounted for between calls
\* (KernelHeap.cpp:36-49, VirtualMemoryManager.cpp:36-197).
THEOREM FramesAreAccounted == MemorySpec => []FramesAccounted
<1>1. MemoryInv => FramesAccounted
  <2> SUFFICES ASSUME MemoryInv PROVE Proofs!OnePurpose(usable)
    BY SamePurpose DEF FramesAccounted
  <2>1. PICK u \in SUBSET Proofs!Usable : u = usable /\ Proofs!IInv(u)
    BY DEF MemoryInv, TablesInv
  <2>2. Proofs!OnePurpose(u)
    BY <2>1, TablesAssumption, Proofs!PurposeOf
  <2> QED
    BY <2>1, <2>2
<1> QED
  BY <1>1, MemoryInductive, PTL

\* Between calls the list tiles the heap, over real page tables and frames
\* (KernelHeap.cpp:67-77, 96-118).
THEOREM MemoryTiling == MemorySpec => []Tiling
BY Composition, ListTilesHeap, PTL

\* alloc calls itself at most once, over real page tables and frames
\* (KernelHeap.cpp:79-128).
THEOREM MemoryOneExpansion == MemorySpec => []ExpandsAtMostOnce
BY Composition, OneExpansion, PTL
=============================================================================
