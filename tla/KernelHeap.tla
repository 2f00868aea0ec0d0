----------------------------- MODULE KernelHeap -----------------------------
(***************************************************************************)
(* KernelHeap.cpp and the operators new and delete of cxxabi.cpp: a list   *)
(* of blocks, first fit, split on allocation, never merged; when no block  *)
(* fits the heap grows by whole pages and the call starts over.            *)
(*                                                                         *)
(* alloc and free hold an InterruptGuard, so one call runs at a time.  A   *)
(* call is modelled in steps: a walk over the list is one, and so is each  *)
(* page that expand maps or takes back, since mapping can fail at any of   *)
(* them.  Here it is a choice whether it does; module KernelMemory has the *)
(* page tables and frames that decide it.                                  *)
(* Addresses are offsets from KERNEL_HEAP_START.  Requests are far below   *)
(* 2^64: rounding them up does not wrap.                                   *)
(***************************************************************************)
EXTENDS Integers, FiniteSets

CONSTANTS
  NULL,       \* nullptr
  Sizes,      \* what new is called with
  MaxPages,   \* bound: pages the heap can grow to
  MaxLive     \* bound: pieces in use at a time

ASSUME HeapAssumption ==
  /\ NULL \notin Int
  /\ Sizes \subseteq Nat
  /\ MaxPages \in Nat /\ MaxLive \in Nat

Page == 4096
HeaderSize == 24                   \* sizeof(BlockHeader)
minSplitSize == HeaderSize + 8

VARIABLES
  blocks,      \* at the address of a header: size and next
  isFree,      \* the headers with isFree set
  linkedList,
  KERNEL_HEAP_END,
  pc,          \* "boot", "idle", in alloc: "search", "expand", "rollback";
               \* "fault"
  asked,       \* the size the call in progress is for, 0 in init
  left,        \* pages expand has still to map
  oldEnd,
  expansions,  \* how often the call in progress has called itself
  live         \* history: what new has returned and delete not taken back

vars == << blocks, isFree, linkedList, KERNEL_HEAP_END, pc, asked, left,
           oldEnd, expansions, live >>

-----------------------------------------------------------------------------
\* Slip: the size is rounded down.
RoundedDown(size) == 8 * (size \div 8)
alignedSize(size) == 8 * ((size + 7) \div 8)

\* Slip: the new header is not counted.
HeaderlessPageCount(size) == (alignedSize(size) + Page - 1) \div Page
newPageCount(size) == (alignedSize(size) + HeaderSize + Page - 1) \div Page

blockEndAddr(h) == h + HeaderSize + blocks[h].size

\* The headers a walk from linkedList looks at when it stops at those of
\* stop: after as many links as there are blocks it meets no other.
Visited(stop) ==
  LET upTo[n \in 0 .. Cardinality(DOMAIN blocks)] ==
        IF n = 0 THEN {linkedList} \ {NULL}
        ELSE LET links == (upTo[n - 1] \cap DOMAIN blocks) \ stop
             IN  upTo[n - 1] \cup ({blocks[h].next : h \in links} \ {NULL})
  IN  upTo[Cardinality(DOMAIN blocks)]

\* Where the walk stops, and whether it runs off the end instead.
Found(stop) == Visited(stop) \cap stop
NotFound(stop) ==
  /\ Found(stop) = {}
  /\ \E h \in Visited(stop) : blocks[h].next = NULL

\* Slip: the walk forgets that blocks may be in use.
FitInSize(size) == { h \in DOMAIN blocks : blocks[h].size >= alignedSize(size) }

\* The blocks a call for size bytes can take.
Fit(size) == { h \in isFree : blocks[h].size >= alignedSize(size) }

Splits(h, n) == blocks[h].size >= n + minSplitSize

\* Slip: the block is linked to its rest before its old link is read.
SplitSelfLinked(h, n) ==
  LET rest == h + HeaderSize + n
  IN  [x \in DOMAIN blocks \cup {rest} |->
         IF x = rest THEN [size |-> blocks[h].size - n - HeaderSize, next |-> rest]
         ELSE IF x = h THEN [size |-> n, next |-> rest]
         ELSE blocks[x]]

\* The list after h has been cut to n bytes and a header put behind them.
Split(h, n) ==
  LET rest == h + HeaderSize + n
  IN  [x \in DOMAIN blocks \cup {rest} |->
         IF x = rest THEN [size |-> blocks[h].size - n - HeaderSize,
                           next |-> blocks[h].next]
         ELSE IF x = h THEN [size |-> n, next |-> rest]
         ELSE blocks[x]]

TakeBlock(h, rest) == (isFree \cup rest) \ {h}

\* The call returns; its locals are gone.
Return ==
  /\ pc' = "idle"
  /\ asked' = 0 /\ left' = 0 /\ oldEnd' = 0 /\ expansions' = 0

-----------------------------------------------------------------------------
\* KernelHeap::init calls expand(4).
init ==
  /\ pc = "boot"
  /\ pc' = "expand"
  /\ asked' = 0
  /\ left' = 4
  /\ oldEnd' = KERNEL_HEAP_END
  /\ UNCHANGED << blocks, isFree, linkedList, KERNEL_HEAP_END,
                  expansions, live >>

\* operator new(size) calls alloc, for at least one byte.
New(size) ==
  /\ pc = "idle"
  /\ Cardinality(live) < MaxLive
  /\ pc' = "search"
  /\ asked' = IF size = 0 THEN 1 ELSE size
  /\ UNCHANGED << blocks, isFree, linkedList, KERNEL_HEAP_END, left,
                  oldEnd, expansions, live >>

\* alloc finds a block: it is split or taken whole, and returned.
AllocFit ==
  /\ pc = "search"
  /\ \E h \in Found(Fit(asked)) :
       LET n == alignedSize(asked)
       IN  /\ IF Splits(h, n)
                THEN /\ blocks' = Split(h, n)
                     /\ isFree' = TakeBlock(h, {h + HeaderSize + n})
                ELSE /\ isFree' = TakeBlock(h, {})
                     /\ UNCHANGED blocks
           /\ live' = live \cup {[at |-> h + HeaderSize, size |-> asked]}
  /\ Return
  /\ UNCHANGED << linkedList, KERNEL_HEAP_END >>

\* alloc finds none: it calls expand.
AllocExpand ==
  /\ pc = "search"
  /\ NotFound(Fit(asked))
  /\ pc' = "expand"
  /\ left' = newPageCount(asked)
  /\ oldEnd' = KERNEL_HEAP_END
  /\ UNCHANGED << blocks, isFree, linkedList, KERNEL_HEAP_END, asked,
                  expansions, live >>

\* expand has the next page mapped at the end of the heap.
ExpandPage ==
  /\ pc = "expand"
  /\ left > 0
  /\ KERNEL_HEAP_END < Page * MaxPages
  /\ KERNEL_HEAP_END' = KERNEL_HEAP_END + Page
  /\ left' = left - 1
  /\ UNCHANGED << blocks, isFree, linkedList, pc, asked, oldEnd, expansions,
                  live >>

\* A page could not be mapped: expand takes back those it has mapped.
ExpandFails ==
  /\ pc = "expand"
  /\ left > 0
  /\ pc' = "rollback"
  /\ left' = 0
  /\ UNCHANGED << blocks, isFree, linkedList, KERNEL_HEAP_END, asked,
                  oldEnd, expansions, live >>

RollBackPage ==
  /\ pc = "rollback"
  /\ KERNEL_HEAP_END > oldEnd
  /\ KERNEL_HEAP_END' = KERNEL_HEAP_END - Page
  /\ UNCHANGED << blocks, isFree, linkedList, pc, asked, left, oldEnd,
                  expansions, live >>

\* expand is back at the old end: alloc returns 0.  init does not look at the
\* result; its first store faults.
RolledBack ==
  /\ pc = "rollback"
  /\ KERNEL_HEAP_END = oldEnd
  /\ IF asked = 0 THEN pc' = "fault" /\ UNCHANGED << asked, left, oldEnd, expansions >>
                  ELSE Return
  /\ UNCHANGED << blocks, isFree, linkedList, KERNEL_HEAP_END, live >>

\* Back in init: one free block.
InitDone ==
  /\ pc = "expand" /\ left = 0
  /\ asked = 0
  /\ linkedList' = 0
  /\ blocks' = [h \in {0} |-> [size |-> KERNEL_HEAP_END - HeaderSize, next |-> NULL]]
  /\ isFree' = {0}
  /\ Return
  /\ UNCHANGED << KERNEL_HEAP_END, live >>

\* The list with size more bytes in block h, the last one.
Grown(h, size) == [blocks EXCEPT ![h].size = @ + size]

\* Slip: the new last block is not linked to.
Unlinked(h, size) ==
  [x \in DOMAIN blocks \cup {oldEnd} |->
     IF x = oldEnd THEN [size |-> size - HeaderSize, next |-> NULL] ELSE blocks[x]]

\* The list with a new last block of size bytes, header included, after h.
Appended(h, size) ==
  [x \in DOMAIN blocks \cup {oldEnd} |->
     IF x = oldEnd THEN [size |-> size - HeaderSize, next |-> NULL]
     ELSE IF x = h THEN [blocks[h] EXCEPT !.next = oldEnd]
     ELSE blocks[x]]

\* Back in alloc: the new pages go to the block that ended at the old end,
\* or into a block after it; alloc calls itself.
Expanded ==
  /\ pc = "expand" /\ left = 0
  /\ asked # 0
  /\ LET atOldEnd == {h \in DOMAIN blocks : blockEndAddr(h) = oldEnd}
         size == Page * newPageCount(asked)
     IN  \/ \E h \in Found(atOldEnd) :
              IF h \in isFree
                THEN blocks' = Grown(h, size) /\ UNCHANGED isFree
                ELSE blocks' = Appended(h, size) /\ isFree' = isFree \cup {oldEnd}
         \/ NotFound(atOldEnd) /\ UNCHANGED << blocks, isFree >>
  /\ pc' = "search"
  /\ expansions' = expansions + 1
  /\ UNCHANGED << linkedList, KERNEL_HEAP_END, asked, left, oldEnd, live >>

\* operator delete of what new has returned, through free.
Delete(piece) ==
  /\ pc = "idle"
  /\ isFree' = isFree \cup {piece.at - HeaderSize}
  /\ live' = live \ {piece}
  /\ UNCHANGED << blocks, linkedList, KERNEL_HEAP_END, pc, asked, left,
                  oldEnd, expansions >>

-----------------------------------------------------------------------------
Init ==
  /\ blocks = [h \in {} |-> NULL]
  /\ isFree = {}
  /\ linkedList = NULL
  /\ KERNEL_HEAP_END = 0
  /\ pc = "boot"
  /\ asked = 0 /\ left = 0 /\ oldEnd = 0 /\ expansions = 0
  /\ live = {}

\* What runs without a new request.
InCall == \/ AllocFit \/ AllocExpand \/ ExpandPage \/ ExpandFails
          \/ RollBackPage \/ RolledBack \/ InitDone \/ Expanded

Next ==
  \/ init \/ InCall
  \/ \E size \in Sizes : New(size)
  \/ \E piece \in live : Delete(piece)

Spec == Init /\ [][Next]_vars

-----------------------------------------------------------------------------
Ready == pc \in {"idle", "search"}

TypeOK ==
  /\ DOMAIN blocks \subseteq Nat
  /\ blocks \in [DOMAIN blocks -> [size : Nat, next : Nat \cup {NULL}]]
  /\ isFree \subseteq DOMAIN blocks
  /\ linkedList \in {0, NULL}
  /\ KERNEL_HEAP_END \in Nat /\ oldEnd \in Nat
  /\ pc \in {"boot", "idle", "search", "expand", "rollback", "fault"}
  /\ asked \in Nat /\ left \in Nat /\ expansions \in Nat
  /\ live \subseteq [at : Nat, size : Nat \ {0}]

\* The list tiles the heap: it starts where the heap does, each block ends
\* where the next begins and the last where the heap ends, whatever has been
\* split, appended and grown (KernelHeap.cpp:67-77, 96-118).
Tiling ==
  Ready =>
    /\ linkedList = 0
    /\ Visited({}) = DOMAIN blocks
    /\ \A h \in DOMAIN blocks :
         blockEndAddr(h) = IF blocks[h].next = NULL THEN KERNEL_HEAP_END
                                                    ELSE blocks[h].next

\* A block is marked in use exactly while a client has it, and is at least
\* as large as the client asked for.
InUseIffLive ==
  /\ {piece.at - HeaderSize : piece \in live} = DOMAIN blocks \ isFree
  /\ \A piece \in live : piece.size <= blocks[piece.at - HeaderSize].size

\* The recursive call of alloc finds a block: the pages asked for are enough
\* for the request and a header (KernelHeap.cpp:90, 120).
ExpandsAtMostOnce == expansions <= 1

-----------------------------------------------------------------------------
\* The heap implements new and delete.
Abstract == INSTANCE Allocator

\* Whatever the history of splits and expansions, new returns fresh memory.
ImplementsAllocator == Abstract!Spec

=============================================================================
