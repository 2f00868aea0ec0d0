------------------------ MODULE PhysicalMemoryProofs ------------------------
(***************************************************************************)
(* Proofs about PhysicalMemory for every memory map: types, conservation   *)
(* of frames, no write beyond the bitmap, and that every step is one of    *)
(* FrameAllocator.                                                         *)
(***************************************************************************)
EXTENDS PhysicalMemory, SequenceTheorems, TLAPS

\* Bit b of word i and frame 64 * i + b name each other.
LEMMA WordAndBit ==
  /\ \A i \in Nat, b \in Bits :
       /\ 64 * i + b \in Nat
       /\ (64 * i + b) \div 64 = i
       /\ (64 * i + b) % 64 = b
  /\ \A f \in Nat : /\ f \div 64 \in Nat
                    /\ f % 64 \in Bits
                    /\ f = 64 * (f \div 64) + (f % 64)
BY DEF Bits

\* Rounding to frames.
LEMMA Rounding ==
  ASSUME NEW a \in Nat
  PROVE  /\ ALIGN_UP(a) \in Nat /\ ALIGN_UP(a) % PAGE_SIZE = 0
         /\ ALIGN_UP(a) = PAGE_SIZE * (ALIGN_UP(a) \div PAGE_SIZE)
         /\ ALIGN_DOWN(a) \in Nat
         /\ ALIGN_DOWN(a) = PAGE_SIZE * (ALIGN_DOWN(a) \div PAGE_SIZE)
         /\ ALIGN_DOWN(a) <= a /\ a <= ALIGN_UP(a)
BY DEF ALIGN_UP, ALIGN_DOWN, PAGE_SIZE

\* The bitmaps of n words.
Words(n) == [0 .. n - 1 -> SUBSET Bits]

\* A clear bit is a free frame.
LEMMA FreeIs ==
  ASSUME NEW n \in Nat, NEW w \in Words(n), NEW f
  PROVE  f \in FreeOf(w) <=>
           f \in 0 .. 64 * n - 1 /\ f % 64 \notin w[f \div 64]
<1>1. ASSUME f \in FreeOf(w)
      PROVE  f \in 0 .. 64 * n - 1 /\ f % 64 \notin w[f \div 64]
  <2>1. PICK i \in 0 .. n - 1 : \E b \in Bits \ w[i] : f = 64 * i + b
    BY <1>1 DEF FreeOf, Words
  <2> PICK b \in Bits \ w[i] : f = 64 * i + b
    BY <2>1
  <2>2. f \div 64 = i /\ f % 64 = b /\ f \in Nat
    <3>1. i \in Nat /\ b \in Bits
      OBVIOUS
    <3> QED BY <3>1, WordAndBit
  <2>3. f <= 64 * n - 1
    BY DEF Bits
  <2> QED BY <2>2, <2>3
<1>2. ASSUME f \in 0 .. 64 * n - 1, f % 64 \notin w[f \div 64]
      PROVE  f \in FreeOf(w)
  <2>1. f \in Nat /\ f % 64 \in Bits /\ f = 64 * (f \div 64) + (f % 64)
    BY <1>2, WordAndBit
  <2>2. f \div 64 \in 0 .. n - 1
    BY <1>2
  <2>3. f % 64 \in Bits \ w[f \div 64] /\ DOMAIN w = 0 .. n - 1
    BY <1>2, <2>1 DEF Words
  <2> QED BY <2>1, <2>2, <2>3 DEF FreeOf
<1> QED BY <1>1, <1>2

\* Marking frames takes them out of the free ones.
LEMMA MarkTakes ==
  ASSUME NEW n \in Nat, NEW w \in Words(n), NEW F
  PROVE  Mark(w, F) \in Words(n) /\ FreeOf(Mark(w, F)) = FreeOf(w) \ F
<1>1. Mark(w, F) \in Words(n)
  BY DEF Mark, Words
<1>2. ASSUME NEW f
      PROVE  f \in FreeOf(Mark(w, F)) <=> f \in FreeOf(w) /\ f \notin F
  <2>1. CASE f \notin 0 .. 64 * n - 1
    BY <1>1, <2>1, FreeIs
  <2>2. CASE f \in 0 .. 64 * n - 1
    <3>1. f % 64 \in Bits /\ f = 64 * (f \div 64) + (f % 64)
      BY <2>2, WordAndBit
    <3>2. f \div 64 \in 0 .. n - 1
      BY <2>2
    <3> DEFINE i == f \div 64
               b == f % 64
    <3>3. f % 64 \in Mark(w, F)[f \div 64] <=> f % 64 \in w[f \div 64] \/ f \in F
      <4>1. i \in 0 .. n - 1 /\ b \in Bits /\ f = 64 * i + b
        BY <3>1, <3>2
      <4> HIDE DEF i, b
      <4>2. b \in Mark(w, F)[i] <=> b \in w[i] \/ f \in F
        BY <4>1 DEF Mark, Words
      <4> QED BY <4>2 DEF i, b
    <3> QED BY <1>1, <2>2, <3>3, FreeIs
  <2> QED BY <2>1, <2>2
<1> QED BY <1>1, <1>2

\* Clearing frames that have a bit makes them free.
LEMMA ClearGives ==
  ASSUME NEW n \in Nat, NEW w \in Words(n),
         NEW F \in SUBSET (0 .. 64 * n - 1)
  PROVE  Clear(w, F) \in Words(n) /\ FreeOf(Clear(w, F)) = FreeOf(w) \cup F
<1>1. Clear(w, F) \in Words(n)
  BY DEF Clear, Words
<1>2. ASSUME NEW f
      PROVE  f \in FreeOf(Clear(w, F)) <=> f \in FreeOf(w) \/ f \in F
  <2>1. CASE f \notin 0 .. 64 * n - 1
    BY <1>1, <2>1, FreeIs
  <2>2. CASE f \in 0 .. 64 * n - 1
    <3>1. f % 64 \in Bits /\ f = 64 * (f \div 64) + (f % 64)
      BY <2>2, WordAndBit
    <3>2. f \div 64 \in 0 .. n - 1
      BY <2>2
    <3> DEFINE i == f \div 64
               b == f % 64
    <3>3. f % 64 \in Clear(w, F)[f \div 64] <=> f % 64 \in w[f \div 64] /\ f \notin F
      <4>1. i \in 0 .. n - 1 /\ b \in Bits /\ f = 64 * i + b
        BY <3>1, <3>2
      <4> HIDE DEF i, b
      <4>2. b \in Clear(w, F)[i] <=> b \in w[i] /\ f \notin F
        BY <4>1 DEF Clear, Words
      <4> QED BY <4>2 DEF i, b
    <3> QED BY <1>1, <2>2, <3>3, FreeIs
  <2> QED BY <2>1, <2>2
<1> QED BY <1>1, <1>2

-----------------------------------------------------------------------------
\* The entries of a memory map.
LEMMA EntryTypes ==
  ASSUME memmap \in MemoryMaps, NEW i \in DOMAIN memmap
  PROVE  /\ memmap[i].base \in Nat
         /\ memmap[i].length \in Nat
         /\ aligned_base(memmap[i]) % PAGE_SIZE = 0
<1> DEFINE E == [base : Nat, length : Nat, usable : BOOLEAN]
<1>1. memmap \in Seq(E)
  BY MapAssumption
<1> HIDE DEF E
<1>2. memmap[i] \in E
  BY <1>1, LenProperties
<1>3. memmap[i].base \in Nat /\ memmap[i].length \in Nat
  BY <1>2 DEF E
<1> QED BY <1>3, Rounding DEF aligned_base

\* The entry count is large enough for a bit for every usable frame.
LEMMA UsableHasBit ==
  ASSUME memmap \in MemoryMaps,
         NEW highest \in Ends \cup {0}, \A e \in Ends : e <= highest
  PROVE  /\ EntryCount(highest \div PAGE_SIZE) \in Nat
         /\ UsableFrames(memmap) \subseteq
              0 .. 64 * EntryCount(highest \div PAGE_SIZE) - 1
<1>1. \A i \in DOMAIN memmap : /\ memmap[i].base \in Nat
                               /\ memmap[i].length \in Nat
  BY EntryTypes
<1>2. \A i \in DOMAIN memmap :
        ALIGN_UP(memmap[i].base + memmap[i].length) \in Nat
  BY <1>1, Rounding
<1>3. highest \in Nat
  BY <1>2 DEF Ends
<1> DEFINE h == highest \div PAGE_SIZE
<1>4. h \in Nat /\ highest >= PAGE_SIZE * h /\ highest < PAGE_SIZE * h + PAGE_SIZE
  BY <1>3 DEF PAGE_SIZE
<1>5. EntryCount(h) \in Nat /\ h <= 64 * EntryCount(h)
  BY <1>4 DEF EntryCount
<1>6. ASSUME NEW f \in UsableFrames(memmap)
      PROVE  f \in 0 .. 64 * EntryCount(h) - 1
  <2>1. PICK i \in DOMAIN memmap :
          /\ memmap[i].usable
          /\ f \in aligned_base(memmap[i]) \div PAGE_SIZE
                    .. aligned_end(memmap[i]) \div PAGE_SIZE - 1
    BY DEF UsableFrames
  <2> DEFINE b == memmap[i].base
             l == memmap[i].length
  <2>2. b \in Nat /\ b + l \in Nat
    BY <1>1
  <2>3. ALIGN_UP(b + l) <= highest
    BY <2>1 DEF Ends
  <2>4. aligned_base(memmap[i]) = ALIGN_UP(b) /\ aligned_end(memmap[i]) = ALIGN_DOWN(b + l)
    BY DEF aligned_base, aligned_end
  <2> HIDE DEF b, l
  <2>5. /\ ALIGN_UP(b) \in Nat
        /\ ALIGN_DOWN(b + l) \in Nat /\ ALIGN_DOWN(b + l) <= b + l
        /\ b + l <= ALIGN_UP(b + l)
        /\ ALIGN_UP(b + l) \in Nat
    BY <2>2, Rounding
  <2>6. ALIGN_DOWN(b + l) <= highest
    BY <1>3, <2>2, <2>3, <2>5
  <2>7. ALIGN_DOWN(b + l) \div PAGE_SIZE <= h
    BY <1>3, <2>5, <2>6 DEF PAGE_SIZE
  <2>8. /\ ALIGN_UP(b) \div PAGE_SIZE \in Nat
        /\ ALIGN_DOWN(b + l) \div PAGE_SIZE \in Nat
    BY <2>5 DEF PAGE_SIZE
  <2>9. f \in Nat /\ f <= h - 1
    BY <1>4, <2>1, <2>4, <2>7, <2>8
  <2> QED BY <1>4, <1>5, <2>9
<1> QED BY <1>5, <1>6

\* A place the bitmap fits into is usable memory.
LEMMA FittingIsUsable ==
  ASSUME memmap \in MemoryMaps, NEW size \in Nat, NEW i \in DOMAIN memmap,
         Fits(memmap[i], size)
  PROVE  FramesOf(aligned_base(memmap[i]), size) \subseteq UsableFrames(memmap)
<1> DEFINE b == aligned_base(memmap[i])
           e == aligned_end(memmap[i])
<1>1. memmap[i].base \in Nat /\ memmap[i].length \in Nat
  BY EntryTypes
<1>2. /\ b \in Nat /\ b = PAGE_SIZE * (b \div PAGE_SIZE)
      /\ e \in Nat /\ e = PAGE_SIZE * (e \div PAGE_SIZE)
  BY <1>1, Rounding DEF aligned_base, aligned_end
<1>3. e - b >= size /\ memmap[i].usable
  BY DEF Fits
<1>4. b \div PAGE_SIZE .. e \div PAGE_SIZE - 1 \subseteq UsableFrames(memmap)
  BY <1>3 DEF UsableFrames
<1> HIDE DEF b, e
<1>5. (ALIGN_UP(b + size) - b) \div PAGE_SIZE <= e \div PAGE_SIZE - b \div PAGE_SIZE
  BY <1>2, <1>3 DEF ALIGN_UP, PAGE_SIZE
<1>6. FramesOf(b, size) \subseteq b \div PAGE_SIZE .. e \div PAGE_SIZE - 1
  <2>1. /\ b \div PAGE_SIZE \in Int /\ e \div PAGE_SIZE \in Int
        /\ (ALIGN_UP(b + size) - b) \div PAGE_SIZE \in Int
    BY <1>2 DEF ALIGN_UP, PAGE_SIZE
  <2> QED BY <1>5, <2>1 DEF FramesOf
<1> QED BY <1>4, <1>6 DEF b

\* Where init puts the bitmap: on a frame boundary, and in usable memory.
LEMMA PlaceIsUsable ==
  ASSUME memmap \in MemoryMaps, NEW n \in Nat, NEW base \in Places(8 * n)
  PROVE  /\ base \in Nat /\ base % PAGE_SIZE = 0
         /\ FramesOf(base, 8 * n) \subseteq UsableFrames(memmap)
<1>1. CASE \E i \in DOMAIN memmap : Fits(memmap[i], 8 * n) /\ base = aligned_base(memmap[i])
  <2>1. PICK i \in DOMAIN memmap :
          Fits(memmap[i], 8 * n) /\ base = aligned_base(memmap[i])
    BY <1>1
  <2>2. base \in Nat /\ base % PAGE_SIZE = 0
    BY <2>1, EntryTypes, Rounding DEF aligned_base
  <2> QED BY <2>1, <2>2, FittingIsUsable
<1>2. CASE base = 0 /\ 8 * n = 0
  <2>1. FramesOf(0, 0) = {}
    BY DEF FramesOf, ALIGN_UP, PAGE_SIZE
  <2> QED BY <1>2, <2>1 DEF PAGE_SIZE
<1> QED BY <1>1, <1>2 DEF Places

-----------------------------------------------------------------------------
\* Every usable frame has a bit, and what else a call relies on.
BitmapHolds ==
  /\ ready => /\ UsableFrames(memmap) \subseteq 0 .. 64 * bitmap_entry_count - 1
              /\ ~stray
  /\ ~ready => held = {} /\ reply = "none"

IInv ==
  /\ TypeOK
  /\ BitmapHolds
  /\ Conservation
  /\ BitmapInUsableMemory
  /\ NeverBeyondBitmap
  /\ GivesUpOnlyWhenAllHeld

LEMMA InitIInv == Init => IInv
<1> SUFFICES ASSUME Init PROVE IInv
  OBVIOUS
<1>1. TypeOK
  <2>1. bitmap_physical % PAGE_SIZE = 0
    BY DEF Init, PAGE_SIZE
  <2>2. bitmap_base \in [0 .. (IF ready THEN bitmap_entry_count ELSE 0) - 1 -> SUBSET Bits]
    BY DEF Init
  <2> QED BY <2>1, <2>2 DEF Init, TypeOK
<1> QED
  BY <1>1 DEF Init, IInv, BitmapHolds, Conservation, BitmapInUsableMemory,
              NeverBeyondBitmap, GivesUpOnlyWhenAllHeld

\* Whether init goes on or not, it has counted the words.
LEMMA CountEffect ==
  ASSUME memmap \in MemoryMaps, CountEntries
  PROVE  /\ bitmap_entry_count' \in Nat
         /\ UsableFrames(memmap) \subseteq 0 .. 64 * bitmap_entry_count' - 1
<1>1. PICK highest \in Ends \cup {0} :
        /\ \A e \in Ends : e <= highest
        /\ bitmap_entry_count' = EntryCount(highest \div PAGE_SIZE)
  BY DEF CountEntries
<1> QED BY <1>1, UsableHasBit

\* init leaves exactly the usable frames but its own free.
LEMMA InitEffect ==
  ASSUME IInv, init
  PROVE  /\ bitmap_entry_count' \in Nat
         /\ bitmap_physical' \in Nat /\ bitmap_physical' % PAGE_SIZE = 0
         /\ bitmap_base' \in Words(bitmap_entry_count')
         /\ UsableFrames(memmap) \subseteq 0 .. 64 * bitmap_entry_count' - 1
         /\ FreeFrames' = UsableFrames(memmap) \ Own'
         /\ stray' = FALSE
         /\ Own' \subseteq UsableFrames(memmap)
<1> DEFINE n == bitmap_entry_count'
           usable == UsableFrames(memmap)
           ones == [i \in 0 .. n - 1 |-> Bits]
<1>1. memmap \in MemoryMaps
  BY DEF IInv, TypeOK
<1>2. n \in Nat /\ usable \subseteq 0 .. 64 * n - 1
  BY <1>1, CountEffect DEF init
<1>3. bitmap_physical' \in Places(8 * n) /\ Own' = FramesOf(bitmap_physical', 8 * n)
  BY DEF init, bitmap_size, Own
<1>4. /\ bitmap_physical' \in Nat /\ bitmap_physical' % PAGE_SIZE = 0
      /\ Own' \subseteq usable
  BY <1>1, <1>2, <1>3, PlaceIsUsable
<1>5. bitmap_base' = Prepared(ones, usable, Own')
  BY <1>3 DEF init, bitmap_size
<1>6. stray' = Beyond(ones, usable \cup Own')
  BY <1>3 DEF init, bitmap_size
<1> HIDE DEF n, usable
<1>8. ones \in Words(n) /\ FreeOf(ones) = {}
  <2>1. ones \in Words(n)
    BY DEF Words
  <2>2. FreeOf(ones) = {}
    BY DEF FreeOf
  <2> QED BY <2>1, <2>2
<1>9. DOMAIN ones = 0 .. n - 1
  OBVIOUS
<1> HIDE DEF ones
<1>10. Clear(ones, usable) \in Words(n) /\ FreeOf(Clear(ones, usable)) = usable
  <2>1. usable \in SUBSET (0 .. 64 * n - 1)
    BY <1>2
  <2>2. n \in Nat /\ ones \in Words(n)
    BY <1>2, <1>8
  <2>3. /\ Clear(ones, usable) \in Words(n)
        /\ FreeOf(Clear(ones, usable)) = FreeOf(ones) \cup usable
    BY ONLY <2>1, <2>2, ClearGives
  <2> QED BY <1>8, <2>3
<1>11. bitmap_base' \in Words(n) /\ FreeOf(bitmap_base') = usable \ Own'
  BY <1>2, <1>5, <1>10, MarkTakes DEF Prepared
<1>12. stray' = FALSE
  <2>1. \A f \in usable \cup Own' : f \div 64 \in 0 .. n - 1
    BY <1>2, <1>4
  <2> QED BY <1>6, <1>9, <2>1 DEF Beyond
<1> QED
  BY <1>2, <1>4, <1>11, <1>12 DEF FreeFrames, n, usable

\* allocPage takes the lowest free frame.
LEMMA AllocEffect ==
  ASSUME IInv, allocPage
  PROVE  /\ bitmap_base' \in Words(bitmap_entry_count)
         /\ \E f \in FreeFrames :
              /\ \A g \in FreeFrames : f <= g
              /\ FreeFrames' = FreeFrames \ {f}
              /\ held' = held \cup {f}
<1> DEFINE n == bitmap_entry_count
<1>1. n \in Nat /\ bitmap_base \in Words(n)
  BY DEF IInv, TypeOK, Words, allocPage
<1>2. DOMAIN bitmap_base = 0 .. n - 1
  BY <1>1 DEF Words
<1>3. PICK i \in 0 .. n - 1 :
        /\ \A j \in 0 .. i - 1 : bitmap_base[j] = Bits
        /\ \E b \in Bits \ bitmap_base[i] :
             /\ \A c \in Bits \ bitmap_base[i] : b <= c
             /\ bitmap_base' = Mark(bitmap_base, {64 * i + b})
             /\ held' = held \cup {64 * i + b}
  BY <1>2 DEF allocPage
<1>4. PICK b \in Bits \ bitmap_base[i] :
        /\ \A c \in Bits \ bitmap_base[i] : b <= c
        /\ bitmap_base' = Mark(bitmap_base, {64 * i + b})
        /\ held' = held \cup {64 * i + b}
  BY <1>3
<1> DEFINE f == 64 * i + b
<1> HIDE DEF n
<1>5. f \in FreeFrames
  BY <1>2 DEF FreeFrames, FreeOf
<1>6. ASSUME NEW g \in FreeFrames PROVE f <= g
  <2>1. g \in 0 .. 64 * n - 1 /\ g % 64 \notin bitmap_base[g \div 64]
    BY <1>1, FreeIs DEF FreeFrames
  <2>2. /\ g \div 64 \in Nat /\ g % 64 \in Bits
        /\ g = 64 * (g \div 64) + (g % 64)
    <3>1. g \in Nat
      BY <1>1, <2>1
    <3> QED BY <3>1, WordAndBit
  <2>3. ~(g \div 64 < i)
    BY <1>3, <2>1, <2>2
  <2>4. CASE g \div 64 = i
    BY <1>4, <2>1, <2>2, <2>4 DEF Bits
  <2>5. CASE g \div 64 > i
    BY <2>2, <2>5 DEF Bits
  <2> QED BY <2>2, <2>3, <2>4, <2>5
<1>7. bitmap_base' \in Words(n) /\ FreeFrames' = FreeFrames \ {f}
  BY <1>1, <1>4, MarkTakes DEF FreeFrames
<1> QED BY <1>4, <1>5, <1>6, <1>7 DEF n

\* freePage gives back the frame its address lies in.
LEMMA FreeEffect ==
  ASSUME IInv, NEW f \in held, NEW offset \in Offsets, freePage(f, offset)
  PROVE  /\ ready
         /\ bitmap_base' \in Words(bitmap_entry_count)
         /\ FreeFrames' = FreeFrames \cup {f}
         /\ held' = held \ {f}
         /\ stray' = FALSE
<1> DEFINE n == bitmap_entry_count
<1>1. n \in Nat /\ bitmap_base \in Words(n) /\ ready /\ ~stray
  BY DEF IInv, TypeOK, Words, BitmapHolds
<1>2. f \in 0 .. 64 * n - 1
  BY <1>1 DEF IInv, Conservation, BitmapHolds
<1> HIDE DEF n
<1>3. offset \in 0 .. PAGE_SIZE - 1
  BY MapAssumption
<1>4. PageNumber(PAGE_SIZE * f + offset) = f
  BY <1>2, <1>3 DEF PageNumber, ALIGN_DOWN, PAGE_SIZE
<1>5. /\ bitmap_base' = Clear(bitmap_base, {f})
      /\ held' = held \ {f}
      /\ stray' = (stray \/ Beyond(bitmap_base, {f}))
  BY <1>4 DEF freePage
<1>6. bitmap_base' \in Words(n) /\ FreeFrames' = FreeFrames \cup {f}
  <2>1. {f} \in SUBSET (0 .. 64 * n - 1)
    BY <1>2
  <2> QED BY <1>1, <1>5, <2>1, ClearGives DEF FreeFrames
<1>7. stray' = FALSE
  <2>1. f \div 64 \in 0 .. n - 1 /\ DOMAIN bitmap_base = 0 .. n - 1
    BY <1>1, <1>2 DEF Words
  <2>2. ~Beyond(bitmap_base, {f}) /\ ~stray
    BY <1>1, <2>1 DEF Beyond
  <2> QED BY <1>5, <2>2
<1> QED BY <1>1, <1>5, <1>6, <1>7 DEF n

-----------------------------------------------------------------------------
LEMMA StepIInv == IInv /\ [Next]_vars => IInv'
<1> SUFFICES ASSUME IInv, [Next]_vars PROVE IInv'
  OBVIOUS
<1> USE DEF IInv
<1>1. CASE init
  <2>1. /\ memmap' = memmap /\ held' = {} /\ held = {} /\ reply' = "none"
        /\ ready' = TRUE
    BY <1>1 DEF init, BitmapHolds
  <2>2. TypeOK'
    BY <1>1, <2>1, InitEffect DEF TypeOK, Words
  <2>3. BitmapHolds' /\ Conservation'
    BY <1>1, <2>1, InitEffect DEF BitmapHolds, Conservation
  <2>4. BitmapInUsableMemory' /\ NeverBeyondBitmap' /\ GivesUpOnlyWhenAllHeld'
    BY <1>1, <2>1, InitEffect DEF BitmapInUsableMemory, NeverBeyondBitmap,
                                  GivesUpOnlyWhenAllHeld
  <2> QED BY <2>2, <2>3, <2>4
<1>2. CASE allocPage
  <2>1. /\ ready /\ ready' = TRUE /\ Own' = Own /\ bitmap_size' = bitmap_size
        /\ UNCHANGED << memmap, bitmap_entry_count, bitmap_physical, stray >>
        /\ reply' = "frame"
    BY <1>2 DEF allocPage, Own, bitmap_size, TypeOK
  <2>2. PICK f \in FreeFrames : FreeFrames' = FreeFrames \ {f}
                                /\ held' = held \cup {f}
    BY <1>2, AllocEffect
  <2>3. Conservation'
    BY <2>1, <2>2 DEF Conservation
  <2>4. f \in Nat
    BY <2>1 DEF Conservation, BitmapHolds, TypeOK
  <2>5. TypeOK'
    BY <1>2, <2>1, <2>2, <2>4, AllocEffect DEF TypeOK, Words
  <2>6. BitmapHolds' /\ BitmapInUsableMemory' /\ NeverBeyondBitmap'
          /\ GivesUpOnlyWhenAllHeld'
    BY <2>1 DEF BitmapHolds, BitmapInUsableMemory, NeverBeyondBitmap,
                GivesUpOnlyWhenAllHeld
  <2> QED BY <2>3, <2>5, <2>6
<1>3. CASE allocNothing
  <2>1. FreeFrames = {}
    BY <1>3 DEF allocNothing, Full, FreeFrames, FreeOf
  <2>2. /\ ready /\ FreeFrames' = FreeFrames /\ Own' = Own
        /\ bitmap_size' = bitmap_size /\ reply' = "null"
        /\ UNCHANGED << memmap, ready, bitmap_entry_count, bitmap_physical,
                        bitmap_base, held, stray >>
    BY <1>3 DEF allocNothing, FreeFrames, Own, bitmap_size
  <2>3. TypeOK'
    BY <2>2 DEF TypeOK
  <2>4. BitmapHolds' /\ Conservation' /\ BitmapInUsableMemory'
          /\ NeverBeyondBitmap'
    BY <2>2 DEF BitmapHolds, Conservation, BitmapInUsableMemory,
                NeverBeyondBitmap
  <2>5. GivesUpOnlyWhenAllHeld'
    BY <2>1, <2>2 DEF Conservation, GivesUpOnlyWhenAllHeld
  <2> QED BY <2>3, <2>4, <2>5
<1>4. ASSUME NEW f \in held, NEW offset \in Offsets, freePage(f, offset)
      PROVE  IInv'
  <2>1. /\ Own' = Own /\ bitmap_size' = bitmap_size /\ reply' = "none"
        /\ UNCHANGED << memmap, ready, bitmap_entry_count, bitmap_physical >>
    BY <1>4 DEF freePage, Own, bitmap_size
  <2>2. /\ ready /\ bitmap_base' \in Words(bitmap_entry_count)
        /\ FreeFrames' = FreeFrames \cup {f} /\ held' = held \ {f}
        /\ stray' = FALSE
    BY <1>4, FreeEffect
  <2>3. TypeOK'
    BY <2>1, <2>2 DEF TypeOK, Words
  <2>4. Conservation'
    BY <2>1, <2>2 DEF Conservation
  <2>5. BitmapHolds' /\ BitmapInUsableMemory' /\ NeverBeyondBitmap'
          /\ GivesUpOnlyWhenAllHeld'
    BY <2>1, <2>2 DEF BitmapHolds, BitmapInUsableMemory, NeverBeyondBitmap,
                      GivesUpOnlyWhenAllHeld
  <2> QED BY <2>3, <2>4, <2>5
<1>5. CASE UNCHANGED vars
  BY <1>5 DEF vars, TypeOK, BitmapHolds, Conservation, BitmapInUsableMemory,
              NeverBeyondBitmap, GivesUpOnlyWhenAllHeld, FreeFrames, Own,
              bitmap_size, HasPlace
<1>6. CASE initFaults
  <2>1. /\ memmap \in MemoryMaps /\ memmap' = memmap
        /\ ~ready /\ ready' = FALSE /\ stray' = TRUE /\ ~HasPlace(bitmap_size')
        /\ UNCHANGED << bitmap_physical, bitmap_base, held, reply >>
    BY <1>6 DEF initFaults, TypeOK
  <2>2. bitmap_entry_count' \in Nat
    BY <1>6, <2>1, CountEffect DEF initFaults
  <2>3. HasPlace(bitmap_size)' <=> HasPlace(bitmap_size')
    BY <2>1 DEF HasPlace
  <2>4. TypeOK'
    BY <2>1, <2>2 DEF TypeOK
  <2>5. BitmapHolds' /\ Conservation' /\ BitmapInUsableMemory' /\ NeverBeyondBitmap'
          /\ GivesUpOnlyWhenAllHeld'
    BY <2>1, <2>3 DEF BitmapHolds, Conservation, BitmapInUsableMemory,
                      NeverBeyondBitmap, GivesUpOnlyWhenAllHeld
  <2> QED BY <2>4, <2>5
<1> QED BY <1>1, <1>2, <1>3, <1>4, <1>5, <1>6 DEF Next

\* The inductive invariant holds in every reachable state.
THEOREM Invariance == Spec => []IInv
BY InitIInv, StepIInv, PTL DEF Spec

-----------------------------------------------------------------------------
\* Types, for every memory map.
THEOREM TypeCorrect == Spec => []TypeOK
<1>1. IInv => TypeOK
  BY DEF IInv
<1> QED BY <1>1, Invariance, PTL

\* No frame is lost, handed out twice, or handed out though reserved.
THEOREM FramesConserved == Spec => []Conservation
<1>1. IInv => Conservation
  BY DEF IInv
<1> QED BY <1>1, Invariance, PTL

\* init returns only with the bitmap in usable memory, whatever the map
\* (PhysicalMemoryManager.cpp:39-55).
THEOREM BitmapPlaced == Spec => []BitmapInUsableMemory
<1>1. IInv => BitmapInUsableMemory
  BY DEF IInv
<1> QED BY <1>1, Invariance, PTL

\* For a map with a region that holds the bitmap, neither init nor a call
\* writes a word outside it; for one without, only init's own null pointer is
\* stored through, and no call is made (PhysicalMemoryManager.cpp:39-117).
THEOREM BitmapSafe == Spec => []NeverBeyondBitmap
<1>1. IInv => NeverBeyondBitmap
  BY DEF IInv
<1> QED BY <1>1, Invariance, PTL

\* allocPage fails only when clients hold every frame.
THEOREM NoEarlyFailure == Spec => []GivesUpOnlyWhenAllHeld
<1>1. IInv => GivesUpOnlyWhenAllHeld
  BY DEF IInv
<1> QED BY <1>1, Invariance, PTL

\* Every step is one of FrameAllocator.
LEMMA StepRefines ==
  IInv /\ [Next]_vars => [Abstract!Next]_Abstract!vars
<1> SUFFICES ASSUME IInv, [Next]_vars
             PROVE  Abstract!Next \/ UNCHANGED << FreeFrames, held >>
  BY DEF Abstract!vars
<1> USE DEF Abstract!Next
<1>1. CASE init
  <2>1. held = {} /\ held' = {} /\ memmap' = memmap /\ memmap \in MemoryMaps
    BY <1>1 DEF init, IInv, BitmapHolds, TypeOK
  <2>2. FreeFrames = {}
    <3>1. bitmap_base \in Words(0)
      BY <1>1 DEF init, IInv, TypeOK, Words
    <3>2. \A f : f \notin FreeOf(bitmap_base)
      BY <3>1, FreeIs
    <3> QED BY <3>2 DEF FreeFrames
  <2>3. FreeFrames' \subseteq Nat \ {0}
    <3>1. UsableFrames(memmap) \subseteq Nat
      BY <1>1, InitEffect
    <3> QED BY <1>1, <2>1, <3>1, InitEffect, MapAssumption
  <2>4. Abstract!Fill
    BY <2>1, <2>2, <2>3 DEF Abstract!Fill
  <2> QED BY <2>4
<1>2. CASE allocPage
  BY <1>2, AllocEffect DEF Abstract!Alloc
<1>3. CASE allocNothing
  BY <1>3 DEF allocNothing, FreeFrames
<1>4. ASSUME NEW f \in held, NEW offset \in Offsets, freePage(f, offset)
      PROVE  Abstract!Next
  BY <1>4, FreeEffect DEF Abstract!Free
<1>5. CASE UNCHANGED vars
  BY <1>5 DEF vars, FreeFrames
<1>6. CASE initFaults
  BY <1>6 DEF initFaults, FreeFrames
<1> QED BY <1>1, <1>2, <1>3, <1>4, <1>5, <1>6 DEF Next

\* The bitmap implements the abstract allocator.
THEOREM Refinement == Spec => ImplementsFrameAllocator
<1>1. Init => Abstract!Init
  BY DEF Init, Abstract!Init, FreeFrames, FreeOf
<1> QED
  BY <1>1, StepRefines, Invariance, PTL
     DEF Spec, ImplementsFrameAllocator, Abstract!Spec

=============================================================================
