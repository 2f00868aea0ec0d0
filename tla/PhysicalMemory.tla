--------------------------- MODULE PhysicalMemory ---------------------------
(***************************************************************************)
(* PhysicalMemoryManager.cpp: a bitmap of page frames in one of the usable *)
(* regions of the boot loader's memory map, a set bit for a frame that is  *)
(* not free.  A word of the bitmap is the set of its bits that are set.    *)
(*                                                                         *)
(* The manager takes no guard: its callers hold one (KernelHeap::alloc,    *)
(* Process::create) or run before interrupts are on (kmain), so that each  *)
(* call is one action.  Clients are modelled by the frames they hold.      *)
(* Addresses are below 2^64 - 4096: no sum in init wraps.                  *)
(***************************************************************************)
EXTENDS Integers, Sequences

CONSTANTS
  MemoryMaps,   \* the maps the boot loader may report, sequences of entries
  Offsets       \* offsets into a frame that freePage may be called with

PAGE_SIZE == 4096
Bits == 0 .. 63

ALIGN_DOWN(a) == PAGE_SIZE * (a \div PAGE_SIZE)
ALIGN_UP(a) == PAGE_SIZE * ((a + PAGE_SIZE - 1) \div PAGE_SIZE)

aligned_base(e) == ALIGN_UP(e.base)
aligned_end(e) == ALIGN_DOWN(e.base + e.length)

\* The frames that lie in a usable entry altogether.
UsableFrames(map) ==
  UNION { aligned_base(map[i]) \div PAGE_SIZE
            .. aligned_end(map[i]) \div PAGE_SIZE - 1 :
          i \in {j \in DOMAIN map : map[j].usable} }

ASSUME MapAssumption ==
  /\ \A map \in MemoryMaps :
       /\ map \in Seq([base : Nat, length : Nat, usable : BOOLEAN])
       /\ 0 \notin UsableFrames(map)   \* allocPage returns 0 for "no frame"
  /\ Offsets \subseteq 0 .. PAGE_SIZE - 1

VARIABLES
  memmap,           \* the boot loader's response
  ready,            \* init has returned
  bitmap_entry_count,
  bitmap_physical,  \* where the bitmap is
  bitmap_base,      \* its words
  held,             \* the frames clients hold
  reply,            \* of the last call: "frame", "null" (0), or "none"
  stray             \* a word outside the bitmap was written, or tried to be

vars == << memmap, ready, bitmap_entry_count, bitmap_physical, bitmap_base,
           held, reply, stray >>

bitmap_size == 8 * bitmap_entry_count

-----------------------------------------------------------------------------
\* The bitmap with the frames of F marked used, or free.
Mark(words, F) ==
  [i \in DOMAIN words |-> words[i] \cup {b \in Bits : 64 * i + b \in F}]
Clear(words, F) ==
  [i \in DOMAIN words |-> {b \in words[i] : 64 * i + b \notin F}]

\* Some frame of F has no bit in the bitmap.
Beyond(words, F) == \E f \in F : f \div 64 \notin DOMAIN words

\* Slip: the last, incomplete word is left out.
FlooredCount(page_count) == page_count \div 64
EntryCount(page_count) == (page_count + 63) \div 64

\* Slip: any usable region will do.
FitsAnything(entry, size) ==
  entry.usable /\ aligned_end(entry) >= aligned_base(entry)

\* The bitmap can go into this entry.
Fits(entry, size) ==
  /\ entry.usable
  /\ aligned_end(entry) > aligned_base(entry)
  /\ aligned_end(entry) - aligned_base(entry) >= size

\* The frames that size bytes from base on take.
FramesOf(base, size) ==
  LET first_page == base \div PAGE_SIZE
      page_count == (ALIGN_UP(base + size) - base) \div PAGE_SIZE
  IN  first_page .. first_page + page_count - 1

\* Slip: the bitmap's own frames are marked before the usable ones are freed.
PreparedBackwards(words, usable, own) == Clear(Mark(words, own), usable)

\* All ones, then the usable frames cleared, then the bitmap's own marked.
Prepared(words, usable, own) == Mark(Clear(words, usable), own)

HasPlace(size) == \E i \in DOMAIN memmap : Fits(memmap[i], size)

\* The first entry the bitmap fits into gives its place.  A bitmap of no words
\* needs none: its pointer stays null and is never followed.
Places(size) ==
  { aligned_base(memmap[i]) : i \in {j \in DOMAIN memmap :
      /\ Fits(memmap[j], size)
      /\ \A k \in 1 .. j - 1 : ~Fits(memmap[k], size) } }
  \cup {a \in {0} : size = 0 /\ ~HasPlace(size)}

\* The ends of the usable entries, rounded up.
Ends == { ALIGN_UP(memmap[i].base + memmap[i].length) :
            i \in {j \in DOMAIN memmap : memmap[j].usable} }

CountEntries ==
  \E highest \in Ends \cup {0} :
     /\ \A e \in Ends : e <= highest
     /\ bitmap_entry_count' = EntryCount(highest \div PAGE_SIZE)

init ==
  /\ ~ready /\ ~stray
  /\ ready' = TRUE
  /\ CountEntries
  /\ bitmap_physical' \in Places(bitmap_size')
  /\ LET ones   == [i \in 0 .. bitmap_entry_count' - 1 |-> Bits]
         usable == UsableFrames(memmap)
         own    == FramesOf(bitmap_physical', bitmap_size')
     IN  /\ bitmap_base' = Prepared(ones, usable, own)
         /\ stray' = Beyond(ones, usable \cup own)
  /\ UNCHANGED << memmap, held, reply >>

\* Without a place the first word of the bitmap is stored through a null
\* pointer.  Nothing is mapped there: init ends in the page fault's handler.
initFaults ==
  /\ ~ready /\ ~stray
  /\ CountEntries
  /\ bitmap_size' > 0 /\ ~HasPlace(bitmap_size')
  /\ stray' = TRUE
  /\ UNCHANGED << memmap, ready, bitmap_physical, bitmap_base, held, reply >>

-----------------------------------------------------------------------------
\* Slip: the first word stands for all of them.
FullFirst == \A i \in DOMAIN bitmap_base : i = 0 => bitmap_base[i] = Bits

\* No word has a clear bit.
Full == \A i \in DOMAIN bitmap_base : bitmap_base[i] = Bits

\* The lowest clear bit of the first word that has one.
allocPage ==
  /\ ready
  /\ \E i \in DOMAIN bitmap_base :
       /\ \A j \in 0 .. i - 1 : bitmap_base[j] = Bits
       /\ \E b \in Bits \ bitmap_base[i] :
            /\ \A c \in Bits \ bitmap_base[i] : b <= c
            /\ bitmap_base' = Mark(bitmap_base, {64 * i + b})
            /\ held' = held \cup {64 * i + b}
  /\ reply' = "frame"
  /\ UNCHANGED << memmap, ready, bitmap_entry_count, bitmap_physical, stray >>

allocNothing ==
  /\ ready
  /\ Full
  /\ reply' = "null"
  /\ UNCHANGED << memmap, ready, bitmap_entry_count, bitmap_physical, bitmap_base,
                  held, stray >>

\* Slip: an address inside a frame is rounded up to the next one.
NextPageNumber(address) == ALIGN_UP(address) \div PAGE_SIZE
PageNumber(address) == ALIGN_DOWN(address) \div PAGE_SIZE

\* A client gives back a frame it holds, by an address inside it.
freePage(f, offset) ==
  LET page_number == PageNumber(PAGE_SIZE * f + offset)
  IN  /\ f \in held
      /\ held' = held \ {f}
      /\ bitmap_base' = Clear(bitmap_base, {page_number})
      /\ stray' = (stray \/ Beyond(bitmap_base, {page_number}))
      /\ reply' = "none"
      /\ UNCHANGED << memmap, ready, bitmap_entry_count, bitmap_physical >>

-----------------------------------------------------------------------------
Init ==
  /\ memmap \in MemoryMaps
  /\ ready = FALSE
  /\ bitmap_entry_count = 0
  /\ bitmap_physical = 0
  /\ bitmap_base = [i \in 0 .. -1 |-> Bits]
  /\ held = {}
  /\ reply = "none"
  /\ stray = FALSE

Next ==
  \/ init \/ initFaults \/ allocPage \/ allocNothing
  \/ \E f \in held, offset \in Offsets : freePage(f, offset)

Spec == Init /\ [][Next]_vars

-----------------------------------------------------------------------------
\* The frames whose bit is clear.
FreeOf(words) ==
  UNION { {64 * i + b : b \in Bits \ words[i]} : i \in DOMAIN words }
FreeFrames == FreeOf(bitmap_base)

\* The frames the bitmap is in.
Own == FramesOf(bitmap_physical, bitmap_size)

TypeOK ==
  /\ memmap \in MemoryMaps
  /\ ready \in BOOLEAN
  /\ bitmap_entry_count \in Nat
  /\ bitmap_physical \in Nat /\ bitmap_physical % PAGE_SIZE = 0
  /\ bitmap_base \in [0 .. (IF ready THEN bitmap_entry_count ELSE 0) - 1 -> SUBSET Bits]
  /\ held \subseteq Nat
  /\ reply \in {"frame", "null", "none"}
  /\ stray \in BOOLEAN

\* No frame is lost, handed out twice, or handed out though it is reserved or
\* holds the bitmap: the usable frames but the bitmap's own are either free
\* or held, and nothing else is (PhysicalMemoryManager.cpp:57-81, 85-103).
Conservation ==
  ready => /\ FreeFrames \cup held = UsableFrames(memmap) \ Own
           /\ FreeFrames \cap held = {}

\* init returns only with its bitmap in usable memory: none of the memory it
\* writes belongs to anyone else (PhysicalMemoryManager.cpp:39-55).
BitmapInUsableMemory == ready => Own \subseteq UsableFrames(memmap)

\* Neither init nor a call writes outside the bitmap, but for the map in which
\* no region holds it: there init stores through a null pointer
\* (PhysicalMemoryManager.cpp:39-55, 58-117).
NeverBeyondBitmap == stray => ~ready /\ ~HasPlace(bitmap_size)

\* allocPage gives up only when clients hold every frame there is, wherever
\* its search begins and whatever was given back (PhysicalMemoryManager.cpp:85-103).
GivesUpOnlyWhenAllHeld ==
  reply = "null" => held = UsableFrames(memmap) \ Own

-----------------------------------------------------------------------------
\* The manager implements the abstract allocator.
Abstract == INSTANCE FrameAllocator WITH free <- FreeFrames

\* Lowest frame first, each frame to one client, whatever they give back.
ImplementsFrameAllocator == Abstract!Spec

=============================================================================
