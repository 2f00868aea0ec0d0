--------------------------- MODULE VirtualMemory ---------------------------
(***************************************************************************)
(* VirtualMemoryManager.cpp: the page tables of all address spaces, in     *)
(* frames of the physical memory manager, walked and written through the   *)
(* direct map (Hhdm, Address.cpp), itself a part of those tables.          *)
(*                                                                         *)
(* Its callers hold a guard or run before interrupts are on, so a call is  *)
(* one action, but for freePage and unmapPage, which call each other: each *)
(* of their calls is a step.  Clients map what is not mapped and free what *)
(* is.                                                                     *)
(*                                                                         *)
(* Abstracted: an entry is the frame it names, without its flags (all are  *)
(* present), an address is its four indices, without the offset; a table   *)
(* has N entries instead of 512.  Every                                    *)
(* change of an entry is followed by an invlpg or a load of CR3 before its *)
(* address is used: there is no TLB.  The code gets at a frame through the *)
(* direct map; the model goes to it at once, which is the same while the   *)
(* direct map is complete (DirectMapComplete).                             *)
(***************************************************************************)
EXTENDS Integers, Sequences, FiniteSets

CONSTANTS
  NONE,        \* an entry that is not present; no page table
  N,           \* entries of a table
  NumFrames,   \* frames of physical memory
  Vmm,         \* the VirtualMemoryManager objects there can be
  Kernel,      \* the one kmain makes
  Pages        \* the pages clients map

Index == 0 .. N - 1
Frame == 0 .. NumFrames - 1
Va == Index \X Index \X Index \X Index

\* A top level index in the kernel's half, and the direct map's.
KernelHalf(i) == i >= N \div 2
DirectMap == N \div 2

\* The boot loader's tables: one of the top level, one below it, and then as
\* many of the two lower levels as a direct map of all frames by pages takes.
DirectPds == (NumFrames - 1) \div (N * N) + 1
DirectPts == (NumFrames - 1) \div N + 1
BootTables == 2 + DirectPds + DirectPts    \* the last of their frames

\* Memory holds the boot loader's tables and fits into one entry of the top
\* level.  All pages of the kernel's half are the heap's, in one such entry.
ASSUME VirtualMemoryAssumption ==
  /\ N \in Nat \ {0, 1}
  /\ NumFrames \in Nat /\ BootTables < NumFrames /\ NumFrames <= N * (N * N)
  /\ NONE \notin Nat \cup (Vmm \X Va)
  /\ Kernel \in Vmm
  /\ Pages \subseteq {va \in Va : va[1] # DirectMap}
  /\ \A va, wa \in Pages : KernelHalf(va[1]) /\ KernelHalf(wa[1]) => va[1] = wa[1]

VARIABLES
  mem,          \* the frames, as tables
  free,         \* the frames the physical memory manager has
  pml4,         \* per object: its top level table, NONE if not constructed
  cr3,          \* the top level table the CPU uses
  unmapping,    \* the object and address of the unmapPage that runs, or NONE
  outer,        \* those of the calls of it that wait for that one
  intact        \* history: no table was put into frame 0 or given back

vars == << mem, free, pml4, cr3, unmapping, outer, intact >>

-----------------------------------------------------------------------------
Empty == [i \in Index |-> NONE]

\* The address of frame f in the direct map.
toVirtualHhdmAddress(f) ==
  << DirectMap, f \div (N * N), (f \div N) % N, f % N >>

\* The walk of va in the tables m from root: at each level the table, or NONE.
Entry(m, t, i) == IF t = NONE THEN NONE ELSE m[t][i]
Pdpt(m, root, va) == Entry(m, root, va[1])
Pd(m, root, va) == Entry(m, Pdpt(m, root, va), va[2])
Pt(m, root, va) == Entry(m, Pd(m, root, va), va[3])
Mapped(m, root, va) == Entry(m, Pt(m, root, va), va[4])

\* 0 if the page is not mapped.
toPhysicalAddress(m, root, va) ==
  IF Mapped(m, root, va) = NONE THEN 0 ELSE Mapped(m, root, va)

\* The tables on the walk.
Touched(m, root, va) ==
  {root, Pdpt(m, root, va), Pd(m, root, va), Pt(m, root, va)} \ {NONE}

\* PhysicalMemoryManager::allocPage: the lowest free frame, or 0.
FrameOf(F) == IF F = {} THEN 0 ELSE CHOOSE f \in F : \A g \in F : f <= g

\* Slip: a new table although there is one.
NextTableAlways(s, t, i) ==
  LET f == FrameOf(s.free)
  IN  [mem |-> [s.mem EXCEPT ![f] = Empty, ![t][i] = f], free |-> s.free \ {f}]

\* One level of mapPage: the table that entry i of t names is there, if need
\* be a new one.  Whether there was a frame for it is not looked at.
NextTable(s, t, i) ==
  LET f == FrameOf(s.free)
  IN  IF s.mem[t][i] # NONE THEN s
      ELSE [mem |-> [s.mem EXCEPT ![f] = Empty, ![t][i] = f],
            free |-> s.free \ {f}]

mapPage(s, root, va, f) ==
  LET s1   == NextTable(s, root, va[1])
      pdpt == s1.mem[root][va[1]]
      s2   == NextTable(s1, pdpt, va[2])
      pd   == s2.mem[pdpt][va[2]]
      s3   == NextTable(s2, pd, va[3])
      pt   == s3.mem[pd][va[3]]
  IN  [mem |-> [s3.mem EXCEPT ![pt][va[4]] = f], free |-> s3.free]

\* Slips: nothing is copied, or all of it.
CopiedNothing(i) == FALSE
CopiedAll(i) == TRUE

\* The top level entries setPml4 copies.
Copied(i) == KernelHalf(i)

-----------------------------------------------------------------------------
Returned == unmapping = NONE /\ outer = << >>

\* Bound: nothing more is mapped or freed once the tables are not intact.
MayCall == Returned /\ intact

\* VirtualMemoryManager(): an empty table with the kernel half of the one
\* the CPU uses, loaded at once.
Construct(v, F) ==
  LET f     == FrameOf(F)
      clear == [mem EXCEPT ![f] = Empty]
  IN  /\ MayCall
      /\ pml4[v] = NONE
      /\ free' = F \ {f}
      /\ mem' = [clear EXCEPT ![f] = [i \in Index |->
                   IF Copied(i) THEN clear[cr3][i] ELSE clear[f][i]]]
      /\ pml4' = [pml4 EXCEPT ![v] = f]
      /\ cr3' = f
      /\ intact' = (f # 0)
      /\ UNCHANGED << unmapping, outer >>

\* kmain: the kernel's object is put into a frame of its own.
NewKernel == Construct(Kernel, free \ {FrameOf(free)})

\* Slip: objects are made before there is a heap.
HeapExistsAlways == pml4[Kernel] # NONE

\* Other objects lie in the heap, whose first pages are mapped by then.
HeapExists ==
  /\ pml4[Kernel] # NONE
  /\ \E va \in Pages : KernelHalf(va[1]) /\ Mapped(mem, pml4[Kernel], va) # NONE

\* Process::create of a user process.
New(v) == HeapExists /\ Construct(v, free)

\* timerInterrupt switches to a thread of v.
loadCr3(v) ==
  /\ Returned
  /\ pml4[v] # NONE
  /\ cr3' = pml4[v]
  /\ UNCHANGED << mem, free, pml4, unmapping, outer, intact >>

\* The heap's pages are the kernel object's business.
May(v, va) == pml4[v] # NONE /\ (KernelHalf(va[1]) => v = Kernel)

\* Without a frame for the page it returns false, and nothing changes.
allocPage(v, va) ==
  /\ MayCall
  /\ free # {}
  /\ LET f == FrameOf(free)
         s == mapPage([mem |-> mem, free |-> free \ {f}], pml4[v], va, f)
     IN  /\ mem' = s.mem
         /\ free' = s.free
         /\ intact' = (0 \notin Touched(s.mem, pml4[v], va))
  /\ UNCHANGED << pml4, cr3, unmapping, outer >>

\* The frame freePage gives back.
Freed(m, root, va) == toPhysicalAddress(m, root, va)

freePage(v, va) ==
  /\ MayCall
  /\ free' = free \cup {Freed(mem, pml4[v], va)}
  /\ unmapping' = << v, va >>
  /\ UNCHANGED << mem, pml4, cr3, outer, intact >>

\* unmapPage looks at the whole table.
IsEmpty(t) == t = Empty

\* The body of unmapPage up to its call of freePage for the table that has
\* become empty, by the address of the table in the direct map.
unmapPage ==
  LET v       == unmapping[1]
      va      == unmapping[2]
      pt      == Pt(mem, pml4[v], va)
      cleared == [mem EXCEPT ![pt][va[4]] = NONE]
      ptVa    == toVirtualHhdmAddress(pt)
  IN  /\ unmapping # NONE
      /\ IF pt = NONE
           THEN unmapping' = NONE /\ UNCHANGED << mem, free, outer, intact >>
           ELSE /\ mem' = cleared
                /\ IF IsEmpty(cleared[pt])
                     THEN /\ free' = free \cup {Freed(cleared, pml4[v], ptVa)}
                          /\ outer' = Append(outer, unmapping)
                          /\ unmapping' = << v, ptVa >>
                          /\ intact' = FALSE
                     ELSE /\ unmapping' = NONE
                          /\ UNCHANGED << free, outer, intact >>
      /\ UNCHANGED << pml4, cr3 >>

\* After that call: the entry for the table is cleared.
ForgetTable ==
  LET call == outer[Len(outer)]
      va   == call[2]
      pd   == Pd(mem, pml4[call[1]], va)
  IN  /\ unmapping = NONE
      /\ outer # << >>
      /\ mem' = [mem EXCEPT ![pd][va[3]] = NONE]
      /\ outer' = SubSeq(outer, 1, Len(outer) - 1)
      /\ UNCHANGED << free, pml4, cr3, unmapping, intact >>

-----------------------------------------------------------------------------
\* The boot loader's tables, in frames it does not report as usable.
BootEntry(f, i) ==
  CASE f = 1 /\ i = DirectMap -> 2
    [] f = 2 /\ i < DirectPds -> 3 + i
    [] f \in 3 .. 2 + DirectPds /\ N * (f - 3) + i < DirectPts ->
         3 + DirectPds + N * (f - 3) + i
    [] f \in 3 + DirectPds .. BootTables /\ N * (f - 3 - DirectPds) + i < NumFrames ->
         N * (f - 3 - DirectPds) + i
    [] OTHER -> NONE
BootMem == [f \in Frame |-> [i \in Index |-> BootEntry(f, i)]]

\* What PhysicalMemoryManager::init leaves.
Usable == BootTables + 1 .. NumFrames - 1

\* The frames of usable are left to allocate.
InitWith(usable) ==
  /\ mem = BootMem
  /\ free = usable
  /\ pml4 = [v \in Vmm |-> NONE]
  /\ cr3 = 1
  /\ unmapping = NONE
  /\ outer = << >>
  /\ intact = TRUE

Init == InitWith(Usable)

Next ==
  \/ NewKernel \/ unmapPage \/ ForgetTable
  \/ \E v \in Vmm \ {Kernel} : New(v)
  \/ \E v \in Vmm : loadCr3(v)
  \/ \E v \in Vmm, va \in Pages :
       /\ May(v, va)
       /\ IF Mapped(mem, pml4[v], va) = NONE THEN allocPage(v, va)
                                             ELSE freePage(v, va)

Spec == Init /\ [][Next]_vars

-----------------------------------------------------------------------------
Constructed == {v \in Vmm : pml4[v] # NONE}
Roots == {pml4[v] : v \in Constructed}

\* The present entries of the tables of T, but for those of the direct map.
Present(T) == {e \in T \X Index : mem[e[1]][e[2]] # NONE}
Named(E) == {mem[e[1]][e[2]] : e \in E}

\* The top level entries, a shared one as one; then level by level.
TopEntries ==
  { e \in Present(Roots) :
      /\ e[2] # DirectMap
      /\ KernelHalf(e[2]) => e[1] = pml4[Kernel] }
PdptEntries == Present(Named(TopEntries))
PdEntries == Present(Named(PdptEntries))
PtEntries == Present(Named(PdEntries))

\* Each frame of usable is free, a table that one entry names, a page that
\* one entry maps, or holds the kernel's object.
OnePurpose(usable) ==
  (intact /\ Returned /\ Constructed # {}) =>
    LET entries == TopEntries \cup PdptEntries \cup PdEntries \cup PtEntries
        object  == {FrameOf(usable)}
        used    == Named(entries)
    IN  /\ Cardinality(entries) = Cardinality(used)
        /\ used \cup Roots \cup free \cup object = usable
        /\ Cardinality(used) + Cardinality(Roots) + Cardinality(free) + 1
             = Cardinality(usable)

TypeOK ==
  /\ mem \in [Frame -> [Index -> Frame \cup {NONE}]]
  /\ free \subseteq Frame
  /\ pml4 \in [Vmm -> Frame \cup {NONE}]
  /\ cr3 \in Frame
  /\ unmapping \in Vmm \X Va \cup {NONE}
  /\ outer \in Seq(Vmm \X Va)
  /\ intact \in BOOLEAN

\* Every usable frame serves one purpose: it is free, a table that one entry
\* names, a page that one entry maps, or it holds the kernel's object; none
\* is lost and none is in two places (VirtualMemoryManager.cpp:36-90, 183-197).
EveryFrameOnePurpose == OnePurpose(Usable)

\* In every address space each frame is where toVirtualHhdmAddress says
\* (Address.cpp:8-10): the kernel gets at the tables whichever is loaded.
DirectMapComplete ==
  intact => \A root \in Roots \cup {cr3}, f \in Frame :
              Mapped(mem, root, toVirtualHhdmAddress(f)) = f

\* The copies of the kernel half of the top level table made when address
\* spaces are created stay equal (VirtualMemoryManager.cpp:26-27): the heap
\* grows in all of them.
KernelHalfShared ==
  intact => \A v, w \in Constructed, i \in Index :
              KernelHalf(i) => mem[pml4[v]][i] = mem[pml4[w]][i]

\* Every physical address has one in the direct map.
DirectMapKept ==
  \A f \in Frame : Mapped(mem, cr3, toVirtualHhdmAddress(f)) = f

\* allocPage succeeds only if there is memory for the tables it needs.
AllocPageReports ==
  \A v \in Constructed, va \in Pages : 0 \notin Touched(mem, pml4[v], va)

-----------------------------------------------------------------------------
Abstract == INSTANCE AddressSpaces WITH
  Space      <- Vmm,
  Page       <- Pages,
  KernelPage <- {va \in Pages : KernelHalf(va[1])},
  created    <- Constructed,
  map        <- [v \in Vmm |-> [va \in Pages |-> Mapped(mem, pml4[v], va)]]

\* Until a table is put into frame 0 or given back, the tables implement
\* address spaces that share the kernel's pages and nothing else.
ImplementsAddressSpaces ==
  Abstract!Init /\ [][intact' => Abstract!Next]_(Abstract!vars)

=============================================================================
