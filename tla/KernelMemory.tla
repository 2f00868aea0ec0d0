---------------------------- MODULE KernelMemory ----------------------------
(***************************************************************************)
(* The kernel heap (module KernelHeap) over the page tables of the kernel's *)
(* address space (module VirtualMemory) over the free frames: what expand  *)
(* of KernelHeap.cpp does with allocPage and freePage of the virtual       *)
(* memory manager, while kmain and Process::create make address spaces and *)
(* the handler switches between them.                                      *)
(*                                                                         *)
(* A call of the heap holds a guard: nothing else runs until it returns.   *)
(* Where KernelHeap chooses whether a page can be mapped, the frames       *)
(* decide.  The frames are a pool that hands out its lowest, which is what *)
(* PhysicalMemory implements.                                              *)
(***************************************************************************)
EXTENDS KernelHeap

CONSTANTS
  NONE, N, NumFrames, Vmm, Kernel,   \* of VirtualMemory
  FrameCounts   \* how many frames PhysicalMemoryManager::init may leave

VARIABLES mem, free, pml4, cr3, unmapping, outer, intact,   \* of VirtualMemory
          usable       \* history: the frames there were at first

tables == << mem, free, pml4, cr3, unmapping, outer, intact >>
memory == << vars, tables, usable >>

\* KERNEL_HEAP_START is at the begin of a top level entry of its own.
HeapTop == N \div 2 + 1

\* The page of the heap with number i.
AddressOf(i) == << HeapTop, 0, i \div N, i % N >>

Tables == INSTANCE VirtualMemory WITH
  Pages <- {AddressOf(i) : i \in 0 .. MaxPages - 1}

\* What VirtualMemory assumes, and that there are addresses for the heap.
ASSUME MemoryAssumption ==
  /\ N \in Nat \ {0, 1} /\ HeapTop < N /\ MaxPages <= N * N
  /\ NumFrames \in Nat /\ Tables!BootTables < NumFrames /\ NumFrames <= N * (N * N)
  /\ NONE \notin Nat \cup (Vmm \X Tables!Va)
  /\ Kernel \in Vmm

-----------------------------------------------------------------------------
\* kmain: the kernel's address space, then the heap.
NewKernel ==
  /\ pc = "boot"
  /\ Tables!NewKernel
  /\ UNCHANGED << vars, usable >>

Boot ==
  /\ pml4[Kernel] # NONE
  /\ init
  /\ UNCHANGED << tables, usable >>

\* A step of the heap that maps and frees nothing.
HeapStep(step) ==
  /\ Tables!Returned
  /\ step
  /\ UNCHANGED << tables, usable >>

\* allocPage finds a frame for the next page of the heap.
MapNext ==
  /\ ExpandPage
  /\ Tables!allocPage(Kernel, AddressOf(KERNEL_HEAP_END \div Page))
  /\ UNCHANGED usable

\* allocPage returns false.
MapFails == free = {} /\ Tables!MayCall /\ HeapStep(ExpandFails)

\* Slip: the end is lowered after the page has been freed.
PageAtEnd == KERNEL_HEAP_END \div Page
LastPage == (KERNEL_HEAP_END - Page) \div Page

\* expand frees the page before the end.
FreeLast ==
  /\ RollBackPage
  /\ Tables!freePage(Kernel, AddressOf(LastPage))
  /\ UNCHANGED usable

\* freePage goes on.
Unmap ==
  /\ Tables!unmapPage \/ Tables!ForgetTable
  /\ UNCHANGED << vars, usable >>

\* Between calls of the heap: Process::create of a user process, the handler.
CreateSpace(v) ==
  /\ pc = "idle"
  /\ Tables!New(v)
  /\ UNCHANGED << vars, usable >>

Switch(v) ==
  /\ pc = "idle"
  /\ Tables!loadCr3(v)
  /\ UNCHANGED << vars, usable >>

-----------------------------------------------------------------------------
MemoryInit ==
  /\ Init
  /\ \E n \in FrameCounts :
       usable = {f \in Tables!Usable : f <= Tables!BootTables + n}
  /\ Tables!InitWith(usable)

CallStep ==
  \/ HeapStep(AllocFit \/ AllocExpand \/ InitDone \/ Expanded \/ RolledBack)
  \/ MapNext \/ MapFails \/ FreeLast \/ Unmap

MemoryNext ==
  \/ NewKernel \/ Boot \/ CallStep
  \/ \E size \in Sizes : HeapStep(New(size))
  \/ \E piece \in live : HeapStep(Delete(piece))
  \/ \E v \in Vmm \ {Kernel} : CreateSpace(v)
  \/ \E v \in Vmm : Switch(v)

\* Interrupts are off: nothing keeps a call from running on.
MemorySpec == MemoryInit /\ [][MemoryNext]_memory /\ WF_memory(CallStep)

-----------------------------------------------------------------------------
\* Whichever address space is loaded, and in every other, exactly the pages
\* below KERNEL_HEAP_END are mapped, while the heap grows and when it has
\* failed to, half way (KernelHeap.cpp:36-49).
HeapBacked ==
  (intact /\ Tables!Returned /\ pml4[Kernel] # NONE) =>
    \A root \in Tables!Roots \cup {cr3}, i \in 0 .. MaxPages - 1 :
      (Tables!Mapped(mem, root, AddressOf(i)) # NONE) <=> (Page * i < KERNEL_HEAP_END)

\* The frames of the heap's pages are its own and come back: none is lost,
\* none is used twice, none is freed that was not there, frame 0 included.
FramesAccounted == Tables!OnePurpose(usable)

\* Every call returns: no walk runs in circles, no recursion goes on.
CallReturns ==
  (pc \in {"search", "expand", "rollback"}) ~> (pc \in {"idle", "fault"} \/ ~intact)

=============================================================================
