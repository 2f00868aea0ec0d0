# Veyra kernel: TLA+ models, model checking and proofs

The repository is a small x86-64 kernel for one CPU, started by the Limine boot
loader.  This directory models the parts of it that keep state several pieces of
code change - threads, interrupts, frames, page tables, the heap -, the tables and
stack frames it shares with the CPU, and the two places where it reads data it did
not make, the ramdisk and the font.  TLC checks the models on small instances;
TLAPS proves a part of what is checked for every instance.

Paths and line numbers are relative to the root of the repository;
`PROJECT.json` puts `src/` before them.

## 1. The system

### 1.1 Components

| component | code | state | operations |
|---|---|---|---|
| boot | `kernel/src/Kernel.asm`, `main.cpp`, `KernelMainThread.cpp` | registers of the CPU, how far boot has come | `_start`, `kmain`, `kernelMainThread` |
| scheduler | `Process.cpp`, `Idt.cpp` (`timerInterrupt`), `IdtHandlers.asm` | ready list, sleep list, current control block, counter of milliseconds, saved contexts, TSS stack, CR3 | `init`, `create`, `sleep`, `scheduler`, vector 0x20 |
| LAPIC timer | `Apic.cpp`, `Msr.hpp` | APIC registers, the PIT it is calibrated against, request bit of vector 0x20 | `init`; periodic ticks, self-IPI, EOI |
| interrupt guard | `InterruptGuard.cpp` | RFLAGS.IF, the flags each live guard has saved | constructor, destructor, static `setInterrupts` |
| physical memory manager | `PhysicalMemoryManager.cpp` | bitmap, its place and size | `init`, `allocPage`, `freePage` |
| virtual memory manager | `VirtualMemoryManager.cpp`, `Address.cpp`, `Hhdm.cpp` | page tables of every address space, CR3 | constructor, `mapPage`, `unmapPage`, `toPhysicalAddress`, `allocPage`, `freePage`, `loadCr3` |
| kernel heap | `KernelHeap.cpp`, `cxxabi.cpp` | list of blocks, end of the heap, mapped pages | `init`, `expand`, `alloc`, `free`, `operator new`, `operator delete` |
| descriptor tables, faults | `Gdt.cpp`, `Idt.cpp`, `IdtHandlers.asm`, `Macros.asm` | GDT, IDT, TSS, what an interrupt has pushed | `initGdt`, `initIdt`, entry and exit of handlers, fault handlers |
| console | `Log.cpp`, `Psf1Parser.cpp` | cursor, glyph tables | `init`, `print`, `decodeUtf8`, `getGlyphIndex` |
| ramdisk | `Ramdisk.cpp`, `UstarParser.cpp` | none (a read-only archive) | `readFile`, `getFileSize` |
| library | `Kstd.cpp` | none | `memset`, `memcpy`, `memcmp`, `strcmp`, `strToUint64` |

### 1.2 How they interact

* `_start` fills the descriptor tables and loads them, masks the old interrupt
  controllers and calls `kmain`.  From then on every interrupt and fault goes
  through those tables, and the handler's change of the TSS takes effect at the
  next entry from user mode.
* `kmain` makes the physical memory manager, then the kernel's address space in a
  frame of its own, then the heap, then the boot thread's control block, starts
  the timer, turns interrupts on and goes on as `kernelMainThread`.
* `operator new` -> `KernelHeap::alloc` -> `expand` -> `VirtualMemoryManager::allocPage`
  -> `mapPage` -> `PhysicalMemoryManager::allocPage`, once for the page and once for
  each table on the way to it.  Back up the stack a failure is a `false` or a 0.
* `Process::create` allocates control blocks and stacks from the heap, and an
  address space for a user process.
* `Process::sleep` ends in `Process::scheduler`, which has the CPU send itself the
  vector of the timer.  The timer's handler counts, wakes sleepers and switches;
  it shares the two lists with `create` and `sleep`.
* Whatever shares state with the handler or another thread holds an
  `InterruptGuard`: `alloc`, `free`, `create`, `sleep`, `scheduler`.  The managers of
  physical and virtual memory and `Psf1Parser` hold none; they run under their
  callers' or in one thread.
* `Log::init` finds its font with `Ramdisk::readFile` and keeps tables in the heap.

### 1.3 What is hard, and what makes each part correct

* **Scheduler.**  Two intrusive lists are edited by three functions that leave old
  links in the blocks they take out, and the handler chooses the next thread by
  those raw links; its wake-up loop need not end; its counter counts more than
  ticks.  Correct: the handler goes round exactly the threads that are not asleep,
  sleepers are woken, in time, and resume a complete frame.
* **Guards.**  They nest, in several threads, with a handler that can come between
  any two instructions, and during a boot that must stay uninterrupted.  Correct:
  one at a time inside, interrupts off inside and on again outside.
* **Boot, descriptor tables.**  Tables written field by field through packed structs
  and read by the CPU; registers of the APIC that exist only after others have been
  written; a period measured against another clock; frames pushed by the CPU, by the
  stub and by `create`, and popped by one piece of code; one stack for the double
  faults of all threads, with interrupts on.  Correct: every vector reaches its own
  handler, every thread resumes with what it had, whatever happens to others, a tick
  is a millisecond.
* **Physical memory.**  A bitmap in the memory it describes, its last word
  incomplete.  Correct: no usable frame is lost, shared or the bitmap's own, and
  nothing but the bitmap is written.
* **Virtual memory.**  Tables in the frames they map, reached through a direct map
  that is itself in the tables; several allocations per call; a kernel half copied
  once.  Correct: every frame has one purpose, the direct map stays complete, the
  kernel half is the same everywhere.
* **Heap.**  Split, append and grow by one list, failure at any page, whose mapping
  and unmapping go through tables and frames.  Correct: the blocks tile the heap,
  those in use are the clients', exactly the heap's pages are mapped, in every
  address space, a call returns.
* **Ramdisk, console.**  The next thing to read is where the last one says.
  Correct: the walk is always at a header or a character, and finds what is there.
* **Library.**  `memset` and `memcpy` change from bytes to words and back.  Correct:
  every byte of the destination and no other is stored.

## 2. Modules

| module | of | abstract specification | run by | proofs |
|---|---|---|---|---|
| `Scheduler` | scheduler, timer | `Threads` | `MCScheduler` | `SchedulerProofs` |
| `InterruptGuard` | guards, entry and exit of the handler, order of boot | `CriticalSection` | itself | `InterruptGuardProofs` |
| `PhysicalMemory` | physical memory manager | `FrameAllocator` | `MCPhysicalMemory` | `PhysicalMemoryProofs` |
| `VirtualMemory` | virtual memory manager, direct map | `AddressSpaces` | `MCVirtualMemory` | `VirtualMemoryProofs` |
| `KernelHeap` | heap, `new` and `delete` | `Allocator` | `KernelMemory` | `KernelMemoryProofs` |
| `KernelMemory` | heap over page tables over frames | `KernelHeap`, so `Allocator` | itself | `KernelMemoryProofs` |
| `Descriptors` | descriptors, gates, TSS, byte by byte | - | `Boot` | `BootProofs` |
| `Boot` | `_start`, `kmain`, `Apic::init`, entry and exit of handlers | - | `MCBoot` | `BootProofs` |
| `Ramdisk` | `readFile`, `getFileSize`, `strToUint64` | a reference in the module | `MCRamdisk` | `RamdiskProofs` |
| `Console` | font tables, UTF-8, cursor | a reference in the module | `MCConsole` | `ConsoleProofs` |
| `Kstd` | `memset`, `memcpy` | `Wanted` in the module | - | `RamdiskProofs` |

`KernelMemory` EXTENDS `KernelHeap` and has `VirtualMemory` as an instance whose
pages are the heap's; `KernelMemoryProofs` has `VirtualMemoryProofs` as an instance in
the same way, so that what is proved of page tables is there for the heap.
`RamdiskProofs` has `Kstd` as the instance `Library`, with variables of its own: nothing
of the archive's depends on it.

Each variable and action bears the name of what it stands for in the code where
TLA+ allows it, and `PROJECT.json` gives the lines of every definition.  What a
model leaves out is named in the comment at its head.

A definition introduced as a **Slip** is not part of a model.  It is a definition
next to it as a plausible mistake in the code would make it; putting it in the
place of that definition breaks the property named in `PROJECT.json` under
"mutants".  It shows that the property depends on the code being as it is.

### 2.1 Grain

`InterruptGuard` shows that what runs under a guard is not interrupted, and by a
theorem that this is so for any threads and any nesting.  The other modules use
it: a guarded function is one action where it cannot fail half way and surely
returns.  It is several where it can: `KernelHeap` has a step per page that
`expand` maps or takes back, `Scheduler` one per turn of the handler's wake-up loop
(which in the code may go on forever), `VirtualMemory` one per call between
`freePage` and `unmapPage`, which call each other.  In `InterruptGuard` itself the
constructor is two instructions and the handler's entry and exit are two.  In `Boot`
a step is a call, or an instruction that the CPU checks or an interrupt can see.

### 2.2 Correspondence, module by module

* **`Scheduler`.**  `lists` has the head and last pointers and the links of both
  queues; `Unlink`, `Enqueue` and `LinkNew` are the pointer code, stale links
  included.  `Create` and `Sleep` are whole functions; `Interrupt` is the stub up
  to the loop, `WakeStep` a turn of it, `Dispatch` the rest up to `iretq`.
  `sleepTime` is kept as ticks to go so that the counter needs no bound.  `irr` is
  the request bit with who set it, so that a tick that finds it set is lost.  A
  null pointer that is followed sets `fault`: the page fault handler halts.  User
  threads call nothing (`UserAssumption`): the kernel has no system call.
* **`InterruptGuard`.**  `guards[t]` are the saved flags of the live guards of
  thread t; `LoadRflags` and `ClearInterrupts` the constructor; `Destruct` the
  destructor; `Interrupt` and `Return` entry and exit of vector 0x20, `GateFlag`
  being what its gate does to IF; `phase` how far `kmain` is.
* **`PhysicalMemory`.**  `bitmap_base` is the bitmap by words, a word the set of
  its set bits.  `init` is the whole of `init`; `initFaults` is what it comes to when
  no region is large enough for the bitmap: it stores through a null pointer, where
  nothing is mapped, and the page fault's handler halts.  Clients are the set of
  frames they hold; a client frees only what it holds, at any offset into the frame.
* **`VirtualMemory`.**  `mem` is physical memory as tables, `pml4` and `cr3` the
  roots.  `allocPage` has all of `mapPage`, `Construct` all of the constructor,
  `setPml4` and `loadCr3`.  A failed allocation is frame 0, as in the code.
* **`KernelHeap`.**  `blocks` has header addresses and their size and next;
  `AllocFit` and `AllocExpand` are the paths of `alloc`, the recursive call being
  another search.  `ExpandPage`, `ExpandFails`, `RollBackPage` and `RolledBack` are
  the loops of `expand`; whether a page can be mapped is a choice.
* **`KernelMemory`.**  The same steps with the choice made: `MapNext` is `ExpandPage`
  with `allocPage`, `MapFails` happens when no frame is free, `FreeLast` and `Unmap`
  are `RollBackPage` with `freePage` and `unmapPage`.  `NewKernel` and `Boot` are
  `kmain`'s calls; `CreateSpace` and `Switch` what `create` and the handler do to the
  page tables between two calls of the heap.  The frames are a pool that hands out
  its lowest, which is what `PhysicalMemory` is shown to implement.
* **`Descriptors`, `Boot`.**  A packed struct is the sequence of its bytes, written and
  read at the offsets of its members, and so is a number of more than three bytes; the
  TSS, of which one member at a time is written, has its members by their offsets.  What
  the CPU does
  with the tables - `Enter`, `MayReturn`, `Accepted` and what they look up - follows
  the processor's manuals and is marked external in the map where no line of the
  code corresponds: an entry of the IDT that was not written is zero and so no gate,
  which raises vector 13, or a double fault if it was itself met while raising a
  contributory exception (`Contributory`) or a page fault.  A stack is the sequence of
  its words.  `HandleFault` and `WriteReturns` are the handlers of faults up to their
  loop around `hlt`, in which the timer interrupts them as it does any thread.  The
  double fault has one stack (`double_fault_stack`) for all threads: what a second one
  pushes there replaces what the first had saved, word by word, and `Return` reads what
  it finds.  `raised[t]` are the causes of the vectors thread t is in the handlers of,
  `left[t]` its registers when it was last interrupted; both are history.  Which thread
  the handler chooses is left open: `Scheduler` says.
* **`Ramdisk`, `Console`.**  A step is a turn of the loop of `readFile` and
  `getFileSize`, of the constructor of `Psf1Parser`, of `Log::print`.  A character
  without a glyph halts the kernel if the table it leads to is null; if it has index
  0xFFFFFFFF the code draws what is 4 GiB behind the font, and only if nothing is mapped
  there (`mapped`) does it halt (`Faults`).
* **`Kstd`.**  A step is a store, or going on to the next loop.  `memory` is bytes; a
  word is written as eight of them.

## 3. Runs

| run | instance | question |
|---|---|---|
| `scheduler_threads` | five control blocks; the program the kernel boots, and one that makes threads before, during and after a sleep, two of them in user mode | is the list a rotation of the runnable threads, is the sleeper woken in time, does a user thread have its own address space and stack, and is the whole a fair scheduler? |
| `scheduler_twice` | the boot thread sleeps twice | *violation*: the thread is lost |
| `scheduler_two` | two threads sleep | *violation*: the handler does not return |
| `guard` | three threads, three guards deep | exclusion, restoration, every request taken |
| `frames` | five memory maps | conservation, safety of the bitmap, no frame refused while one is free, implements `FrameAllocator` |
| `heap` | `KernelMemory`: nine pages, three pieces, sizes 4096 and 16337, 3 to 14 frames, two address spaces | tiling, ownership, what is mapped and whose each frame is, also after an expansion that fails half way; termination; implements `Allocator` |
| `spaces` | three address spaces, 20 frames, five pages | one purpose per frame, direct map, shared kernel half, implements `AddressSpaces` |
| `spaces_emptied` | one address space | *violation*: freeing an empty table takes its frame out of the direct map |
| `spaces_exhausted` | one address space, few frames | *violation*: `allocPage` returns true with frame 0 as a table |
| `ramdisk` | archives of up to three files | the first file of the name is found, the search ends |
| `console` | four fonts, texts of up to three characters | the tables say what the font says; what is on the screen is the text, and printing returns |
| `boot` | every state of the APIC at entry, three threads of which two in user mode, one that raises any of five exceptions or two in double faults | nothing is lost between the kernel and the CPU, each vector reaches its handler, threads keep their registers though two others overwrite each other on the one stack of double faults, a tick is a millisecond and ticks go on |

### 3.1 Bounds

* `Scheduler`: `MaxProcs` control blocks (the heap's limit), `Delays`, and the
  programs in `Code`.  Five threads give a list with a first, a last and threads
  between them on both sides of the one that sleeps.  In `scheduler_threads` one
  thread sleeps once: with a second sleep or sleeper the code does not have the
  properties, which is what the two violation runs are about.  Ticks are not
  bounded.  `OneSleep` says what the programs of `scheduler_threads` have in common
  (`MCScheduler` assumes it of them, which TLC evaluates); the proofs are for all such
  programs and any `MaxProcs`.
* `InterruptGuard`: `MaxDepth`.  The code nests four deep at most (`create`,
  `new`, `alloc`, `alloc` again); the proofs have no bound.
* `PhysicalMemory`: the maps.  They have entries that begin and end inside frames,
  an entry without a whole frame, a bitmap of an incomplete word, of exactly one
  word and of two frames, no place for the bitmap (`init` faults), nothing usable (a
  bitmap of no words).  The proofs are for all maps.
* `KernelHeap` and `KernelMemory`: `MaxPages`, `MaxLive`, `Sizes`, `FrameCounts`.  The
  sizes hit a split, a remainder too small to split, the whole first heap, and a
  request that makes the heap grow by more than a page; with nine pages it grows
  onto a free and onto a used last block.  The counts of frames let `init` fail, and
  an expansion fail at each of its pages, and succeed with none left.  Tables of
  `N` = 6 entries put the border between two page tables into the heap, so that an
  expansion needs a table as well as pages.  The proofs about both modules are for all
  sizes, pages, frames and `N`.
* `VirtualMemory`: tables of `N` = 6 entries, frames, pages, and `MayCall`: nothing
  more is mapped or freed once a table was put into frame 0 or an emptied one was
  given back (`intact`).  What is wrong from there on is shown by the two
  violation runs; the others show what holds before.  The pages lie on both sides
  of the border of a table in the heap and at both ends of a table below.  The
  proofs are for all of these numbers and any pages, up to `MayCall`.
* `Boot`: one layout, in which all bytes of all addresses differ, so that a byte cut
  or put wrong is seen; one bus rate; `CountTop`, which stands for 0xFFFFFFFF and is not
  reached; `MaxLate`, the ticks of the PIT that pass unseen at either end of its count,
  none in the run: each lateness would multiply all that follows, and that the period
  is off by no more than it is left to the proof.  `Faults` are the exceptions threads
  raise, one for every gate and one without (vector 6), `FaultPlans` which threads do:
  a user thread any of them, or a thread of the kernel and one of the users' a double
  fault each, in every order of saving, overwriting and resuming on the stack they
  share, while two other threads run.  Three threads besides the boot thread give a
  switch from user to kernel mode, back, and from one user thread to another.  The
  proofs are for all layouts, threads, rates, lateness, exceptions and plans.
* `Ramdisk`, `Console`: sizes and characters on both sides of every border (a
  block; one, two, three and four bytes), and fonts with sequences at the start and
  at the end of a list, several glyphs of one character, unlisted characters, each
  with memory mapped 4 GiB behind the font and without.  The
  proofs about `Ramdisk` are for archives of any number of files, of any sizes that
  eleven octal digits can state, with any contents, those about `Console` for fonts
  and texts of any length.
* `Kstd`: none; it is proved and has no run.

`frames`, `heap` and `boot` have `CHECK_DEADLOCK FALSE`.  The first stops
when `init` has faulted, the second when it has or page tables are no longer intact,
the last when the CPU is in a fault handler, which halts, before interrupts are on, or
is lost.  In `Ramdisk` and `Console` a function
that has returned stays so by a step of its own (`Done`).

### 3.2 Fairness

* `Scheduler`: the timer is periodic; a pending vector is taken and the handler's
  code runs on (weak).  A tick is a millisecond, longer than the handler takes, so
  that a thread that is chosen again and again is again and again entered before
  the next tick, and one that is entered again and again executes its next call
  (strong).  Which thread is chosen is up to the code.
* `InterruptGuard`: instructions follow on one another (weak); a guarded function
  returns, whatever guards are made and destroyed inside (strong, per depth).
* `KernelMemory`: a call has interrupts off, so nothing keeps it from running on
  (weak, of `CallStep`).  Whether there is a call at all is open.
* `Boot`: the code of boot and of the handlers runs on, the timer counts, a request is
  taken (weak, of any of these: none of them comes again before the next has had its
  turn).  What threads do, nothing makes them do.
* `Ramdisk`, `Console`: nothing stops a function that runs (weak).

## 4. What the checks show

### 4.1 What holds

For the program this kernel boots the scheduler does its work: the boot thread is
woken in time - up to one tick early, since the request `sleep` sends itself is
counted like a tick - and resumes.  With more threads and one sleeper it implements
a fair scheduler.  A user thread always executes with its own page tables and its
own stack for interrupts, although `create` leaves the new process's page tables
loaded.  Guards exclude and restore.  The bitmap implements a first-fit pool of
frames.  The heap implements `new` and `delete` and grows at most once per call; if
frames run out while it grows it takes back exactly what it has mapped, and in
between and afterwards the same pages are mapped in every address space.  Until
memory is exhausted or a table is emptied, page tables implement address spaces with
a common kernel half.  What the kernel writes into the descriptor tables is what the
CPU needs to find there, whatever state the boot loader left the APIC in, and
threads in both modes come back with all their registers.  That is so too when other
threads fault, except in one place: `doubleFault` waits with interrupts on, on a stack
that all threads share.  When a second thread comes there, the frame and registers the
timer has saved for the first one are written over, and the CPU resumes from what is
left: the first thread may go on as the second one, both of which only halt, or `iretq`
finds no frame, with interrupts off, and the kernel stops, all its threads included.
This is the exception that `NeverLost` and `ContextKept` name, and the run `boot` meets
it; no other thread is ever resumed with what is not its own.  The archive walk
and the console do what their formats say, up to a character the font has no glyph for.
`init` of the physical memory manager survives every memory map that has a region for
its bitmap, and faults on any other.

### 4.2 What does not

| run | code | what happens |
|---|---|---|
| `scheduler_twice` | `Idt.cpp:70` | the handler appends a woken thread with its old `readyNext`; its next `sleep` takes that for its successor and leaves `lastReadyBlock` at the sleeper, which never executes again |
| `scheduler_two` | `Idt.cpp:78` | the wake-up loop goes on at the interrupted thread's `sleepNext` instead of the sleeper's: it looks at one sleeper forever |
| `spaces_emptied` | `VirtualMemoryManager.cpp:142` | an emptied page table is given back by its direct-map address, which is unmapped with it |
| `spaces_exhausted` | `VirtualMemoryManager.cpp:76` | a table that could not be allocated is put into frame 0, and `allocPage` returns true |

The heap meets the last two: a heap that runs out of frames when it needs a table,
or that takes back the only page of a table, leaves page tables that are not `intact`.
`HeapBacked` and `CallReturns` say what holds as long as they are.

## 5. What is proved

`InterruptGuardProofs`, for every set of threads and every `MaxDepth`, from
`GuardAssumption` (the boot thread is a thread, the handler is none):

* `TypeCorrect`, `Exclusion`, `Restoration`, `QuietBoot`, `NoPreemptionInside`, and
  `Refinement`: every step is one of `CriticalSection` or leaves it unchanged.
* None of the invariants is inductive.  Exclusion holds because whoever is inside
  has interrupts off (`OnlyCurrentInside`) and the handler too (`HandlerAlone`).
  That destructors do not turn them on too early is a fact about the saved flags:
  of a thread's guards only the outermost has seen interrupts on (`ThreadsInv`).
  The handler can come between `pushfq` and `cli`, but then the flags were read on
  and are on when the thread resumes: `image` in `ThreadsInv`.  During boot no
  saved flag is set (`BootInv`).  `IInv` is their conjunction.

`PhysicalMemoryProofs`, for every memory map, from `MapAssumption` (entries are of
natural numbers; frame 0 is not usable, since 0 means "no frame"):

* `TypeCorrect`, `FramesConserved`, `BitmapPlaced` (the bitmap is in usable memory, in
  frames nobody else has), `BitmapSafe` (no word beyond it is touched),
  `NoEarlyFailure` (`GivesUpOnlyWhenAllHeld`), `Refinement`.
* `Conservation` needs that every usable frame has a bit, `BitmapHolds`: the count
  of words is rounded up from the highest end of a usable entry, rounded up.  The
  lemmas `Rounding`, `WordAndBit`, `MarkTakes` and `ClearGives` say what the address
  arithmetic and the loops over the bitmap do; `FittingIsUsable` and `PlaceHasBits`
  that the bitmap lies in frames that have bits.  If it fits nowhere `init` does not
  return, so what is proved of its callers is about the other maps; `BitmapSafe` says
  that this is the only case of a store outside the bitmap.

`SchedulerProofs`, for any number of control blocks and any program - several
sleepers, and threads that sleep again, included:

* `TypeCorrect`, `Resumable` (a thread off the CPU has a complete frame), `OwnSpace` (a
  user thread executes with its own page tables and stack).
* Whatever the two lists have become, their pointers lead to control blocks that
  `create` has filled in or nowhere (`Linked`); so the handler never enters a block
  without a frame (`Framed`), and has loaded the page tables and the stack of the one
  it enters, which no user thread changes (`Spaced`).  `IInv` is these with `Typed`.
  What is false in general - that the lists are a rotation, that a sleeper is woken
  - is not needed for it.

The same module, for any number of control blocks and the programs of `OneSleep`, in
which the boot thread alone sleeps, at most once, and after it has created a thread,
as in `KernelMainThread.cpp`:

* `NoFault`, `EveryRunnableHasItsTurn` (the list is a rotation of the threads not
  asleep), `WokenWhenDue`, `OneTickEarly`, and `RunsThreads`: every step is one of
  `Threads` or leaves it unchanged.
* The handler follows raw links, among them some that were left by blocks taken out, so
  the invariant `OneSleepInv` says what every link that is ever followed is, in each
  of three situations: `Before` the sleep the list is the threads in the order of
  their creation; while the boot thread is `Asleep` it is the others, and the
  sleeper's old link still leads to the first of them; `Awake(k)`, it is behind the
  k - 1 threads there were, and what was created since behind it.  `CallsLeft` says
  that no call that would leave these situations is still to be made, `Timed` how the
  ticks to go relate to the request that `sleep` sent itself.
* That following the links from a runnable thread reaches each other one is an
  induction over threads' numbers (`Climb`).
* For any program the theorems are false: the second sleep and the second sleeper
  are the runs `scheduler_twice` and `scheduler_two`.

`KernelMemoryProofs`, its first part, about the heap alone, for all sizes and any number
of pages and pieces, from `HeapAssumption`:

* `TypeCorrect`, `Ownership` (in use exactly while a client has it), `BlocksApart`,
  `Refinement` (implements `Allocator`).
* What `new` promises follows from where blocks lie, not from the list: in order of
  address none reaches into the next (`Apart`), all are aligned and end where the heap
  does, or did when the expansion in progress began (`Placed`, `BlocksEnd`); what an
  expansion has still to map is known (`Growing`).  Of the walk only that what it
  stops at is what it looks for (`Stops`).
* `ListTilesHeap` (between calls the walk over the list meets every block, and the blocks
  make up the heap) and `OneExpansion` (`alloc` calls itself once at most).
* For these the list is an invariant about headers, not about walks: each block's
  successor begins where it ends, and the one without successor ends where the heap
  does (`Chained`).  `Ranks` numbers the headers in order of address; a walk of n links
  has met those of the first n (`WalkMeets`).  A block that is split or appended keeps
  the rest chained (`ListCut`, `ListGrown`).  After an expansion a block fits that the
  walk then finds (`Sufficient`).

`VirtualMemoryProofs`, for all tables, frames, address spaces and pages, from
`VirtualMemoryAssumption` (memory holds the boot loader's tables and fits into one entry
of the top level; the heap has one entry of its own):

* `TypeCorrect`, `DirectMapIsComplete`, `KernelHalfIsShared`, `FramesHaveOnePurpose`,
  `Refinement`: every step is one of `AddressSpaces` or leaves it unchanged.
* None is inductive: every operation is a walk, what a walk meets depends on all earlier
  ones, and tables are reached through tables.  The invariant (`TablesSound`) is that
  there is an assignment of one use to each frame - a table of level 4 to 1, a page,
  nothing, an object, not the allocator's - such that each entry that a space owns
  leads one level down, no two such entries lead to one frame and every table and page
  is led to (`Tree`), what is used for nothing is free and each root is one space's
  (`Roles`), every space has the kernel's upper half (`Halves`), and the boot loader's
  tables are as they were (`BootKept`).
* `allocPage` hangs up to four frames into the tree, each a step that keeps it (`Hang`);
  `unmapPage` takes one out (`Prune`); between `freePage` and `unmapPage` a frame is free
  and still mapped (`Kept`).  `WalkDown` and `Apart` say that walks
  go down the levels and meet only at equal addresses; this is what makes `mapPage`
  change one address of one space and no other (`Refinement`).
* All of it holds as long as tables are `intact`.  Without that it is false, as
  `spaces_emptied` and `spaces_exhausted` show.

`KernelMemoryProofs`, its second part, from `MemoryAssumption`: every step of the composed system is one
of `KernelHeap` or leaves the heap unchanged (`Composition`), hence `MemoryOwnership`,
`MemoryRefinement`, `MemoryTiling` and `MemoryOneExpansion`; and of both parts together

* `HeapIsBacked`: exactly the pages up to the end of the heap are mapped, in every
  address space, also in the middle of an expansion or of its taking back.
* `FramesAreAccounted`: each frame there was is free, or a table's, a page's or an
  object's, and only one of these.
* `MemoryInv` joins the invariants of heap and tables by `Backed`, which counts in
  pages what one and addresses what the other has.  It is inductive because `expand`
  maps the page at the end and takes back the last one, so that set and interval
  change together (`NextPage`).

`RamdiskProofs`, its second part, about `Kstd`, for every memory, size, address and value,
under `Arguments` (they are numbers) and with ranges inside memory that do not overlap (`Allowed`): `StoresAll`
(every byte of the destination has the wanted value on return, nothing else has
changed at any time) and `Alignment` (words are stored at multiples of eight).  The
invariant `Progress` says that what is stored is a beginning of what is wanted, that
`memset` is aligned when it stores words, and that the source is as it was.

`RamdiskProofs`, for every archive and name, from `RamdiskAssumption` (files have names,
and sizes of at most eleven octal digits):

* `StaysAtHeaders` and `FindsTheFirst`.
* The invariant is that the search is at the header of some file, or at the end, and that
  no file before it has the name.  That the next step leads to the next header takes
  two facts, both inductions: that `strToUint64` reads back what was written in octal
  (`ReadsBack`), and where in the archive the headers are (`Laid`, `ArchiveLaid`), which
  is the sum of the blocks before them (`HeadersAt`).

`ConsoleProofs`, for every font and every text, from `ConsoleAssumption` (a font has a
list for each of its glyphs, and texts are of code points):

* `FontIsRead` and `TextIsDrawn`.
* `LookupIsFont` speaks of the parser's end.  The invariant `Parsed` says of every turn of
  its loop what the tables know by then (`Knows`): of each word the last of the glyphs
  listed for it before `pos`, and none if there is none.  That the words behind a
  `SEQUENCE` are rightly passed over needs that the parser counts the list it is in, and
  is never behind a `SEQUENCE` of it (`Passed`).  At the end nothing behind `pos` belongs
  to a glyph of the font (`AllListed`).
* `DrawsText` needs where in the bytes the next character begins.  `Shown` says that after
  n characters `str` is behind the bytes of just these, the cursor at the place of the
  next one, and what is drawn is their picture.  That a step goes on to the next
  character takes three facts: the text's bytes begin with those of its first n
  characters (`Prefixes`, `NextBytes`), the first byte says how many there are
  (`FirstByte`), and `decodeUtf8` undoes the encoding, for every code point
  (`DecodesBack`).

`BootProofs`, for every layout the linker may choose, every set of threads, bus rate,
lateness, set of exceptions and number of faults, from `BootAssumption` (no two tables
or handlers at one address; the counter does not run out while the PIT counts):

* `NothingIsLost` (the CPU always finds what it looks up), `OwnHandler` (whatever raises a
  vector is handled by the function meant for it), `MillisecondTicks` (the period is what
  passes on the bus in 1193 ticks of the PIT, but for the lateness), and `ThreadsResume`, an
  action property: a thread comes back with the registers, mode and stack it left with.
  The first and the last except the threads that share the stack of double faults,
  nobody else.
* That the tables are right is calculation: the descriptors, gates and the TSS are read
  back from the bytes the code writes (`SegmentsRight`, `TaskRight`, `GateRead`,
  `MembersRight`).  That they are right *when* the CPU looks is the invariant:
  `TablesInv` says at each instruction of boot what is in place by then, `ApicInv` that
  registers of the x2APIC are used only behind the two writes that bring them into being,
  and that the timer requests nothing before it has its vector, `TimerInv` what the counter
  holds on the way from `count` to the period.
* `ThreadsResume` is not inductive at all: what a thread left is on stacks that others
  write to.  `Phase` says that each thread off the CPU has, on a stack that is its own, the
  frame and the fifteen registers of what it left, whether its function or the handler of
  a fault was interrupted.  `OwnApart` gives the reason: two threads share no stack but
  that of double faults.
* Of the threads that do share it the invariant cannot say what they will find, only
  enough to know that what they are resumed with does no harm to others: what lies on
  that stack is always the words of one double fault, of one depth or the other
  depending on whether `Serial::write` had been called, and behind them what the timer
  saved for it (`DoubleStack` and its lemmas).  Resumed from them a thread has the
  context of some thread in `doubleFault` (`ResumesShared`), which is again such words;
  or the words do not fit and the CPU is lost, while it resumes that thread.

Type correctness of guards, frames, page tables, heap and scheduler is among the
theorems and not repeated by runs.

Facts about recursive functions and walks of any length are proved by contradiction from
a least counterexample, a number (the lemmas `Least`), since an induction theorem with
an operator as parameter cannot be used.

Only model-checked:

* all liveness (`RequestTaken`, `SleepReturns`, `CallReturns`, `TimerGoesOn`, `SearchEnds`,
  `PrintReturns`, the fairness in `ImplementsThreads` and `ImplementsCriticalSection`),
  which is out of the prover's reach.  Every safety property of every run that passes
  is a theorem; of the refinements the initial states and the steps are.

## 6. Assumptions and what is not modelled

* The boot loader: a valid memory map, frame 0 not usable, interrupts off, a direct
  map.  `VirtualMemory` takes it to be mapped by 4 KiB pages, as `unmapPage` does;
  with larger pages a walk into the direct map would take memory for tables.
* Addresses and sizes are far from 2^64.
* `BootAssumption`: while the loop of `Apic::init` waits it misses at most as many ticks of
  the PIT as it waits for, and the APIC's counter of 32 bits outlasts it, which it does
  up to bus rates of some ten million counts per tick of the PIT.
* `ConsoleAssumption`: the font in the archive has a list for each of its glyphs; the
  parser has no other end to its table.
* Translation caches: every change of an entry is followed by an `invlpg` or a load
  of CR3 before the address is used.
* Callers free what they allocated; `freePage` of what is not mapped would free
  frame 0, which no caller does.
* `create` stores through the result of `new` unchecked: with no memory left the CPU
  faults inside its guard, with interrupts off, which stops the timer too.  In
  `Scheduler` and `Boot` it always gets its memory.
* Nothing is mapped at address 0, where null pointers lead: neither the boot loader nor
  the kernel maps it.
* `call_global_constructors`: no object of the kernel has a constructor that does
  anything.
* Error codes, which the CPU pushes for some exceptions, and the alignment of the stack
  at a handler's entry: no handler of a fault looks at what was pushed or returns.
* Words below the stack pointer count as gone.  A thread in `doubleFault` whose saved
  words were overwritten by shorter ones resumes in the code from words one off a frame,
  partly from below them; in `Boot` the CPU is lost there, and so it is when `iretq`
  finds no frame: what `generalProtection` would still report then is not modelled.
* Of the TSS descriptor's limit only that it covers the segment matters; with its G
  flag set it covers more.
* The spurious vector 0xFF has no gate; the APIC raises it only for requests that are
  withdrawn, and none is.
* The serial line, output only, and the wording of logs; ports and registers are
  modelled in `Boot` where boot depends on them.
* `memset` and `memcpy` are modelled by what they do where they are used; that this is
  what they do is `StoresAll`.
* Pixels, and the framebuffer's bounds, which `Log::print` does not look at.
* Bytes that begin no UTF-8 character: `decodeUtf8` gives -1, which leads to a null
  table, so that `Log::print` halts; the kernel prints literals.
* What is drawn for index 0xFFFFFFFF, if there is memory 4 GiB behind the font: that it
  is drawn, and where, is modelled.
* `code.fd`, `vars.fd`, `part_esp`, `limine.h`, the build: not of the kernel.

## 7. Plan

Done, in this order, the most important first: scheduler, guards (with proofs),
physical memory (with proofs), heap, virtual memory, ramdisk, console; then the
composition `KernelMemory`, descriptor tables and boot, `memset` and `memcpy` (proved),
user threads in `Scheduler`; the proofs of `Scheduler`, `KernelHeap`, `KernelMemory`; then
those of `VirtualMemory`, of the heap's list, of what is mapped and whose each frame is in
`KernelMemory`, of the scheduler with one sleeper, and of `Ramdisk`; last those of `Boot`
and of `Console`.

To extend the models:

1. `Scheduler` over a heap that runs out: `create` stores through the result of
   `new` unchecked.
2. `VirtualMemory` beyond `MayCall` in a run of its own.

To prove: nothing of the runs' safety properties is left.  What the two extensions would
add is the interesting part: which invariants survive a failed allocation.
