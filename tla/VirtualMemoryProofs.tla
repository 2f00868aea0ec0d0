------------------------ MODULE VirtualMemoryProofs ------------------------
(***************************************************************************)
(* Proofs about VirtualMemory, for all numbers of frames, entries, address *)
(* spaces and pages the assumption allows: types, and, as long as no table *)
(* was put into frame 0 or given back, that the direct map is complete,    *)
(* the kernel's half shared, no frame used twice or lost, and that the     *)
(* tables implement AddressSpaces.                                         *)
(*                                                                         *)
(* The invariant names for each frame what it is used for: a table of a    *)
(* level, a page, nothing, the kernel's object.  Entries go down by one    *)
(* level, and each frame in use is named by one of them (Tree): a walk     *)
(* comes to no table twice and two walks part for good, so that a write    *)
(* into the table one walk ends at is seen by no other.                    *)
(***************************************************************************)
EXTENDS VirtualMemory, FiniteSetTheorems, FunctionTheorems,
  WellFoundedInduction, TLAPS

\* A set of numbers that is not empty has a least one.
LEMMA Least ==
  ASSUME NEW T \in SUBSET Nat, T # {}
  PROVE  \E x \in T : \A y \in T : x <= y
<1> DEFINE Lt == {s \in Nat \X Nat : s[1] < s[2]}
<1>1. IsWellFoundedOn(Lt, Nat)
  BY NatLessThanWellFounded DEF OpToRel
<1>2. PICK x \in T : \A y \in T : << y, x >> \notin Lt
  BY <1>1, WFMin
<1>3. \A y \in T : ~(y < x)
  BY <1>2
<1> QED
  BY <1>3

\* Division by N, in the terms the direct map needs.
LEMMA Dividing ==
  ASSUME NEW a \in Nat
  PROVE  /\ a \div N \in Nat /\ a % N \in Index
         /\ (N * (a \div N)) + (a % N) = a
BY VirtualMemoryAssumption DEF Index

\* The indices of the direct map are digits: two divisions by N are one by N * N.
LEMMA DividingTwice ==
  ASSUME NEW a \in Nat
  PROVE  a \div (N * N) = (a \div N) \div N
<1>1. N \in Nat /\ N > 1
  BY VirtualMemoryAssumption
<1> DEFINE q == a \div N
           r == q \div N
<1>2. /\ q \in Nat /\ N * q <= a /\ a < N * q + N
      /\ r \in Nat /\ N * r <= q /\ q < N * r + N
  BY <1>1
<1> HIDE DEF q, r
<1>3. N * q + N <= N * (N * r + N)
  <2>1. q + 1 <= N * r + N
    BY <1>1, <1>2
  <2> QED
    BY <1>1, <1>2, <2>1
<1>4. N * (N * r) <= N * q
  BY <1>1, <1>2
<1>5. (N * N) * r <= a /\ a < (N * N) * r + (N * N) /\ N * N \in Nat /\ N * N > 0
  BY <1>1, <1>2, <1>3, <1>4
<1>6. \A x \in Nat, d \in Nat, k \in Nat : d > 0 /\ d * k <= x /\ x < d * k + d => x \div d = k
  OBVIOUS
<1>7. a \div (N * N) = r
  BY <1>2, <1>5, <1>6
<1> QED
  BY <1>7 DEF q, r

\* A larger number has no smaller quotient.
LEMMA DividingMonotone ==
  ASSUME NEW a \in Nat, NEW b \in Nat, a <= b, NEW d \in Nat, d > 0
  PROVE  a \div d <= b \div d
<1> DEFINE q == a \div d
           r == b \div d
<1>1. /\ q \in Nat /\ d * q <= a
      /\ r \in Nat /\ b < d * r + d
  OBVIOUS
<1> HIDE DEF q, r
<1>2. d * q < d * (r + 1)
  BY <1>1
<1>3. q < r + 1
  BY <1>1, <1>2
<1> QED
  BY <1>1, <1>3 DEF q, r

\* What the assumption on the constants says of the boot loader's tables.
LEMMA BootNumbers ==
  /\ N \in Nat /\ N > 1 /\ NumFrames \in Nat /\ NumFrames > 0
  /\ DirectPds \in Nat /\ DirectPds > 0 /\ DirectPts \in Nat /\ DirectPts > 0
  /\ BootTables = 2 + DirectPds + DirectPts /\ BootTables < NumFrames
  /\ DirectMap \in Index /\ 0 \in Index
  /\ NONE \notin Frame
<1>1. N \in Nat /\ N > 1 /\ NumFrames \in Nat /\ BootTables < NumFrames
  BY VirtualMemoryAssumption
<1>2. N * N \in Nat /\ N * N > 0
  BY <1>1
<1>3. ASSUME NEW d \in Nat, d > 0, NumFrames > 0
      PROVE  (NumFrames - 1) \div d \in Nat
  BY <1>1, <1>3
<1>4. NumFrames > 0
  <2>1. CASE NumFrames = 0
    <3>1. /\ (0 - 1) \div N = 0 - 1
      BY <1>1
    <3>2. (0 - 1) \div (N * N) = 0 - 1
      BY <1>2
    <3> QED
      BY <1>1, <2>1, <3>1, <3>2 DEF BootTables, DirectPds, DirectPts
  <2> QED
    BY <1>1, <2>1
<1>5. DirectPds \in Nat /\ DirectPds > 0 /\ DirectPts \in Nat /\ DirectPts > 0
  BY <1>1, <1>2, <1>3, <1>4 DEF DirectPds, DirectPts
<1>6. DirectMap \in Index /\ 0 \in Index
  BY <1>1 DEF DirectMap, Index
<1> QED
  BY <1>1, <1>4, <1>5, <1>6, VirtualMemoryAssumption DEF BootTables, Frame

\* The frame allocPage takes is free, if one is, and the lowest.
LEMMA LowestFrame ==
  ASSUME NEW F \in SUBSET Frame
  PROVE  /\ F = {} => FrameOf(F) = 0
         /\ F # {} => FrameOf(F) \in F /\ \A g \in F : FrameOf(F) <= g
         /\ FrameOf(F) \in Frame
<1>1. F \subseteq Nat
  BY BootNumbers DEF Frame
<1>2. /\ F = {} => FrameOf(F) = 0
      /\ F # {} => FrameOf(F) \in F /\ \A g \in F : FrameOf(F) <= g
  BY <1>1, Least DEF FrameOf
<1>3. 0 \in Frame
  BY BootNumbers DEF Frame
<1> QED
  BY <1>2, <1>3

\* Where the boot loader's tables have a frame.
LEMMA BootWalk ==
  ASSUME NEW f \in Frame
  PROVE  LET va == toVirtualHhdmAddress(f)
             pd == 3 + va[2]
             pt == 3 + DirectPds + (f \div N)
         IN  /\ va \in Va /\ va[1] = DirectMap
             /\ pd \in 3 .. BootTables /\ pt \in 3 .. BootTables
             /\ BootMem[1][DirectMap] = 2 /\ BootMem[2][va[2]] = pd
             /\ BootMem[pd][va[3]] = pt /\ BootMem[pt][va[4]] = f
<1> DEFINE q == f \div N
           r == f \div (N * N)
<1>1. /\ f \in Nat /\ f < NumFrames /\ N \in Nat /\ N > 1 /\ N * N \in Nat /\ N * N > 0
      /\ NumFrames <= N * (N * N)
  BY BootNumbers, VirtualMemoryAssumption DEF Frame
<1>2. /\ q \in Nat /\ f % N \in Index /\ (N * q) + (f % N) = f
      /\ r \in Nat /\ q % N \in Index /\ (N * r) + (q % N) = q
  BY <1>1, Dividing, DividingTwice
<1>3. r < DirectPds /\ q < DirectPts
  BY <1>1, <1>2, BootNumbers, DividingMonotone DEF DirectPds, DirectPts
<1>4. toVirtualHhdmAddress(f) = << DirectMap, r, q % N, f % N >>
  BY DEF toVirtualHhdmAddress
<1> HIDE DEF q, r
<1>5. r \in Index
  <2>1. (N * N) * r <= f
    <3>1. N * (N * r) <= N * q
      BY <1>1, <1>2 DEF Index
    <3> QED
      BY <1>1, <1>2, <3>1 DEF Index
  <2>2. \A d \in Nat, x \in Nat : d > 0 /\ d * x < N * d => x < N
    BY <1>1
  <2> DEFINE d == N * N
  <2>3. /\ NumFrames <= N * d /\ d * r <= f /\ d \in Nat /\ d > 0
        /\ r \in Nat /\ f \in Nat /\ f < NumFrames /\ NumFrames \in Nat /\ N \in Nat
    BY <1>1, <1>2, <2>1, BootNumbers
  <2> HIDE DEF d
  <2>4. d * r < N * d
    BY <2>3
  <2>5. r < N
    BY <2>2, <2>3, <2>4
  <2> QED
    BY <1>1, <1>2, <2>5 DEF Index
<1>6. << DirectMap, r, q % N, f % N >> \in Va
  BY <1>2, <1>5, BootNumbers DEF Va
<1>7. 3 + r \in 3 .. 2 + DirectPds /\ 3 + DirectPds + q \in 3 + DirectPds .. BootTables
  BY <1>2, <1>3, BootNumbers
<1>8. /\ 1 \in Frame /\ 2 \in Frame /\ 3 + r \in Frame /\ 3 + DirectPds + q \in Frame
  BY <1>2, <1>7, BootNumbers DEF Frame
<1>9. BootMem[1][DirectMap] = 2 /\ BootMem[2][r] = 3 + r
  BY <1>3, <1>5, <1>8, BootNumbers DEF BootMem, BootEntry
<1>10. BootMem[3 + r][q % N] = 3 + DirectPds + q
  <2>1. N * (3 + r - 3) + (q % N) = q
    BY <1>1, <1>2
  <2>2. BootEntry(3 + r, q % N) = 3 + DirectPds + q
    BY <1>2, <1>3, <1>7, <2>1, BootNumbers DEF BootEntry, Index
  <2> QED
    BY <1>2, <1>8, <2>2 DEF BootMem
<1>11. BootMem[3 + DirectPds + q][f % N] = f
  <2>1. N * (3 + DirectPds + q - 3 - DirectPds) + (f % N) = f
    BY <1>1, <1>2, BootNumbers
  <2>2. BootEntry(3 + DirectPds + q, f % N) = f
    BY <1>1, <1>2, <1>7, <2>1, BootNumbers DEF BootEntry, Index
  <2> QED
    BY <1>2, <1>8, <2>2 DEF BootMem
<1> QED
  BY <1>4, <1>6, <1>7, <1>9, <1>10, <1>11, BootNumbers DEF q

-----------------------------------------------------------------------------
\* Types

Table == [Index -> Frame \cup {NONE}]

\* An empty table, and the boot loader's, are tables.
LEMMA EmptyTable == Empty \in Table
BY DEF Empty, Table

LEMMA BootTyped == BootMem \in [Frame -> Table]
<1> SUFFICES ASSUME NEW f \in Frame, NEW i \in Index
             PROVE  BootEntry(f, i) \in Frame \cup {NONE}
  BY DEF BootMem, Table
<1>1. f \in Nat /\ i \in Nat /\ i < N
  BY BootNumbers DEF Frame, Index
<1>2. CASE f \in 3 .. BootTables
  <2>1. ASSUME NEW k \in Nat PROVE N * k + i \in Nat
    BY <1>1, BootNumbers
  <2>2. CASE f \in 3 .. 2 + DirectPds
    <3>1. N * (f - 3) + i \in Nat
      <4>1. f - 3 \in Nat
        BY <1>1, <2>2, BootNumbers
      <4> QED
        BY <2>1, <4>1
    <3>2. \A k \in Nat : k < DirectPts => 3 + DirectPds + k \in Frame
      BY BootNumbers DEF Frame
    <3>3. f # 1 /\ f # 2 /\ f \notin 3 + DirectPds .. BootTables
      BY <2>2, BootNumbers
    <3>4. BootEntry(f, i) = IF N * (f - 3) + i < DirectPts
                              THEN 3 + DirectPds + N * (f - 3) + i ELSE NONE
      BY <2>2, <3>3 DEF BootEntry
    <3> DEFINE k == N * (f - 3)
    <3>5. k \in Nat
      BY <2>2, BootNumbers
    <3> HIDE DEF k
    <3>6. 3 + DirectPds + k + i = 3 + DirectPds + (k + i)
      BY <1>1, <3>5, BootNumbers
    <3> QED
      BY <3>1, <3>2, <3>4, <3>6 DEF k
  <2>3. CASE f \in 3 + DirectPds .. BootTables
    <3>1. N * (f - 3 - DirectPds) + i \in Nat
      <4>1. f - 3 - DirectPds \in Nat
        BY <1>1, <2>3, BootNumbers
      <4> QED
        BY <2>1, <4>1
    <3>2. f # 1 /\ f # 2 /\ f \notin 3 .. 2 + DirectPds
      BY <2>3, BootNumbers
    <3>3. BootEntry(f, i) = IF N * (f - 3 - DirectPds) + i < NumFrames
                              THEN N * (f - 3 - DirectPds) + i ELSE NONE
      BY <2>3, <3>2 DEF BootEntry
    <3> QED
      BY <3>1, <3>3, BootNumbers DEF Frame
  <2> QED
    BY <1>1, <1>2, <2>2, <2>3, BootNumbers
<1>3. CASE f \notin 3 .. BootTables
  <2>1. f \notin 3 .. 2 + DirectPds /\ f \notin 3 + DirectPds .. BootTables
    BY <1>1, <1>3, BootNumbers
  <2>2. CASE f = 1
    BY <1>1, <2>1, <2>2, BootNumbers DEF BootEntry, Frame
  <2>3. CASE f = 2
    BY <1>1, <2>1, <2>3, BootNumbers DEF BootEntry, Frame
  <2>4. CASE f # 1 /\ f # 2
    BY <2>1, <2>4 DEF BootEntry
  <2> QED
    BY <2>2, <2>3, <2>4
<1> QED
  BY <1>2, <1>3

\* Entries are entries, wherever a walk ends.
LEMMA WalkTyped ==
  ASSUME NEW m \in [Frame -> Table], NEW root \in Frame \cup {NONE}, NEW va \in Va
  PROVE  /\ Pdpt(m, root, va) \in Frame \cup {NONE}
         /\ Pd(m, root, va) \in Frame \cup {NONE}
         /\ Pt(m, root, va) \in Frame \cup {NONE}
         /\ Mapped(m, root, va) \in Frame \cup {NONE}
         /\ Freed(m, root, va) \in Frame
<1>1. \A t \in Frame \cup {NONE}, i \in Index : Entry(m, t, i) \in Frame \cup {NONE}
  BY DEF Entry, Table
<1>2. va[1] \in Index /\ va[2] \in Index /\ va[3] \in Index /\ va[4] \in Index
  BY DEF Va
<1>3. /\ Pdpt(m, root, va) \in Frame \cup {NONE}
      /\ Pd(m, root, va) \in Frame \cup {NONE}
      /\ Pt(m, root, va) \in Frame \cup {NONE}
      /\ Mapped(m, root, va) \in Frame \cup {NONE}
  BY <1>1, <1>2 DEF Pdpt, Pd, Pt, Mapped
<1>4. 0 \in Frame
  BY BootNumbers DEF Frame
<1> QED
  BY <1>3, <1>4 DEF Freed, toPhysicalAddress

\* Memory after one entry has changed.
LEMMA WriteTyped ==
  ASSUME NEW m \in [Frame -> Table], NEW t, NEW i, NEW e \in Frame \cup {NONE}
  PROVE  [m EXCEPT ![t][i] = e] \in [Frame -> Table]
BY DEF Table

\* One level of mapPage, and mapPage, write tables into frames.
LEMMA NextTableTyped ==
  ASSUME NEW s, s.mem \in [Frame -> Table], s.free \in SUBSET Frame, NEW t, NEW i
  PROVE  /\ NextTable(s, t, i).mem \in [Frame -> Table]
         /\ NextTable(s, t, i).free \in SUBSET Frame
<1>1. FrameOf(s.free) \in Frame
  BY LowestFrame
<1>2. [s.mem EXCEPT ![FrameOf(s.free)] = Empty] \in [Frame -> Table]
  BY <1>1, EmptyTable
<1> DEFINE m == [s.mem EXCEPT ![FrameOf(s.free)] = Empty]
<1>3. [m EXCEPT ![t][i] = FrameOf(s.free)] \in [Frame -> Table]
  BY <1>1, <1>2, WriteTyped
<1>4. [s.mem EXCEPT ![FrameOf(s.free)] = Empty, ![t][i] = FrameOf(s.free)] \in [Frame -> Table]
  BY <1>3
<1> QED
  BY <1>4 DEF NextTable

LEMMA MapTyped ==
  ASSUME NEW m \in [Frame -> Table], NEW F \in SUBSET Frame, NEW root, NEW va, NEW f \in Frame
  PROVE  /\ mapPage([mem |-> m, free |-> F], root, va, f).mem \in [Frame -> Table]
         /\ mapPage([mem |-> m, free |-> F], root, va, f).free \in SUBSET Frame
<1> DEFINE s0 == [mem |-> m, free |-> F]
           s1 == NextTable(s0, root, va[1])
           pdpt == s1.mem[root][va[1]]
           s2 == NextTable(s1, pdpt, va[2])
           pd == s2.mem[pdpt][va[2]]
           s3 == NextTable(s2, pd, va[3])
           pt == s3.mem[pd][va[3]]
<1>1. s0.mem \in [Frame -> Table] /\ s0.free \in SUBSET Frame
  OBVIOUS
<1> HIDE DEF s0
<1>2. s1.mem \in [Frame -> Table] /\ s1.free \in SUBSET Frame
  BY <1>1, NextTableTyped
<1> HIDE DEF s1
<1>3. s2.mem \in [Frame -> Table] /\ s2.free \in SUBSET Frame
  BY <1>2, NextTableTyped
<1> HIDE DEF s2
<1>4. s3.mem \in [Frame -> Table] /\ s3.free \in SUBSET Frame
  BY <1>3, NextTableTyped
<1> HIDE DEF s3
<1> DEFINE m3 == [s3.mem EXCEPT ![pt][va[4]] = f]
           r == [mem |-> m3, free |-> s3.free]
<1>5. r.mem \in [Frame -> Table] /\ r.free \in SUBSET Frame
  <2>1. m3 \in [Frame -> Table]
    BY <1>4, WriteTyped
  <2> HIDE DEF m3
  <2> QED
    BY <1>4, <2>1
<1>6. r = mapPage(s0, root, va, f)
  BY DEF mapPage, s1, s2, s3, r, m3
<1> QED
  BY <1>5, <1>6 DEF s0

\* Each action keeps the types.
LEMMA InitTyped ==
  ASSUME NEW usable \in SUBSET Usable, InitWith(usable)
  PROVE  TypeOK
<1>1. usable \subseteq Frame
  BY BootNumbers DEF Usable, Frame
<1>2. 1 \in Frame
  BY BootNumbers DEF Frame
<1> QED
  BY <1>1, <1>2, BootTyped DEF InitWith, TypeOK, Table

\* A page of the direct map is an address.
LEMMA DirectTyped ==
  ASSUME NEW f \in Frame
  PROVE  toVirtualHhdmAddress(f) \in Va
BY BootWalk

LEMMA ConstructTyped ==
  ASSUME TypeOK, NEW v \in Vmm, NEW F \in SUBSET Frame, Construct(v, F)
  PROVE  TypeOK'
<1> DEFINE f == FrameOf(F)
           clear == [mem EXCEPT ![f] = Empty]
           root == [i \in Index |-> IF Copied(i) THEN clear[cr3][i] ELSE clear[f][i]]
<1>1. f \in Frame
  BY LowestFrame
<1>2. mem \in [Frame -> Table] /\ cr3 \in Frame
  BY DEF TypeOK, Table
<1>3. clear \in [Frame -> Table]
  BY <1>1, <1>2, EmptyTable
<1> HIDE DEF clear
<1>4. root \in Table
  BY <1>1, <1>2, <1>3 DEF Table
<1> HIDE DEF root
<1>5. [clear EXCEPT ![f] = root] \in [Frame -> Table]
  BY <1>3, <1>4
<1>6. /\ mem' = [clear EXCEPT ![f] = root]
      /\ free' = F \ {f} /\ pml4' = [pml4 EXCEPT ![v] = f] /\ cr3' = f
      /\ intact' = (f # 0) /\ UNCHANGED << unmapping, outer >>
  BY DEF Construct, clear, root
<1> HIDE DEF f
<1> QED
  BY <1>1, <1>5, <1>6 DEF TypeOK, Table

LEMMA AllocTyped ==
  ASSUME TypeOK, NEW v \in Vmm, NEW va \in Va, allocPage(v, va)
  PROVE  TypeOK'
<1> DEFINE f == FrameOf(free)
           s == mapPage([mem |-> mem, free |-> free \ {f}], pml4[v], va, f)
<1>1. /\ mem' = s.mem /\ free' = s.free /\ intact' \in BOOLEAN
      /\ UNCHANGED << pml4, cr3, unmapping, outer >>
  BY DEF allocPage
<1>2. f \in Frame /\ mem \in [Frame -> Table] /\ free \ {f} \in SUBSET Frame
  BY LowestFrame DEF TypeOK, Table
<1>3. s.mem \in [Frame -> Table] /\ s.free \in SUBSET Frame
  BY <1>2, MapTyped
<1> HIDE DEF s
<1> QED
  BY <1>1, <1>3 DEF TypeOK, Table

LEMMA FreeTyped ==
  ASSUME TypeOK, NEW v \in Vmm, NEW va \in Va, freePage(v, va)
  PROVE  TypeOK'
<1>1. Freed(mem, pml4[v], va) \in Frame
  BY WalkTyped DEF TypeOK, Table
<1> QED
  BY <1>1 DEF freePage, TypeOK

LEMMA UnmapTyped ==
  ASSUME TypeOK, unmapPage
  PROVE  TypeOK'
<1> DEFINE v == unmapping[1]
           va == unmapping[2]
           pt == Pt(mem, pml4[v], va)
           cleared == [mem EXCEPT ![pt][va[4]] = NONE]
           ptVa == toVirtualHhdmAddress(pt)
<1>1. unmapping = << v, va >> /\ v \in Vmm /\ va \in Va
  BY DEF unmapPage, TypeOK
<1>2. mem \in [Frame -> Table] /\ pml4[v] \in Frame \cup {NONE} /\ pt \in Frame \cup {NONE}
  BY <1>1, WalkTyped DEF TypeOK, Table
<1>3. cleared \in [Frame -> Table]
  BY <1>2, WriteTyped
<1>4. CASE pt = NONE
  <2>1. unmapping' = NONE /\ UNCHANGED << mem, free, pml4, cr3, outer, intact >>
    BY <1>4 DEF unmapPage
  <2> QED
    BY <2>1 DEF TypeOK
<1>5. CASE pt # NONE /\ ~IsEmpty(cleared[pt])
  <2>1. mem' = cleared /\ unmapping' = NONE /\ UNCHANGED << free, pml4, cr3, outer, intact >>
    BY <1>5 DEF unmapPage
  <2> HIDE DEF cleared
  <2> QED
    BY <1>3, <2>1 DEF TypeOK, Table
<1>6. CASE pt # NONE /\ IsEmpty(cleared[pt])
  <2>1. /\ mem' = cleared
        /\ free' = free \cup {Freed(cleared, pml4[v], ptVa)}
        /\ outer' = Append(outer, unmapping)
        /\ unmapping' = << v, ptVa >>
        /\ intact' = FALSE /\ UNCHANGED << pml4, cr3 >>
    BY <1>6 DEF unmapPage
  <2>2. ptVa \in Va
    BY <1>2, <1>6, DirectTyped
  <2> HIDE DEF cleared, ptVa
  <2>3. Freed(cleared, pml4[v], ptVa) \in Frame
    BY <1>2, <1>3, <2>2, WalkTyped
  <2>4. unmapping' \in Vmm \X Va /\ unmapping \in Vmm \X Va
    BY <1>1, <2>1, <2>2
  <2>5. outer' \in Seq(Vmm \X Va)
    BY <2>1, <2>4 DEF TypeOK
  <2> QED
    BY <1>3, <2>1, <2>3, <2>4, <2>5 DEF TypeOK, Table
<1> QED
  BY <1>4, <1>5, <1>6

LEMMA ForgetTyped ==
  ASSUME TypeOK, ForgetTable
  PROVE  TypeOK'
<1> DEFINE call == outer[Len(outer)]
           va == call[2]
           pd == Pd(mem, pml4[call[1]], va)
<1>1. mem' = [mem EXCEPT ![pd][va[3]] = NONE]
  BY DEF ForgetTable
<1>2. mem' \in [Frame -> Table]
  BY <1>1, WriteTyped DEF TypeOK, Table
<1>3. outer' \in Seq(Vmm \X Va)
  BY DEF ForgetTable, TypeOK
<1> QED
  BY <1>2, <1>3 DEF ForgetTable, TypeOK, Table

\* The steps clients take, between calls.
Call(v, va) ==
  /\ May(v, va)
  /\ IF Mapped(mem, pml4[v], va) = NONE THEN allocPage(v, va) ELSE freePage(v, va)

LEMMA TypedStep == TypeOK /\ [Next]_vars => TypeOK'
<1> SUFFICES ASSUME TypeOK, [Next]_vars PROVE TypeOK'
  OBVIOUS
<1>1. free \in SUBSET Frame /\ free \ {FrameOf(free)} \in SUBSET Frame
  BY DEF TypeOK
<1>2. CASE NewKernel
  BY <1>1, <1>2, ConstructTyped, VirtualMemoryAssumption DEF NewKernel
<1>3. ASSUME NEW v \in Vmm \ {Kernel}, New(v) PROVE TypeOK'
  BY <1>1, <1>3, ConstructTyped DEF New
<1>4. ASSUME NEW v \in Vmm, loadCr3(v) PROVE TypeOK'
  BY <1>4 DEF loadCr3, TypeOK
<1>5. ASSUME NEW v \in Vmm, NEW va \in Pages, Call(v, va) PROVE TypeOK'
  BY <1>5, AllocTyped, FreeTyped, VirtualMemoryAssumption DEF Call
<1>6. CASE unmapPage \/ ForgetTable
  BY <1>6, UnmapTyped, ForgetTyped
<1>7. CASE UNCHANGED vars
  BY <1>7 DEF TypeOK, vars
<1> QED
  BY <1>2, <1>3, <1>4, <1>5, <1>6, <1>7 DEF Next, Call

\* Types, whatever happens once the tables are no longer intact
\* (VirtualMemoryManager.cpp).
THEOREM TypeCorrect == Spec => []TypeOK
<1>1. Init => TypeOK
  BY InitTyped DEF Init
<1> QED
  BY <1>1, TypedStep, PTL DEF Spec

-----------------------------------------------------------------------------
\* Page tables as trees

\* use[f] is what frame f is used for: 4 .. 1 a table of that level, 0 a page,
\* -1 nothing, -2 the kernel's object, -3 what is not the allocator's.
Uses == -3 .. 4

\* Entry i of table t is an entry of its own: present, and neither the direct
\* map nor a copy of the kernel's half.
Own(m, p, use, t, i) ==
  /\ use[t] \in 1 .. 4 /\ m[t][i] # NONE
  /\ use[t] = 4 => i # DirectMap /\ (KernelHalf(i) => t = p[Kernel])

Tree(m, p, use) ==
  /\ \A t \in Frame, i \in Index : Own(m, p, use, t, i) => use[m[t][i]] = use[t] - 1
  /\ \A t, u \in Frame, i, j \in Index :
       Own(m, p, use, t, i) /\ Own(m, p, use, u, j) /\ m[t][i] = m[u][j] => t = u /\ i = j
  /\ \A f \in Frame : use[f] \in 0 .. 3 =>
       \E t \in Frame, i \in Index : Own(m, p, use, t, i) /\ m[t][i] = f

\* A free frame becomes what an entry that was not present names.
Hung(m, n, use, t, i, f) ==
  \A g \in Frame, j \in Index :
    n[g][j] = IF g = t /\ j = i THEN f
              ELSE IF g = f /\ use[t] > 1 THEN NONE ELSE m[g][j]

HungInTree(m, n, p, use, t, i, f) ==
  /\ m \in [Frame -> Table] /\ n \in [Frame -> Table] /\ use \in [Frame -> Uses]
  /\ Tree(m, p, use)
  /\ f \in Frame /\ use[f] = -1
  /\ t \in Frame /\ i \in Index /\ use[t] \in 1 .. 4 /\ m[t][i] = NONE
  /\ use[t] = 4 => i # DirectMap /\ (KernelHalf(i) => t = p[Kernel])
  /\ Hung(m, n, use, t, i, f)

LEMMA Hang ==
  ASSUME NEW m, NEW n, NEW p, NEW use, NEW t, NEW i, NEW f,
         HungInTree(m, n, p, use, t, i, f)
  PROVE  Tree(n, p, [use EXCEPT ![f] = use[t] - 1])
<1> USE DEF HungInTree, Hung
<1> DEFINE use2 == [use EXCEPT ![f] = use[t] - 1]
<1>1. /\ f # t /\ f # NONE /\ use2[f] = use[t] - 1 /\ use2[f] \in 0 .. 3
      /\ \A g \in Frame : g # f => use2[g] = use[g]
  BY BootNumbers DEF Uses
<1>2. \A g \in Frame, j \in Index : m[g][j] # NONE => m[g][j] \in Frame
  BY DEF Table
<1> HIDE DEF use2
<1>3. ASSUME NEW g \in Frame, NEW j \in Index
      PROVE  Own(n, p, use2, g, j) <=> Own(m, p, use, g, j) \/ (g = t /\ j = i)
  <2>1. CASE g = f
    BY <1>1, <2>1 DEF Own
  <2>2. CASE g # f
    BY <1>1, <2>2 DEF Own
  <2> QED
    BY <2>1, <2>2
<1>4. ~Own(m, p, use, t, i) /\ n[t][i] = f
  BY DEF Own
<1>5. ASSUME NEW g \in Frame, NEW j \in Index, Own(m, p, use, g, j)
      PROVE  /\ g # f /\ n[g][j] = m[g][j] /\ m[g][j] \in Frame
             /\ use[m[g][j]] = use[g] - 1 /\ m[g][j] # f
  <2>1. use[m[g][j]] = use[g] - 1 /\ use[g] \in 1 .. 4 /\ m[g][j] \in Frame
    BY <1>2, <1>5 DEF Tree, Own
  <2>2. m[g][j] # f /\ g # f
    BY <2>1
  <2> QED
    BY <1>4, <1>5, <2>1, <2>2
<1>6. \A g \in Frame, j \in Index : Own(n, p, use2, g, j) => use2[n[g][j]] = use2[g] - 1
  BY <1>1, <1>3, <1>4, <1>5
<1>7. \A g, u \in Frame, j, k \in Index :
        Own(n, p, use2, g, j) /\ Own(n, p, use2, u, k) /\ n[g][j] = n[u][k] => g = u /\ j = k
  BY <1>3, <1>4, <1>5 DEF Tree
<1>8. ASSUME NEW g \in Frame, use2[g] \in 0 .. 3
      PROVE  \E u \in Frame, j \in Index : Own(n, p, use2, u, j) /\ n[u][j] = g
  <2>1. CASE g = f
    BY <1>3, <1>4, <2>1
  <2>2. CASE g # f
    <3>1. PICK u \in Frame, j \in Index : Own(m, p, use, u, j) /\ m[u][j] = g
      BY <1>1, <1>8, <2>2 DEF Tree
    <3> QED
      BY <1>3, <1>5, <3>1
  <2> QED
    BY <2>1, <2>2
<1> QED
  BY <1>6, <1>7, <1>8 DEF Tree, use2

\* The entry of a page is cleared and its frame becomes free.
LEMMA Prune ==
  ASSUME NEW m \in [Frame -> Table], NEW p, NEW use \in [Frame -> Uses], Tree(m, p, use),
         NEW t \in Frame, NEW i \in Index, use[t] = 1, m[t][i] # NONE,
         NEW n \in [Frame -> Table],
         \A g \in Frame, j \in Index :
           n[g][j] = IF g = t /\ j = i THEN NONE ELSE m[g][j]
  PROVE  /\ m[t][i] \in Frame /\ use[m[t][i]] = 0
         /\ Tree(n, p, [use EXCEPT ![m[t][i]] = -1])
<1> DEFINE f == m[t][i]
           use2 == [use EXCEPT ![f] = -1]
<1>1. Own(m, p, use, t, i)
  BY DEF Own
<1>2. f \in Frame /\ use[f] = 0
  BY <1>1 DEF Tree, Table
<1> HIDE DEF f
<1>3. use2[f] = -1 /\ \A g \in Frame : g # f => use2[g] = use[g]
  BY <1>2 DEF Uses
<1> HIDE DEF use2
<1>4. ASSUME NEW g \in Frame, NEW j \in Index
      PROVE  /\ Own(n, p, use2, g, j) <=> Own(m, p, use, g, j) /\ ~(g = t /\ j = i)
             /\ Own(n, p, use2, g, j) => n[g][j] = m[g][j] /\ m[g][j] # f /\ m[g][j] \in Frame
  <2>1. CASE g = f
    BY <1>2, <1>3, <2>1 DEF Own
  <2>2. CASE g # f
    <3>1. Own(n, p, use2, g, j) <=> Own(m, p, use, g, j) /\ ~(g = t /\ j = i)
      BY <1>3, <2>2 DEF Own
    <3>2. Own(m, p, use, g, j) /\ ~(g = t /\ j = i) => n[g][j] = m[g][j] /\ m[g][j] # f
      BY <1>1 DEF Tree, f
    <3>3. Own(m, p, use, g, j) => m[g][j] \in Frame
      BY DEF Own, Table
    <3> QED
      BY <3>1, <3>2, <3>3
  <2> QED
    BY <2>1, <2>2
<1>5. \A g \in Frame, j \in Index : Own(n, p, use2, g, j) => use2[n[g][j]] = use2[g] - 1
  <2>1. ASSUME NEW g \in Frame, NEW j \in Index, Own(n, p, use2, g, j) PROVE g # f
    BY <1>3, <2>1 DEF Own
  <2> QED
    BY <1>3, <1>4, <2>1 DEF Tree
<1>6. \A g, u \in Frame, j, k \in Index :
        Own(n, p, use2, g, j) /\ Own(n, p, use2, u, k) /\ n[g][j] = n[u][k] => g = u /\ j = k
  BY <1>4 DEF Tree
<1>7. ASSUME NEW g \in Frame, use2[g] \in 0 .. 3
      PROVE  \E u \in Frame, j \in Index : Own(n, p, use2, u, j) /\ n[u][j] = g
  <2>1. g # f
    BY <1>3, <1>7
  <2>2. PICK u \in Frame, j \in Index : Own(m, p, use, u, j) /\ m[u][j] = g
    BY <1>3, <1>7, <2>1 DEF Tree
  <2> QED
    BY <1>4, <2>1, <2>2 DEF f
<1> QED
  BY <1>2, <1>5, <1>6, <1>7 DEF Tree, use2, f

-----------------------------------------------------------------------------
\* The inductive invariant

\* What the frames are used for agrees with the other variables.
Roles(p, F, usable, use) ==
  /\ \A f \in Frame :
       /\ use[f] = 4 <=> \E v \in Vmm : p[v] = f
       /\ use[f] = -1 <=> f \in F
       /\ use[f] = -2 <=> p[Kernel] # NONE /\ f = FrameOf(usable)
       /\ use[f] = -3 <=> f \notin usable
  /\ \A v, w \in Vmm : p[v] # NONE /\ p[v] = p[w] => v = w
  /\ p[Kernel] = NONE => F = usable

\* The kernel's half is the same everywhere.  Another space than the kernel's
\* was made when the heap's entry was there.
Halves(m, p) ==
  /\ \A v \in Vmm : p[v] # NONE => m[p[v]][DirectMap] = 2
  /\ \A v, w \in Vmm, i \in Index :
       p[v] # NONE /\ p[w] # NONE /\ KernelHalf(i) => m[p[v]][i] = m[p[w]][i]
  /\ \A v \in Vmm \ {Kernel}, va \in Pages :
       p[v] # NONE /\ KernelHalf(va[1]) => m[p[Kernel]][va[1]] # NONE

\* The boot loader's tables, and frame 0 below them, are as they were.
BootKept(m) == \A f \in 0 .. BootTables : m[f] = BootMem[f]

Sound(m, p, F, usable, use) ==
  /\ m \in [Frame -> Table] /\ p \in [Vmm -> Frame \cup {NONE}]
  /\ F \in SUBSET Frame /\ usable \in SUBSET Usable /\ use \in [Frame -> Uses]
  /\ Tree(m, p, use) /\ Roles(p, F, usable, use) /\ Halves(m, p) /\ BootKept(m)

\* freePage gives the frame back before unmapPage clears the entry: in between
\* it is still used.
Leaving == Mapped(mem, pml4[unmapping[1]], unmapping[2])
Kept == IF unmapping = NONE THEN free ELSE free \ {Leaving}
Pending ==
  /\ unmapping[2] \in Pages /\ May(unmapping[1], unmapping[2]) /\ Leaving \in free

TablesSound(usable) ==
  /\ outer = << >>
  /\ pml4[Kernel] = NONE => cr3 = 1
  /\ pml4[Kernel] # NONE => \E v \in Vmm : pml4[v] = cr3
  /\ \E use \in [Frame -> Uses] : Sound(mem, pml4, Kept, usable, use)
  /\ unmapping # NONE => Pending

IInv(usable) == TypeOK /\ (intact => TablesSound(usable))

-----------------------------------------------------------------------------
\* Walks

\* The walk of va starts at the table of o and at an entry of its own.
Walks(p, o, va) ==
  /\ o \in Vmm /\ p[o] # NONE /\ va \in Va
  /\ va[1] # DirectMap /\ (KernelHalf(va[1]) => o = Kernel)

\* The direct map holds wherever the entry for it and its tables do.
LEMMA DirectWalk ==
  ASSUME NEW m \in [Frame -> Table], BootKept(m), NEW root \in Frame,
         m[root][DirectMap] = 2, NEW f \in Frame
  PROVE  Mapped(m, root, toVirtualHhdmAddress(f)) = f
<1> DEFINE va == toVirtualHhdmAddress(f)
<1>1. PICK pd \in 3 .. BootTables, pt \in 3 .. BootTables :
        /\ va[1] = DirectMap /\ BootMem[2][va[2]] = pd
        /\ BootMem[pd][va[3]] = pt /\ BootMem[pt][va[4]] = f
  BY BootWalk
<1> HIDE DEF va
<1>2. m[2] = BootMem[2] /\ m[pd] = BootMem[pd] /\ m[pt] = BootMem[pt]
  BY BootNumbers DEF BootKept
<1>3. root # NONE /\ 2 # NONE /\ pd # NONE /\ pt # NONE
  BY VirtualMemoryAssumption, BootNumbers DEF Frame
<1> QED
  BY <1>1, <1>2, <1>3 DEF Mapped, Pt, Pd, Pdpt, Entry, va

\* A table that is used is a usable frame, above the boot loader's.
LEMMA TablesUsable ==
  ASSUME NEW m, NEW p, NEW F, NEW usable, NEW use, Sound(m, p, F, usable, use),
         NEW t \in Frame, use[t] # -3
  PROVE  t \in usable /\ t > BootTables /\ t # 0
<1>1. t \in usable /\ usable \subseteq Usable
  BY DEF Sound, Roles
<1> QED
  BY <1>1, BootNumbers DEF Usable

\* The kernel's is the first address space.
LEMMA KernelFirst ==
  ASSUME NEW m, NEW p, NEW F, NEW usable, NEW use, Sound(m, p, F, usable, use),
         NEW v \in Vmm, p[v] # NONE
  PROVE  p[v] \in Frame /\ use[p[v]] = 4 /\ p[Kernel] # NONE
<1>1. p[v] \in Frame /\ use[p[v]] = 4
  BY DEF Sound, Roles
<1>2. p[v] \in usable
  BY <1>1, TablesUsable
<1> QED
  BY <1>1, <1>2 DEF Sound, Roles

\* A walk goes down by one level at a time.
LEMMA WalkDown ==
  ASSUME NEW m, NEW p, NEW F, NEW usable, NEW use, Sound(m, p, F, usable, use),
         NEW o, NEW va, Walks(p, o, va)
  PROVE  LET pdpt == Pdpt(m, p[o], va)
             pd   == Pd(m, p[o], va)
             pt   == Pt(m, p[o], va)
             page == Mapped(m, p[o], va)
         IN  /\ p[o] \in Frame /\ use[p[o]] = 4 /\ pdpt = m[p[o]][va[1]]
             /\ pdpt # NONE => /\ pdpt \in Frame /\ use[pdpt] = 3 /\ pd = m[pdpt][va[2]]
                               /\ Own(m, p, use, p[o], va[1])
             /\ pd # NONE => /\ pdpt # NONE /\ pd \in Frame /\ use[pd] = 2
                             /\ pt = m[pd][va[3]] /\ Own(m, p, use, pdpt, va[2])
             /\ pt # NONE => /\ pd # NONE /\ pt \in Frame /\ use[pt] = 1
                             /\ page = m[pt][va[4]] /\ Own(m, p, use, pd, va[3])
             /\ page # NONE => /\ pt # NONE /\ page \in Frame /\ use[page] = 0
                               /\ Own(m, p, use, pt, va[4])
<1> DEFINE pdpt == Pdpt(m, p[o], va)
           pd == Pd(m, p[o], va)
           pt == Pt(m, p[o], va)
           page == Mapped(m, p[o], va)
<1>1. /\ m \in [Frame -> Table]
      /\ va[1] \in Index /\ va[2] \in Index /\ va[3] \in Index /\ va[4] \in Index
      /\ \A t \in Frame, i \in Index : Own(m, p, use, t, i) => use[m[t][i]] = use[t] - 1
  BY DEF Sound, Tree, Walks, Va
<1>2. \A t \in Frame, i \in Index : m[t][i] # NONE => m[t][i] \in Frame
  BY <1>1 DEF Table
<1>3. p[o] \in Frame /\ use[p[o]] = 4 /\ pdpt = m[p[o]][va[1]]
  BY KernelFirst DEF Walks, Pdpt, Entry
<1>4. pdpt # NONE => /\ pdpt \in Frame /\ use[pdpt] = 3 /\ pd = m[pdpt][va[2]]
                    /\ Own(m, p, use, p[o], va[1])
  <2>1. pdpt # NONE => Own(m, p, use, p[o], va[1])
    BY <1>3 DEF Own, Walks
  <2>2. pdpt # NONE => pd = m[pdpt][va[2]]
    BY DEF Pd, Entry
  <2> QED
    BY <1>1, <1>2, <1>3, <2>1, <2>2
<1>5. pd # NONE => /\ pdpt # NONE /\ pd \in Frame /\ use[pd] = 2
                  /\ pt = m[pd][va[3]] /\ Own(m, p, use, pdpt, va[2])
  <2>1. pd # NONE => pdpt # NONE /\ pt = m[pd][va[3]]
    BY DEF Pd, Pt, Entry
  <2>2. pd # NONE => Own(m, p, use, pdpt, va[2])
    BY <1>4, <2>1 DEF Own
  <2> QED
    BY <1>1, <1>2, <1>4, <2>1, <2>2
<1>6. pt # NONE => /\ pd # NONE /\ pt \in Frame /\ use[pt] = 1
                  /\ page = m[pt][va[4]] /\ Own(m, p, use, pd, va[3])
  <2>1. pt # NONE => pd # NONE /\ page = m[pt][va[4]]
    BY DEF Pt, Mapped, Entry
  <2>2. pt # NONE => Own(m, p, use, pd, va[3])
    BY <1>5, <2>1 DEF Own
  <2> QED
    BY <1>1, <1>2, <1>5, <2>1, <2>2
<1>7. page # NONE => /\ pt # NONE /\ page \in Frame /\ use[page] = 0
                    /\ Own(m, p, use, pt, va[4])
  <2>1. page # NONE => pt # NONE
    BY DEF Mapped, Entry
  <2>2. page # NONE => Own(m, p, use, pt, va[4])
    BY <1>6, <2>1 DEF Own
  <2> QED
    BY <1>1, <1>2, <1>6, <2>1, <2>2
<1> QED
  BY <1>3, <1>4, <1>5, <1>6, <1>7

\* The three entries before the last, and the object, are one table's only.
LEMMA Apart ==
  ASSUME NEW m, NEW p, NEW F, NEW usable, NEW use, Sound(m, p, F, usable, use),
         NEW o, NEW va, Walks(p, o, va), NEW q, NEW wa, Walks(p, q, wa),
         Pt(m, p[o], va) = Pt(m, p[q], wa), Pt(m, p[o], va) # NONE
  PROVE  o = q /\ va[1] = wa[1] /\ va[2] = wa[2] /\ va[3] = wa[3]
<1> DEFINE a3 == Pdpt(m, p[o], va)
           a2 == Pd(m, p[o], va)
           a1 == Pt(m, p[o], va)
           b3 == Pdpt(m, p[q], wa)
           b2 == Pd(m, p[q], wa)
           b1 == Pt(m, p[q], wa)
           Only(t, i, u, j) == m[t][i] = m[u][j] => t = u /\ i = j
<1>1. /\ va[1] \in Index /\ va[2] \in Index /\ va[3] \in Index
      /\ wa[1] \in Index /\ wa[2] \in Index /\ wa[3] \in Index
      /\ o \in Vmm /\ q \in Vmm /\ p[o] # NONE /\ a1 = b1
  BY DEF Walks, Va
<1>2. ASSUME NEW t \in Frame, NEW i \in Index, Own(m, p, use, t, i),
             NEW u \in Frame, NEW j \in Index, Own(m, p, use, u, j)
      PROVE  Only(t, i, u, j)
  BY <1>2 DEF Sound, Tree
<1>3. /\ a2 \in Frame /\ Own(m, p, use, a2, va[3]) /\ a1 = m[a2][va[3]]
      /\ a3 \in Frame /\ Own(m, p, use, a3, va[2]) /\ a2 = m[a3][va[2]]
      /\ p[o] \in Frame /\ Own(m, p, use, p[o], va[1]) /\ a3 = m[p[o]][va[1]]
  BY WalkDown
<1>4. /\ b2 \in Frame /\ Own(m, p, use, b2, wa[3]) /\ b1 = m[b2][wa[3]]
      /\ b3 \in Frame /\ Own(m, p, use, b3, wa[2]) /\ b2 = m[b3][wa[2]]
      /\ p[q] \in Frame /\ Own(m, p, use, p[q], wa[1]) /\ b3 = m[p[q]][wa[1]]
  BY WalkDown
<1> HIDE DEF a3, a2, a1, b3, b2, b1, Only
<1>5. /\ Only(a2, va[3], b2, wa[3]) /\ Only(a3, va[2], b3, wa[2])
      /\ Only(p[o], va[1], p[q], wa[1])
  BY <1>1, <1>2, <1>3, <1>4
<1>6. a2 = b2 /\ va[3] = wa[3]
  BY <1>1, <1>3, <1>4, <1>5 DEF Only
<1>7. a3 = b3 /\ va[2] = wa[2]
  BY <1>3, <1>4, <1>5, <1>6 DEF Only
<1>8. p[o] = p[q] /\ va[1] = wa[1]
  BY <1>3, <1>4, <1>5, <1>7 DEF Only
<1> QED
  BY <1>1, <1>6, <1>7, <1>8 DEF Sound, Roles

\* In every address space the walk of a kernel's page is the kernel's.
LEMMA Shared ==
  ASSUME NEW m, NEW p, NEW F, NEW usable, NEW use, Sound(m, p, F, usable, use),
         NEW v \in Vmm, p[v] # NONE, NEW va \in Va, KernelHalf(va[1])
  PROVE  /\ Pdpt(m, p[v], va) = Pdpt(m, p[Kernel], va)
         /\ Mapped(m, p[v], va) = Mapped(m, p[Kernel], va)
<1>1. p[Kernel] # NONE /\ Kernel \in Vmm /\ va[1] \in Index
  BY KernelFirst, VirtualMemoryAssumption DEF Va
<1>2. m[p[v]][va[1]] = m[p[Kernel]][va[1]]
  BY <1>1 DEF Sound, Halves
<1>3. Pdpt(m, p[v], va) = Pdpt(m, p[Kernel], va)
  BY <1>1, <1>2 DEF Pdpt, Entry
<1> QED
  BY <1>3 DEF Mapped, Pt, Pd

\* Table n is m with entry i of t, which was not present, naming the free
\* frame f, and f empty if it is to be a table.
\* A walk that comes to the entry goes on to f; of the pages only one that
\* is hung itself shows.
Hangs(m, n, p, F, usable, use, t, i, f) ==
  /\ Sound(m, p, F, usable, use) /\ n \in [Frame -> Table] /\ Hung(m, n, use, t, i, f)
  /\ t \in Frame /\ i \in Index /\ use[t] \in 1 .. 4 /\ m[t][i] = NONE
  /\ f \in Frame /\ use[f] = -1

LEMMA HungWalk ==
  ASSUME NEW m, NEW n, NEW p, NEW F, NEW usable, NEW use, NEW t, NEW i, NEW f,
         Hangs(m, n, p, F, usable, use, t, i, f), NEW o, NEW va, Walks(p, o, va)
  PROVE  /\ use[t] < 4 => Pdpt(n, p[o], va) = Pdpt(m, p[o], va)
         /\ use[t] < 3 => Pd(n, p[o], va) = Pd(m, p[o], va)
         /\ use[t] < 2 => Pt(n, p[o], va) = Pt(m, p[o], va)
         /\ use[t] > 1 => Mapped(n, p[o], va) = Mapped(m, p[o], va)
         /\ use[t] = 4 /\ p[o] = t /\ va[1] = i => Pdpt(n, p[o], va) = f
         /\ use[t] = 3 /\ Pdpt(m, p[o], va) = t /\ va[2] = i => Pd(n, p[o], va) = f
         /\ use[t] = 2 /\ Pd(m, p[o], va) = t /\ va[3] = i => Pt(n, p[o], va) = f
         /\ use[t] = 1 => Mapped(n, p[o], va) =
              IF Pt(m, p[o], va) = t /\ va[4] = i THEN f ELSE Mapped(m, p[o], va)
<1> DEFINE r == p[o]
           a3 == Pdpt(m, p[o], va)
           a2 == Pd(m, p[o], va)
           a1 == Pt(m, p[o], va)
           a0 == Mapped(m, p[o], va)
           b3 == Pdpt(n, p[o], va)
           b2 == Pd(n, p[o], va)
           b1 == Pt(n, p[o], va)
           b0 == Mapped(n, p[o], va)
<1>0. /\ Sound(m, p, F, usable, use) /\ n \in [Frame -> Table] /\ Hung(m, n, use, t, i, f)
      /\ t \in Frame /\ i \in Index /\ use[t] \in 1 .. 4 /\ m[t][i] = NONE
      /\ f \in Frame /\ use[f] = -1
  BY DEF Hangs
<1>1. /\ va[1] \in Index /\ va[2] \in Index /\ va[3] \in Index /\ va[4] \in Index
  BY DEF Walks, Va
<1>2. /\ r \in Frame /\ use[r] = 4
      /\ a3 # NONE => a3 \in Frame /\ use[a3] = 3
      /\ a2 # NONE => a2 \in Frame /\ use[a2] = 2
      /\ a1 # NONE => a1 \in Frame /\ use[a1] = 1
  BY <1>0, WalkDown
<1>3. f # NONE /\ t # NONE /\ r # NONE
  BY <1>0, BootNumbers DEF Walks
<1> DEFINE At(g, j, e) == IF g = t /\ j = i THEN f ELSE e
           Next1(tab, g, j) == IF g = NONE THEN NONE ELSE tab[g][j]
<1>4. /\ a3 = m[r][va[1]] /\ b3 = n[r][va[1]]
      /\ a2 = Next1(m, a3, va[2]) /\ b2 = Next1(n, b3, va[2])
      /\ a1 = Next1(m, a2, va[3]) /\ b1 = Next1(n, b2, va[3])
      /\ a0 = Next1(m, a1, va[4]) /\ b0 = Next1(n, b1, va[4])
  <2>1. a3 = m[r][va[1]] /\ b3 = n[r][va[1]]
    BY <1>0, <1>3 DEF Pdpt, Entry
  <2>2. /\ a2 = Next1(m, a3, va[2]) /\ b2 = Next1(n, b3, va[2])
        /\ a1 = Next1(m, a2, va[3]) /\ b1 = Next1(n, b2, va[3])
        /\ a0 = Next1(m, a1, va[4]) /\ b0 = Next1(n, b1, va[4])
    BY DEF Mapped, Pt, Pd, Entry
  <2> QED
    BY <1>0, <2>1, <2>2
<1>5. ASSUME NEW g \in Frame, NEW j \in Index
      PROVE  use[g] # -1 => n[g][j] = At(g, j, m[g][j])
  BY <1>0, <1>5 DEF Hung
<1>6. use[t] > 1 => \A j \in Index : Next1(n, f, j) = NONE
  BY <1>0, <1>3 DEF Hung
<1> HIDE DEF r, a3, a2, a1, a0, b3, b2, b1, b0, At, Next1
<1>7. b3 = At(r, va[1], a3)
  BY <1>0, <1>1, <1>2, <1>4, <1>5
<1>8. ASSUME NEW a, a # NONE => a \in Frame /\ use[a] # -1, NEW j \in Index
      PROVE  a # NONE => Next1(n, a, j) = At(a, j, Next1(m, a, j))
  BY <1>0, <1>5, <1>8 DEF Next1
<1>9. a3 # NONE => Next1(n, a3, va[2]) = At(a3, va[2], a2)
  <2>1. a3 # NONE => a3 \in Frame /\ use[a3] # -1
    BY <1>0, <1>2
  <2> QED
    BY <1>0, <1>1, <1>4, <1>8, <2>1
<1>10. a2 # NONE => Next1(n, a2, va[3]) = At(a2, va[3], a1)
  <2>1. a2 # NONE => a2 \in Frame /\ use[a2] # -1
    BY <1>0, <1>2
  <2> QED
    BY <1>0, <1>1, <1>4, <1>8, <2>1
<1>11. a1 # NONE => Next1(n, a1, va[4]) = At(a1, va[4], a0)
  <2>1. a1 # NONE => a1 \in Frame /\ use[a1] # -1
    BY <1>0, <1>2
  <2> QED
    BY <1>0, <1>1, <1>4, <1>8, <2>1
\* Below the entry, and off it, the walks are the same.
<1>12. ASSUME b1 = a1, use[t] > 1 PROVE b0 = a0
  <2>1. a1 # NONE => a1 # t
    BY <1>0, <1>2, <1>12
  <2> QED
    BY <1>0, <1>4, <1>11, <1>12, <2>1 DEF At, Next1
<1>13. ASSUME b2 = a2, use[t] > 2 PROVE b0 = a0
  <2>1. a2 # NONE => a2 # t
    BY <1>0, <1>2, <1>13
  <2>2. b1 = a1
    BY <1>0, <1>4, <1>10, <1>13, <2>1 DEF At, Next1
  <2> QED
    BY <1>0, <1>12, <1>13, <2>2
<1>14. ASSUME b3 = a3, use[t] > 3 PROVE b0 = a0
  <2>1. a3 # NONE => a3 # t
    BY <1>0, <1>2, <1>14
  <2>2. b2 = a2
    BY <1>0, <1>4, <1>9, <1>14, <2>1 DEF At, Next1
  <2> QED
    BY <1>0, <1>13, <1>14, <2>2
<1>15. CASE use[t] = 4
  <2>1. CASE r = t /\ va[1] = i
    <3>1. b3 = f /\ a3 = NONE
      BY <1>0, <1>4, <1>7, <2>1 DEF At
    <3>2. b2 = NONE /\ a2 = NONE
      <4>1. Next1(n, f, va[2]) = NONE
        BY <1>0, <1>1, <1>6, <1>15
      <4> QED
        BY <1>0, <1>4, <3>1, <4>1 DEF Next1
    <3>3. b0 = a0
      BY <1>0, <1>13, <1>15, <3>2
    <3> QED
      BY <1>0, <1>15, <3>1, <3>3 DEF r, a3, a2, a1, a0, b3, b2, b1, b0
  <2>2. CASE ~(r = t /\ va[1] = i)
    <3>1. b3 = a3
      BY <1>0, <1>7, <2>2 DEF At
    <3> QED
      BY <1>0, <1>14, <1>15, <2>2, <3>1 DEF r, a3, a2, a1, a0, b3, b2, b1, b0
  <2> QED
    BY <1>0, <2>1, <2>2
<1>16. ASSUME use[t] < 4 PROVE b3 = a3
  BY <1>0, <1>2, <1>7, <1>16 DEF At
<1>17. CASE use[t] = 3
  <2>1. b3 = a3
    BY <1>0, <1>16, <1>17
  <2>2. CASE a3 = t /\ va[2] = i
    <3>1. b2 = f /\ a2 = NONE
      BY <1>0, <1>3, <1>4, <1>9, <2>1, <2>2 DEF At, Next1
    <3>2. b1 = NONE /\ a1 = NONE
      <4>1. Next1(n, f, va[3]) = NONE
        BY <1>0, <1>1, <1>6, <1>17
      <4> QED
        BY <1>0, <1>4, <3>1, <4>1 DEF Next1
    <3>3. b0 = a0
      BY <1>0, <1>12, <1>17, <3>2
    <3> QED
      BY <1>0, <1>17, <2>1, <3>1, <3>3 DEF r, a3, a2, a1, a0, b3, b2, b1, b0
  <2>3. CASE ~(a3 = t /\ va[2] = i)
    <3>1. b2 = a2
      BY <1>0, <1>4, <1>9, <2>1, <2>3 DEF At, Next1
    <3> QED
      BY <1>0, <1>13, <1>17, <2>1, <2>3, <3>1 DEF r, a3, a2, a1, a0, b3, b2, b1, b0
  <2> QED
    BY <1>0, <2>2, <2>3
<1>18. ASSUME use[t] < 3 PROVE b3 = a3 /\ b2 = a2
  <2>1. b3 = a3
    BY <1>0, <1>16, <1>18
  <2>2. a3 # NONE => a3 # t
    BY <1>0, <1>2, <1>18
  <2> QED
    BY <1>0, <1>4, <1>9, <2>1, <2>2 DEF At, Next1
<1>19. CASE use[t] = 2
  <2>1. b3 = a3 /\ b2 = a2
    BY <1>0, <1>18, <1>19
  <2>2. CASE a2 = t /\ va[3] = i
    <3>1. b1 = f /\ a1 = NONE
      BY <1>0, <1>3, <1>4, <1>10, <2>1, <2>2 DEF At, Next1
    <3>2. b0 = NONE /\ a0 = NONE
      <4>1. Next1(n, f, va[4]) = NONE
        BY <1>0, <1>1, <1>6, <1>19
      <4> QED
        BY <1>0, <1>4, <3>1, <4>1 DEF Next1
    <3> QED
      BY <1>0, <1>19, <2>1, <3>1, <3>2 DEF r, a3, a2, a1, a0, b3, b2, b1, b0
  <2>3. CASE ~(a2 = t /\ va[3] = i)
    <3>1. b1 = a1
      BY <1>0, <1>4, <1>10, <2>1, <2>3 DEF At, Next1
    <3> QED
      BY <1>0, <1>12, <1>19, <2>1, <2>3, <3>1 DEF r, a3, a2, a1, a0, b3, b2, b1, b0
  <2> QED
    BY <1>0, <2>2, <2>3
<1>20. CASE use[t] = 1
  <2>1. b3 = a3 /\ b2 = a2
    BY <1>0, <1>18, <1>20
  <2>2. a2 # NONE => a2 # t
    BY <1>0, <1>2, <1>20
  <2>3. b1 = a1
    BY <1>0, <1>4, <1>10, <2>1, <2>2 DEF At, Next1
  <2>4. b0 = At(a1, va[4], a0)
    BY <1>0, <1>3, <1>4, <1>11, <2>3 DEF At, Next1
  <2> QED
    BY <1>0, <1>20, <2>1, <2>3, <2>4 DEF At, r, a3, a2, a1, a0, b3, b2, b1, b0
<1> QED
  BY <1>0, <1>15, <1>17, <1>19, <1>20

\* Hanging a free frame keeps the tables sound, if the entry is one that no
\* other address space would have to copy.
LEMMA HungSound ==
  ASSUME NEW m, NEW p, NEW F, NEW usable, NEW use, Sound(m, p, F, usable, use),
         p[Kernel] # NONE,
         NEW t \in Frame, NEW i \in Index, use[t] \in 1 .. 4, m[t][i] = NONE,
         use[t] = 4 => /\ i # DirectMap
                       /\ KernelHalf(i) => t = p[Kernel] /\ \A w \in Vmm \ {Kernel} : p[w] = NONE,
         NEW f \in F, NEW n \in [Frame -> Table], Hung(m, n, use, t, i, f)
  PROVE  Sound(n, p, F \ {f}, usable, [use EXCEPT ![f] = use[t] - 1])
<1> DEFINE use2 == [use EXCEPT ![f] = use[t] - 1]
<1>1. f \in Frame /\ use[f] = -1
  BY DEF Sound, Roles
<1>2. use2 \in [Frame -> Uses] /\ use2[f] = use[t] - 1 /\ \A g \in Frame : g # f => use2[g] = use[g]
  BY <1>1 DEF Sound, Uses
<1>3. Tree(n, p, use2)
  <2>1. m \in [Frame -> Table] /\ use \in [Frame -> Uses] /\ Tree(m, p, use)
    BY DEF Sound
  <2>2. use[t] = 4 => i # DirectMap /\ (KernelHalf(i) => t = p[Kernel])
    OBVIOUS
  <2>3. HungInTree(m, n, p, use, t, i, f)
    BY <1>1, <2>1, <2>2 DEF HungInTree
  <2> QED
    BY <2>3, Hang
<1> HIDE DEF use2
<1>4. Roles(p, F \ {f}, usable, use2)
  <2>1. ASSUME NEW g \in Frame
        PROVE  /\ use2[g] = 4 <=> \E v \in Vmm : p[v] = g
               /\ use2[g] = -1 <=> g \in F \ {f}
               /\ use2[g] = -2 <=> p[Kernel] # NONE /\ g = FrameOf(usable)
               /\ use2[g] = -3 <=> g \notin usable
    <3>1. CASE g # f
      BY <1>2, <3>1 DEF Sound, Roles
    <3>2. CASE g = f
      <4>1. use2[g] \in 0 .. 3
        BY <1>2, <3>2
      <4>2. /\ ~(\E v \in Vmm : p[v] = g) /\ g \in usable
            /\ ~(p[Kernel] # NONE /\ g = FrameOf(usable))
        BY <1>1, <3>2 DEF Sound, Roles
      <4> QED
        BY <3>2, <4>1, <4>2
    <3> QED
      BY <3>1, <3>2
  <2>2. \A v, w \in Vmm : p[v] # NONE /\ p[v] = p[w] => v = w
    BY DEF Sound, Roles
  <2> QED
    BY <2>1, <2>2 DEF Roles
<1>5. Halves(n, p)
  <2>1. ASSUME NEW v \in Vmm, p[v] # NONE, NEW j \in Index
        PROVE  n[p[v]][j] = IF p[v] = t /\ j = i THEN f ELSE m[p[v]][j]
    <3>1. p[v] \in Frame /\ use[p[v]] = 4
      BY <2>1, KernelFirst
    <3> QED
      BY <1>1, <3>1 DEF Hung
  <2>2. ASSUME NEW v \in Vmm, p[v] # NONE PROVE p[v] = t => use[t] = 4
    BY <2>2, KernelFirst
  <2>3. Kernel \in Vmm /\ DirectMap \in Index /\ f # NONE /\ \A va \in Pages : va[1] \in Index
    BY <1>1, VirtualMemoryAssumption, BootNumbers DEF Va
  <2>4. \A v \in Vmm : p[v] # NONE => n[p[v]][DirectMap] = 2
    BY <2>1, <2>2, <2>3 DEF Sound, Halves
  <2>5. ASSUME NEW v \in Vmm, NEW w \in Vmm, NEW j \in Index,
               p[v] # NONE, p[w] # NONE, KernelHalf(j)
        PROVE  n[p[v]][j] = n[p[w]][j]
    <3>1. m[p[v]][j] = m[p[w]][j]
      BY <2>5 DEF Sound, Halves
    <3>2. p[v] = t /\ j = i => v = w
      BY <2>2, <2>5
    <3>3. p[w] = t /\ j = i => v = w
      BY <2>2, <2>5
    <3> QED
      BY <2>1, <2>5, <3>1, <3>2, <3>3
  <2>6. \A v \in Vmm \ {Kernel}, va \in Pages :
          p[v] # NONE /\ KernelHalf(va[1]) => n[p[Kernel]][va[1]] # NONE
    BY <2>1, <2>3 DEF Sound, Halves
  <2> QED
    BY <2>4, <2>5, <2>6 DEF Halves
<1>6. BootKept(n)
  <2> SUFFICES ASSUME NEW g \in 0 .. BootTables PROVE n[g] = BootMem[g]
    BY DEF BootKept
  <2>1. g \in Frame /\ g # t /\ g # f
    BY <1>1, TablesUsable, BootNumbers DEF Frame
  <2>2. n[g] \in Table /\ m[g] \in Table /\ \A j \in Index : n[g][j] = m[g][j]
    BY <2>1 DEF Hung, Sound
  <2>3. n[g] = m[g]
    BY <2>2 DEF Table
  <2> QED
    BY <2>3 DEF Sound, BootKept
<1>7. F \ {f} \in SUBSET Frame
  BY DEF Sound
<1> QED
  BY <1>2, <1>3, <1>4, <1>5, <1>6, <1>7 DEF Sound, use2

\* What NextTable does: nothing, or it hangs the lowest free frame, or, without
\* one, names frame 0 as the table.
Grown(s, r, t, i, f) ==
  /\ r.mem \in [Frame -> Table] /\ r.free = s.free \ {f}
  /\ \A g \in Frame, j \in Index :
       r.mem[g][j] = IF g = t /\ j = i THEN f ELSE IF g = f THEN NONE ELSE s.mem[g][j]

\* NextTable, as a walk sees it: the entry there was, or one that names the
\* lowest free frame.
LEMMA NextTableIs ==
  ASSUME NEW s, s.mem \in [Frame -> Table], s.free \in SUBSET Frame,
         NEW t \in Frame, NEW i \in Index
  PROVE  /\ s.mem[t][i] # NONE => NextTable(s, t, i) = s
         /\ s.mem[t][i] = NONE => Grown(s, NextTable(s, t, i), t, i, FrameOf(s.free))
<1> DEFINE r == NextTable(s, t, i)
           f == FrameOf(s.free)
           clear == [s.mem EXCEPT ![f] = Empty]
<1>1. f \in Frame
  BY LowestFrame
<1>2. s.mem[t][i] # NONE => r = s
  BY DEF NextTable
<1>3. ASSUME s.mem[t][i] = NONE
      PROVE  r.free = s.free \ {f} /\ r.mem = [clear EXCEPT ![t][i] = f]
  BY <1>3 DEF NextTable
<1>4. /\ clear \in [Frame -> Table]
      /\ \A g \in Frame, j \in Index : clear[g][j] = IF g = f THEN NONE ELSE s.mem[g][j]
  BY <1>1, EmptyTable DEF Empty
<1> HIDE DEF clear, f
<1>5. ASSUME s.mem[t][i] = NONE
      PROVE  /\ r.mem \in [Frame -> Table]
             /\ \A g \in Frame, j \in Index :
                  r.mem[g][j] = IF g = t /\ j = i THEN f ELSE clear[g][j]
  <2> DEFINE n == [clear EXCEPT ![t][i] = f]
  <2>1. n \in [Frame -> Table]
    BY <1>1, <1>4, WriteTyped
  <2>2. \A g \in Frame, j \in Index : n[g][j] = IF g = t /\ j = i THEN f ELSE clear[g][j]
    BY <1>1, <1>4 DEF Table
  <2>3. r.mem = n
    BY <1>3, <1>5
  <2> HIDE DEF n, r
  <2> QED
    BY <2>1, <2>2, <2>3
<1> HIDE DEF r
<1>6. ASSUME s.mem[t][i] = NONE PROVE Grown(s, r, t, i, f)
  BY <1>3, <1>4, <1>5, <1>6 DEF Grown
<1> QED
  BY <1>2, <1>6 DEF f, r

\* Without a frame, frame 0 is taken for a table, and the walk goes through it.
Lost(s, root, va) ==
  /\ s.mem \in [Frame -> Table] /\ s.free = {}
  /\ \A j \in Index : s.mem[0][j] \in {0, NONE}
  /\ 0 \in Touched(s.mem, root, va)

\* Nothing that is done to frame 0 then makes up for it.
LEMMA LostKept ==
  ASSUME NEW m \in [Frame -> Table], NEW n \in [Frame -> Table],
         NEW root \in Frame \ {0}, NEW va \in Va, 0 \in Touched(m, root, va),
         \A g \in Frame \ {0} : n[g] = m[g]
  PROVE  0 \in Touched(n, root, va)
<1> DEFINE a3 == Pdpt(m, root, va)
           a2 == Pd(m, root, va)
           a1 == Pt(m, root, va)
           b3 == Pdpt(n, root, va)
           b2 == Pd(n, root, va)
           b1 == Pt(n, root, va)
<1>1. root # NONE /\ 0 # NONE
  BY BootNumbers DEF Frame
<1>2. a3 \in Frame \cup {NONE} /\ a2 \in Frame \cup {NONE}
  BY WalkTyped
<1>3. b3 = a3
  BY <1>1 DEF Pdpt, Entry
<1>4. a3 # 0 => b2 = a2
  BY <1>2, <1>3 DEF Pd, Entry
<1>5. a3 # 0 /\ a2 # 0 => b1 = a1
  BY <1>2, <1>4 DEF Pt, Entry
<1>6. a3 = 0 \/ a2 = 0 \/ a1 = 0
  BY <1>1 DEF Touched
<1> QED
  BY <1>1, <1>3, <1>4, <1>5, <1>6 DEF Touched

LEMMA LostNext ==
  ASSUME NEW s, NEW root \in Frame \ {0}, NEW va \in Va, Lost(s, root, va), NEW i \in Index
  PROVE  Lost(NextTable(s, 0, i), root, va) /\ NextTable(s, 0, i).mem[0][i] = 0
<1> DEFINE r == NextTable(s, 0, i)
<1>1. 0 \in Frame /\ NONE # 0 /\ s.mem \in [Frame -> Table] /\ s.free = {}
  BY BootNumbers DEF Lost, Frame
<1>2. CASE s.mem[0][i] # NONE
  BY <1>1, <1>2, NextTableIs DEF Lost
<1>3. CASE s.mem[0][i] = NONE
  <2>1. FrameOf(s.free) = 0
    BY <1>1, LowestFrame
  <2>2. Grown(s, r, 0, i, FrameOf(s.free))
    BY <1>1, <1>3, NextTableIs
  <2> HIDE DEF r
  <2>3. Grown(s, r, 0, i, 0) /\ r.free = {}
    BY <1>1, <2>1, <2>2 DEF Grown
  <2>4. ASSUME NEW g \in Frame \ {0} PROVE r.mem[g] = s.mem[g]
    <3>1. r.mem[g] \in Table /\ s.mem[g] \in Table /\ \A j \in Index : r.mem[g][j] = s.mem[g][j]
      BY <1>1, <2>3 DEF Grown
    <3> QED
      BY <3>1 DEF Table
  <2>5. r.mem \in [Frame -> Table]
    BY <2>3 DEF Grown
  <2>6. 0 \in Touched(r.mem, root, va)
    BY <1>1, <2>4, <2>5, LostKept DEF Lost
  <2>7. \A j \in Index : r.mem[0][j] = IF j = i THEN 0 ELSE NONE
    BY <1>1, <2>3 DEF Grown
  <2> QED
    BY <2>3, <2>5, <2>6, <2>7 DEF Lost, r
<1> QED
  BY <1>2, <1>3

\* A level of mapPage, from table t of level k on, while frame page is put
\* aside.  Without a frame frame 0 is the table there ...
RanOut(s, r, t, i) ==
  /\ r.free = {} /\ r.mem[t][i] = 0 /\ \A j \in Index : r.mem[0][j] = NONE
  /\ \A g \in Frame \ {0}, j \in Index : ~(g = t /\ j = i) => r.mem[g][j] = s.mem[g][j]

\* ... otherwise one of the level below, and the pages are mapped as before.
Reached(s, r, p, usable, page, k, t, i) ==
  /\ r.mem[t][i] \in Frame
  /\ \E u \in [Frame -> Uses] :
       Sound(r.mem, p, r.free \cup {page}, usable, u) /\ u[r.mem[t][i]] = k - 1
  /\ \A o \in Vmm, va \in Va : Walks(p, o, va) =>
       /\ Mapped(r.mem, p[o], va) = Mapped(s.mem, p[o], va)
       /\ k < 4 => Pdpt(r.mem, p[o], va) = Pdpt(s.mem, p[o], va)
       /\ k < 3 => Pd(r.mem, p[o], va) = Pd(s.mem, p[o], va)

\* What mapPage has got when it comes to that level.
Ready(s, p, usable, use, page, k, t, i) ==
  /\ s.mem \in [Frame -> Table] /\ s.free \in SUBSET Frame /\ page \in Frame \ s.free
  /\ Sound(s.mem, p, s.free \cup {page}, usable, use) /\ p[Kernel] # NONE
  /\ t \in Frame /\ i \in Index /\ k \in 2 .. 4 /\ use[t] = k
  /\ k = 4 => /\ i # DirectMap
              /\ KernelHalf(i) =>
                   /\ t = p[Kernel]
                   /\ s.mem[t][i] = NONE => \A w \in Vmm \ {Kernel} : p[w] = NONE

\* One level of mapPage: either the tables are sound, one level further down,
\* or there was no frame and frame 0 was taken for a table.
LEMMA NextSound ==
  ASSUME NEW s, NEW p, NEW usable, NEW use, NEW page, NEW k, NEW t, NEW i,
         Ready(s, p, usable, use, page, k, t, i), NEW r, r = NextTable(s, t, i)
  PROVE  /\ r.mem \in [Frame -> Table] /\ r.free \in SUBSET s.free
         /\ RanOut(s, r, t, i) \/ Reached(s, r, p, usable, page, k, t, i)
<1> DEFINE f == FrameOf(s.free)
           F == s.free \cup {page}
<1>0. /\ s.mem \in [Frame -> Table] /\ s.free \in SUBSET Frame /\ page \in Frame \ s.free
      /\ Sound(s.mem, p, F, usable, use) /\ p[Kernel] # NONE
      /\ t \in Frame /\ i \in Index /\ k \in 2 .. 4 /\ use[t] = k
      /\ k = 4 => /\ i # DirectMap
                  /\ KernelHalf(i) =>
                       /\ t = p[Kernel]
                       /\ s.mem[t][i] = NONE => \A w \in Vmm \ {Kernel} : p[w] = NONE
  BY DEF Ready
<1>1. t # 0 /\ 0 \in Frame
  BY <1>0, TablesUsable, BootNumbers DEF Frame
<1>2. CASE s.mem[t][i] # NONE
  <2>1. r = s
    BY <1>0, <1>2, NextTableIs
  <2>2. Own(s.mem, p, use, t, i)
    BY <1>0, <1>2 DEF Own
  <2>3. s.mem[t][i] \in Frame /\ use[s.mem[t][i]] = use[t] - 1
    BY <1>0, <1>2, <2>2 DEF Sound, Tree, Table
  <2>4. use \in [Frame -> Uses]
    BY <1>0 DEF Sound
  <2> QED
    BY <1>0, <2>1, <2>3, <2>4 DEF Reached
<1>3. CASE s.mem[t][i] = NONE /\ s.free = {}
  <2>1. f = 0
    BY <1>0, <1>3, LowestFrame
  <2>2. Grown(s, r, t, i, f)
    BY <1>0, <1>3, NextTableIs
  <2> HIDE DEF f
  <2>3. r.mem \in [Frame -> Table] /\ r.free = {}
    BY <1>0, <1>3, <2>2 DEF Grown
  <2>4. r.mem[t][i] = 0 /\ \A j \in Index : r.mem[0][j] = NONE
    BY <1>0, <1>1, <2>1, <2>2 DEF Grown
  <2>5. \A g \in Frame \ {0}, j \in Index : ~(g = t /\ j = i) => r.mem[g][j] = s.mem[g][j]
    BY <1>0, <2>1, <2>2 DEF Grown
  <2> QED
    BY <1>0, <2>3, <2>4, <2>5 DEF RanOut
<1>4. CASE s.mem[t][i] = NONE /\ s.free # {}
  <2>1. f \in s.free /\ f # page /\ f \in Frame
    BY <1>0, <1>4, LowestFrame
  <2>2. Grown(s, r, t, i, f)
    BY <1>0, <1>4, NextTableIs
  <2> HIDE DEF f
  <2>3. /\ Hung(s.mem, r.mem, use, t, i, f)
        /\ r.mem \in [Frame -> Table] /\ r.free = s.free \ {f} /\ r.mem[t][i] = f
    BY <1>0, <2>2 DEF Hung, Grown
  <2>4. use[f] = -1
    BY <1>0, <2>1 DEF Sound, Roles
  <2> DEFINE u == [use EXCEPT ![f] = use[t] - 1]
  <2>5. Sound(r.mem, p, F \ {f}, usable, u)
    <3>1. use[t] \in 1 .. 4 /\ f \in F
      BY <1>0, <2>1
    <3>2. use[t] = 4 => /\ i # DirectMap
                        /\ KernelHalf(i) => t = p[Kernel] /\ \A w \in Vmm \ {Kernel} : p[w] = NONE
      BY <1>0, <1>4
    <3> HIDE DEF F
    <3> QED
      BY <1>0, <1>4, <2>3, <3>1, <3>2, HungSound DEF F
  <2>6. F \ {f} = r.free \cup {page}
    BY <1>0, <2>1, <2>3
  <2>7. u \in [Frame -> Uses] /\ u[f] = use[t] - 1 /\ r.mem[t][i] = f
    BY <1>0, <2>1, <2>3, <2>5 DEF Sound
  <2>8. ASSUME NEW o \in Vmm, NEW va \in Va, Walks(p, o, va)
        PROVE  /\ Mapped(r.mem, p[o], va) = Mapped(s.mem, p[o], va)
               /\ k < 4 => Pdpt(r.mem, p[o], va) = Pdpt(s.mem, p[o], va)
               /\ k < 3 => Pd(r.mem, p[o], va) = Pd(s.mem, p[o], va)
    <3>1. Hangs(s.mem, r.mem, p, F, usable, use, t, i, f)
      BY <1>0, <1>4, <2>1, <2>3, <2>4 DEF Hangs
    <3> QED
      BY <1>0, <2>8, <3>1, HungWalk
  <2> HIDE DEF u
  <2> QED
    BY <1>0, <2>1, <2>3, <2>5, <2>6, <2>7, <2>8 DEF Reached
<1> QED
  BY <1>0, <1>2, <1>3, <1>4

\* The walk of va has come to the last table, pt, and frame f is free.
Room(m, p, F, usable, use, v, va, pt, f) ==
  /\ Sound(m, p, F, usable, use) /\ v \in Vmm /\ Walks(p, v, va) /\ p[Kernel] # NONE
  /\ pt \in Frame /\ pt = Pt(m, p[v], va) /\ use[pt] = 1
  /\ Mapped(m, p[v], va) = NONE /\ f \in F

\* A page hung there: it is mapped, and no other.
PageIn(m, n, p, F, usable, v, va, f) ==
  /\ \E u \in [Frame -> Uses] : Sound(n, p, F \ {f}, usable, u)
  /\ \A o \in Vmm, wa \in Va : Walks(p, o, wa) =>
       Mapped(n, p[o], wa) = IF o = v /\ wa = va THEN f ELSE Mapped(m, p[o], wa)

\* mapPage's last write.
LEMMA PageHung ==
  ASSUME NEW m, NEW p, NEW F, NEW usable, NEW use, NEW v, NEW va, NEW pt, NEW f,
         Room(m, p, F, usable, use, v, va, pt, f), NEW n, n = [m EXCEPT ![pt][va[4]] = f]
  PROVE  PageIn(m, n, p, F, usable, v, va, f)
<1>0. /\ Sound(m, p, F, usable, use) /\ v \in Vmm /\ Walks(p, v, va) /\ p[Kernel] # NONE
      /\ pt \in Frame /\ pt = Pt(m, p[v], va) /\ use[pt] = 1
      /\ Mapped(m, p[v], va) = NONE /\ f \in F
  BY DEF Room
<1>1. f \in Frame /\ use[f] = -1 /\ f # pt /\ m \in [Frame -> Table] /\ va[4] \in Index
  BY <1>0 DEF Sound, Roles, Walks, Va
<1>2. n \in [Frame -> Table] /\ Hung(m, n, use, pt, va[4], f)
  <2>1. n \in [Frame -> Table]
    BY <1>0, <1>1, WriteTyped
  <2>2. \A g \in Frame, j \in Index : n[g][j] = IF g = pt /\ j = va[4] THEN f ELSE m[g][j]
    BY <1>0, <1>1 DEF Table
  <2> QED
    BY <1>0, <1>1, <2>1, <2>2 DEF Hung
<1>3. m[pt][va[4]] = NONE /\ pt # NONE
  BY <1>0, BootNumbers DEF Mapped, Entry
<1>4. \E u \in [Frame -> Uses] : Sound(n, p, F \ {f}, usable, u)
  <2>1. use[pt] \in 1 .. 4 /\ use[pt] # 4
    BY <1>0
  <2>2. Sound(n, p, F \ {f}, usable, [use EXCEPT ![f] = use[pt] - 1])
    BY <1>0, <1>1, <1>2, <1>3, <2>1, HungSound
  <2> QED
    BY <2>2 DEF Sound
<1>5. ASSUME NEW o \in Vmm, NEW wa \in Va, Walks(p, o, wa)
      PROVE  Mapped(n, p[o], wa) = IF o = v /\ wa = va THEN f ELSE Mapped(m, p[o], wa)
  <2>1. Mapped(n, p[o], wa) = IF Pt(m, p[o], wa) = pt /\ wa[4] = va[4]
                                THEN f ELSE Mapped(m, p[o], wa)
    <3>1. Hangs(m, n, p, F, usable, use, pt, va[4], f)
      BY <1>0, <1>1, <1>2, <1>3 DEF Hangs
    <3> QED
      BY <1>0, <1>5, <3>1, HungWalk
  <2>2. Pt(m, p[o], wa) = pt /\ wa[4] = va[4] => o = v /\ wa = va
    <3>1. SUFFICES ASSUME Pt(m, p[o], wa) = pt, wa[4] = va[4] PROVE o = v /\ wa = va
      OBVIOUS
    <3>2. o = v /\ wa[1] = va[1] /\ wa[2] = va[2] /\ wa[3] = va[3]
      BY <1>0, <1>3, <1>5, <3>1, Apart
    <3>3. va \in Va
      BY <1>0 DEF Walks
    <3> QED
      BY <3>1, <3>2, <3>3 DEF Va
  <2>3. o = v /\ wa = va => Pt(m, p[o], wa) = pt /\ wa[4] = va[4]
    BY <1>0
  <2> QED
    BY <2>1, <2>2, <2>3
<1> QED
  BY <1>4, <1>5 DEF PageIn

\* mapPage maps the one page and no other, or takes frame 0 for a table.
LEMMA MapSound ==
  ASSUME NEW m, NEW p, NEW F, NEW usable, NEW use, Sound(m, p, F, usable, use),
         NEW v \in Vmm, p[v] # NONE, NEW va \in Pages, KernelHalf(va[1]) => v = Kernel,
         Mapped(m, p[v], va) = NONE, NEW f \in F
  PROVE  LET r == mapPage([mem |-> m, free |-> F \ {f}], p[v], va, f)
         IN  \/ 0 \in Touched(r.mem, p[v], va)
             \/ /\ \E u \in [Frame -> Uses] : Sound(r.mem, p, r.free, usable, u)
                /\ \A o \in Vmm, wa \in Va : Walks(p, o, wa) =>
                     Mapped(r.mem, p[o], wa) = IF o = v /\ wa = va THEN f ELSE Mapped(m, p[o], wa)
<1> DEFINE root == p[v]
           s0 == [mem |-> m, free |-> F \ {f}]
           s1 == NextTable(s0, root, va[1])
           pdpt == s1.mem[root][va[1]]
           s2 == NextTable(s1, pdpt, va[2])
           pd == s2.mem[pdpt][va[2]]
           s3 == NextTable(s2, pd, va[3])
           pt == s3.mem[pd][va[3]]
           n == [s3.mem EXCEPT ![pt][va[4]] = f]
           Same(s) == \A o \in Vmm, wa \in Va : Walks(p, o, wa) =>
                        Mapped(s.mem, p[o], wa) = Mapped(m, p[o], wa)
<1>1. /\ f \in Frame /\ F \in SUBSET Frame /\ f \in Frame \ (F \ {f})
      /\ va \in Va /\ Walks(p, v, va) /\ p[Kernel] # NONE
      /\ va[1] \in Index /\ va[2] \in Index /\ va[3] \in Index /\ va[4] \in Index
      /\ root \in Frame /\ root # NONE /\ use[root] = 4 /\ root # 0
  <2>1. root \in Frame /\ use[root] = 4 /\ p[Kernel] # NONE
    BY KernelFirst
  <2>2. root # 0
    BY <2>1, TablesUsable
  <2>3. va \in Va /\ va[1] # DirectMap
    BY VirtualMemoryAssumption
  <2> QED
    BY <2>1, <2>2, <2>3 DEF Sound, Walks, Va
<1>2. /\ s0.mem \in [Frame -> Table] /\ s0.free \in SUBSET Frame /\ f \notin s0.free
      /\ Sound(s0.mem, p, s0.free \cup {f}, usable, use)
  <2>1. (F \ {f}) \cup {f} = F
    OBVIOUS
  <2> QED
    BY <1>1, <2>1 DEF Sound
<1>3. KernelHalf(va[1]) => root = p[Kernel] /\ (s0.mem[root][va[1]] = NONE => \A w \in Vmm \ {Kernel} : p[w] = NONE)
  BY DEF Sound, Halves
<1>4. /\ s0.mem = m /\ Mapped(s0.mem, root, va) = NONE /\ Same(s0)
  OBVIOUS
<1> HIDE DEF s0, root
<1>5. /\ s1.mem \in [Frame -> Table] /\ s1.free \in SUBSET s0.free
      /\ \/ Lost(s1, root, va) /\ pdpt = 0
         \/ /\ Same(s1) /\ pdpt \in Frame /\ pdpt = Pdpt(s1.mem, root, va)
            /\ \E u \in [Frame -> Uses] : Sound(s1.mem, p, s1.free \cup {f}, usable, u) /\ u[pdpt] = 3
  <2>1. va[1] # DirectMap /\ f \in Frame \ s0.free
    BY <1>1, <1>2 DEF Walks
  <2>2. /\ s1.mem \in [Frame -> Table] /\ s1.free \in SUBSET s0.free
        /\ RanOut(s0, s1, root, va[1]) \/ Reached(s0, s1, p, usable, f, 4, root, va[1])
    <3>1. Ready(s0, p, usable, use, f, 4, root, va[1])
      BY <1>1, <1>2, <1>3, <2>1 DEF Ready
    <3> QED
      BY <3>1, NextSound
  <2>3. pdpt = Pdpt(s1.mem, root, va)
    BY <1>1 DEF Pdpt, Entry
  <2>4. pdpt = 0 => 0 \in Touched(s1.mem, root, va)
    BY <2>3, BootNumbers DEF Touched, Frame
  <2> HIDE DEF s1
  <2>5. RanOut(s0, s1, root, va[1]) => Lost(s1, root, va) /\ pdpt = 0
    BY <2>2, <2>4 DEF Lost, RanOut
  <2>6. Reached(s0, s1, p, usable, f, 4, root, va[1]) =>
          /\ Same(s1) /\ pdpt \in Frame
          /\ \E u \in [Frame -> Uses] : Sound(s1.mem, p, s1.free \cup {f}, usable, u) /\ u[pdpt] = 3
    BY <1>4 DEF Reached
  <2> QED
    BY <2>2, <2>3, <2>5, <2>6
<1> HIDE DEF s1, pdpt
<1>6. /\ s2.mem \in [Frame -> Table] /\ s2.free \in SUBSET s0.free
      /\ \/ Lost(s2, root, va) /\ pd = 0
         \/ /\ Same(s2) /\ pd \in Frame /\ pd = Pd(s2.mem, root, va)
            /\ \E u \in [Frame -> Uses] : Sound(s2.mem, p, s2.free \cup {f}, usable, u) /\ u[pd] = 2
  <2>1. CASE Lost(s1, root, va) /\ pdpt = 0
    <3>1. Lost(s2, root, va) /\ pd = 0
      BY <1>1, <2>1, LostNext
    <3> QED
      BY <3>1 DEF Lost
  <2>2. CASE Same(s1) /\ pdpt \in Frame /\ pdpt = Pdpt(s1.mem, root, va)
             /\ \E u \in [Frame -> Uses] : Sound(s1.mem, p, s1.free \cup {f}, usable, u) /\ u[pdpt] = 3
    <3>1. PICK u \in [Frame -> Uses] : Sound(s1.mem, p, s1.free \cup {f}, usable, u) /\ u[pdpt] = 3
      BY <2>2
    <3>2. /\ s2.mem \in [Frame -> Table] /\ s2.free \in SUBSET s1.free
          /\ RanOut(s1, s2, pdpt, va[2]) \/ Reached(s1, s2, p, usable, f, 3, pdpt, va[2])
      <4>1. f \in Frame \ s1.free /\ s1.free \in SUBSET Frame /\ s1.mem \in [Frame -> Table]
        BY <1>1, <1>2, <1>5
      <4>2. Ready(s1, p, usable, u, f, 3, pdpt, va[2])
        BY <1>1, <2>2, <3>1, <4>1 DEF Ready
      <4> QED
        BY <4>2, NextSound
    <3>3. pdpt = Pdpt(s2.mem, root, va) => pd = Pd(s2.mem, root, va)
      BY <2>2, BootNumbers DEF Pd, Entry
    <3>4. root # pdpt /\ root \in Frame \ {0}
      <4>1. u[root] = 4
        BY <1>1, <3>1, KernelFirst DEF root
      <4> QED
        BY <1>1, <3>1, <4>1
    <3>5. pdpt = s1.mem[root][va[1]] /\ Pdpt(s2.mem, root, va) = s2.mem[root][va[1]]
      BY <1>1, <2>2 DEF Pdpt, Entry
    <3>6. pd = 0 /\ pdpt = Pdpt(s2.mem, root, va) => 0 \in Touched(s2.mem, root, va)
      BY <3>3, BootNumbers DEF Touched, Frame
    <3> HIDE DEF s2
    <3>7. CASE RanOut(s1, s2, pdpt, va[2])
      <4>1. pdpt = Pdpt(s2.mem, root, va)
        BY <1>1, <3>4, <3>5, <3>7 DEF RanOut
      <4> QED
        BY <3>2, <3>6, <3>7, <4>1 DEF Lost, RanOut
    <3>8. CASE Reached(s1, s2, p, usable, f, 3, pdpt, va[2])
      <4>1. pd = Pd(s2.mem, root, va)
        BY <1>1, <2>2, <3>3, <3>8 DEF root, Reached
      <4>2. Same(s2)
        BY <2>2, <3>8 DEF Reached
      <4>3. s2.free \in SUBSET s0.free
        BY <1>5, <3>2
      <4> QED
        BY <3>2, <3>8, <4>1, <4>2, <4>3 DEF Reached
    <3> QED
      BY <3>2, <3>7, <3>8
  <2> QED
    BY <1>5, <2>1, <2>2
<1> HIDE DEF s2, pd
<1>7. /\ s3.mem \in [Frame -> Table] /\ s3.free \in SUBSET s0.free
      /\ \/ Lost(s3, root, va) /\ pt = 0
         \/ /\ Same(s3) /\ pt \in Frame /\ pt = Pt(s3.mem, root, va)
            /\ \E u \in [Frame -> Uses] : Sound(s3.mem, p, s3.free \cup {f}, usable, u) /\ u[pt] = 1
  <2>1. CASE Lost(s2, root, va) /\ pd = 0
    <3>1. Lost(s3, root, va) /\ pt = 0
      BY <1>1, <2>1, LostNext
    <3> QED
      BY <3>1 DEF Lost
  <2>2. CASE Same(s2) /\ pd \in Frame /\ pd = Pd(s2.mem, root, va)
             /\ \E u \in [Frame -> Uses] : Sound(s2.mem, p, s2.free \cup {f}, usable, u) /\ u[pd] = 2
    <3>1. PICK u \in [Frame -> Uses] : Sound(s2.mem, p, s2.free \cup {f}, usable, u) /\ u[pd] = 2
      BY <2>2
    <3>2. /\ s3.mem \in [Frame -> Table] /\ s3.free \in SUBSET s2.free
          /\ RanOut(s2, s3, pd, va[3]) \/ Reached(s2, s3, p, usable, f, 2, pd, va[3])
      <4>1. f \in Frame \ s2.free /\ s2.free \in SUBSET Frame /\ s2.mem \in [Frame -> Table]
        BY <1>1, <1>2, <1>6
      <4>2. Ready(s2, p, usable, u, f, 2, pd, va[3])
        BY <1>1, <2>2, <3>1, <4>1 DEF Ready
      <4> QED
        BY <4>2, NextSound
    <3>3. pd = Pd(s3.mem, root, va) => pt = Pt(s3.mem, root, va)
      BY <2>2, BootNumbers DEF Pt, Entry
    <3> HIDE DEF s3
    <3>4. CASE RanOut(s2, s3, pd, va[3])
      <4> DEFINE a3 == Pdpt(s2.mem, root, va)
      <4>1. /\ a3 \in Frame /\ u[a3] = 3 /\ a3 = s2.mem[root][va[1]] /\ pd = s2.mem[a3][va[2]]
            /\ u[root] = 4
        BY <1>1, <2>2, <3>1, WalkDown, BootNumbers DEF root
      <4>2. a3 # 0 /\ a3 # pd /\ root # pd
        <5>1. Sound(s2.mem, p, s2.free \cup {f}, usable, u) /\ u[a3] # -3 /\ u[pd] = 2
          BY <3>1, <4>1
        <5> HIDE DEF a3
        <5>2. a3 # 0
          BY <4>1, <5>1, TablesUsable
        <5> QED
          BY <4>1, <5>1, <5>2
      <4>3. Pdpt(s3.mem, root, va) = a3
        <5>1. root \in Frame \ {0} /\ va[1] \in Index /\ root # NONE
          BY <1>1, <2>2, <3>1, <4>1, BootNumbers, TablesUsable
        <5>2. s3.mem[root][va[1]] = s2.mem[root][va[1]]
          BY <3>4, <4>2, <5>1 DEF RanOut
        <5> HIDE DEF a3, root
        <5> QED
          BY <4>1, <5>1, <5>2 DEF Pdpt, Entry
      <4>4. Pd(s3.mem, root, va) = pd
        <5>1. s3.mem[a3][va[2]] = s2.mem[a3][va[2]]
          BY <1>1, <3>4, <4>1, <4>2 DEF RanOut
        <5>2. a3 # NONE
          BY <4>1, BootNumbers
        <5> HIDE DEF a3
        <5> QED
          BY <4>1, <4>3, <5>1, <5>2 DEF Pd, Entry
      <4>5. 0 \in Touched(s3.mem, root, va)
        BY <3>3, <3>4, <4>4, BootNumbers DEF Touched, Frame, RanOut
      <4> QED
        BY <3>2, <3>4, <4>5 DEF Lost, RanOut
    <3>5. CASE Reached(s2, s3, p, usable, f, 2, pd, va[3])
      <4>1. pt = Pt(s3.mem, root, va)
        BY <1>1, <2>2, <3>3, <3>5 DEF root, Reached
      <4>2. Same(s3)
        BY <2>2, <3>5 DEF Reached
      <4>3. s3.free \in SUBSET s0.free
        BY <1>6, <3>2
      <4> QED
        BY <3>2, <3>5, <4>1, <4>2, <4>3 DEF Reached
    <3> QED
      BY <3>2, <3>4, <3>5
  <2> QED
    BY <1>6, <2>1, <2>2
<1> HIDE DEF s3, pt
<1>8. CASE Lost(s3, root, va) /\ pt = 0
  <2>1. n \in [Frame -> Table] /\ s3.mem \in [Frame -> Table]
    BY <1>1, <1>7, WriteTyped
  <2>2. \A g \in Frame \ {0} : n[g] = s3.mem[g]
    BY <1>8, <2>1
  <2> HIDE DEF n
  <2>3. 0 \in Touched(n, root, va)
    BY <1>1, <1>8, <2>1, <2>2, LostKept DEF Lost
  <2> QED
    BY <2>3 DEF mapPage, n, pt, s3, pd, s2, pdpt, s1, s0, root
<1>9. CASE /\ Same(s3) /\ pt \in Frame /\ pt = Pt(s3.mem, root, va)
           /\ \E u \in [Frame -> Uses] : Sound(s3.mem, p, s3.free \cup {f}, usable, u) /\ u[pt] = 1
  <2>1. PICK u \in [Frame -> Uses] : Sound(s3.mem, p, s3.free \cup {f}, usable, u) /\ u[pt] = 1
    BY <1>9
  <2>2. Mapped(s3.mem, root, va) = NONE
    BY <1>1, <1>4, <1>9 DEF root
  <2>3. (s3.free \cup {f}) \ {f} = s3.free
    BY <1>1, <1>2, <1>7
  <2>4. PageIn(s3.mem, n, p, s3.free \cup {f}, usable, v, va, f)
    <3>1. Room(s3.mem, p, s3.free \cup {f}, usable, u, v, va, pt, f)
      BY <1>1, <1>9, <2>1, <2>2 DEF root, Room
    <3> QED
      BY <3>1, PageHung
  <2>5. \A o \in Vmm, wa \in Va : Walks(p, o, wa) =>
             Mapped(n, p[o], wa) = IF o = v /\ wa = va THEN f ELSE Mapped(m, p[o], wa)
    BY <1>9, <2>4 DEF PageIn
  <2> HIDE DEF Same
  <2>6. mapPage(s0, root, va, f) = [mem |-> n, free |-> s3.free]
    BY DEF mapPage, n, pt, s3, pd, s2, pdpt, s1
  <2> HIDE DEF n
  <2>7. mapPage(s0, root, va, f).mem = n /\ mapPage(s0, root, va, f).free = s3.free
    BY <2>6
  <2> QED
    BY <2>3, <2>4, <2>5, <2>7 DEF s0, root, PageIn
<1> QED
  BY <1>7, <1>8, <1>9

-----------------------------------------------------------------------------
\* The steps keep the tables sound

\* The tables the boot loader left, before there is an address space.
LEMMA BootSound ==
  ASSUME NEW usable \in SUBSET Usable, InitWith(usable)
  PROVE  TablesSound(usable)
<1> DEFINE use == [f \in Frame |-> IF f \in usable THEN -1 ELSE -3]
<1>1. use \in [Frame -> Uses] /\ \A f \in Frame : use[f] = IF f \in usable THEN -1 ELSE -3
  BY DEF Uses
<1> HIDE DEF use
<1>2. /\ mem = BootMem /\ free = usable /\ cr3 = 1 /\ unmapping = NONE /\ outer = << >>
      /\ pml4 \in [Vmm -> Frame \cup {NONE}] /\ \A v \in Vmm : pml4[v] = NONE
      /\ usable \in SUBSET Frame
  BY BootNumbers DEF InitWith, Usable, Frame
<1>3. Tree(mem, pml4, use)
  BY <1>1 DEF Tree, Own
<1>4. Roles(pml4, free, usable, use)
  BY <1>1, <1>2, BootNumbers, VirtualMemoryAssumption DEF Roles
<1>5. Halves(mem, pml4) /\ BootKept(mem)
  BY <1>2, VirtualMemoryAssumption DEF Halves, BootKept
<1>6. Sound(mem, pml4, free, usable, use)
  BY <1>1, <1>2, <1>3, <1>4, <1>5, BootTyped DEF Sound
<1> QED
  BY <1>1, <1>2, <1>6, VirtualMemoryAssumption DEF TablesSound, Kept

\* Table n is m with frame f a top level table with the kernel's half of c.
Copy(m, n, c, f) ==
  /\ n \in [Frame -> Table] /\ \A g \in Frame : g # f => n[g] = m[g]
  /\ \A i \in Index : n[f][i] = IF KernelHalf(i) THEN m[c][i] ELSE NONE

\* What the constructor writes is a copy.
LEMMA ConstructCopies ==
  ASSUME TypeOK, NEW v \in Vmm, NEW F \in SUBSET Frame, Construct(v, F), cr3 # FrameOf(F)
  PROVE  Copy(mem, mem', cr3, FrameOf(F))
<1> DEFINE f == FrameOf(F)
           clear == [mem EXCEPT ![f] = Empty]
           root == [i \in Index |-> IF Copied(i) THEN clear[cr3][i] ELSE clear[f][i]]
<1>1. f \in Frame /\ mem \in [Frame -> Table] /\ cr3 \in Frame
  BY LowestFrame DEF TypeOK, Table
<1>2. /\ clear \in [Frame -> Table] /\ clear[f] = Empty
      /\ \A g \in Frame : g # f => clear[g] = mem[g]
  BY <1>1, EmptyTable
<1>3. \A i \in Index : root[i] = IF KernelHalf(i) THEN mem[cr3][i] ELSE NONE
  BY <1>1, <1>2 DEF Copied, Empty
<1>4. mem' = [clear EXCEPT ![f] = root] /\ mem' \in [Frame -> Table]
  BY ConstructTyped DEF Construct, TypeOK, Table
<1> HIDE DEF clear, root, f
<1>5. mem'[f] = root /\ \A g \in Frame : g # f => mem'[g] = mem[g]
  BY <1>1, <1>2, <1>4
<1> QED
  BY <1>3, <1>4, <1>5 DEF Copy, f

\* The first address space, the kernel's, has nothing but the direct map.
LEMMA KernelPlanted ==
  ASSUME NEW m, NEW p, NEW usable, NEW use, Sound(m, p, usable, usable, use),
         p[Kernel] = NONE, NEW n, NEW f \in usable, f # FrameOf(usable), Copy(m, n, 1, f)
  PROVE  \E u \in [Frame -> Uses] :
           Sound(n, [p EXCEPT ![Kernel] = f], (usable \ {FrameOf(usable)}) \ {f}, usable, u)
<1> DEFINE p2 == [p EXCEPT ![Kernel] = f]
           o == FrameOf(usable)
           F == (usable \ {o}) \ {f}
           u == [g \in Frame |-> IF g = f THEN 4 ELSE IF g = o THEN -2 ELSE use[g]]
<1>1. /\ m \in [Frame -> Table] /\ p \in [Vmm -> Frame \cup {NONE}] /\ use \in [Frame -> Uses]
      /\ usable \in SUBSET Usable /\ usable \in SUBSET Frame /\ f \in Frame /\ f # NONE
      /\ Kernel \in Vmm
  BY BootNumbers, VirtualMemoryAssumption DEF Sound
<1>2. o \in usable /\ o \in Frame
  BY <1>1, LowestFrame
<1>3. \A v \in Vmm : p[v] = NONE
  BY KernelFirst
<1>4. \A g \in Frame : use[g] = IF g \in usable THEN -1 ELSE -3
  BY DEF Sound, Roles
<1>5. u \in [Frame -> Uses]
  BY <1>1 DEF Uses
<1>6. \A g \in Frame : u[g] = IF g = f THEN 4 ELSE IF g = o THEN -2
                              ELSE IF g \in usable THEN -1 ELSE -3
  BY <1>4
<1>7. p2 \in [Vmm -> Frame \cup {NONE}] /\ p2[Kernel] = f /\ \A v \in Vmm : v # Kernel => p2[v] = NONE
  BY <1>1, <1>3
<1> HIDE DEF u, p2, o
<1>8. /\ n \in [Frame -> Table] /\ n[f][DirectMap] = 2
      /\ \A i \in Index : i # DirectMap => n[f][i] = NONE
  <2>1. 1 \in 0 .. BootTables /\ 1 \in Frame
    BY BootNumbers DEF Frame
  <2>2. \A i \in Index : m[1][i] = IF i = DirectMap THEN 2 ELSE NONE
    <3>1. m[1] = BootMem[1]
      BY <2>1 DEF Sound, BootKept
    <3>2. \A i \in Index : BootEntry(1, i) = IF i = DirectMap THEN 2 ELSE NONE
      BY BootNumbers DEF BootEntry
    <3> QED
      BY <2>1, <3>1, <3>2 DEF BootMem
  <2>3. DirectMap \in Index /\ KernelHalf(DirectMap)
    BY BootNumbers DEF KernelHalf, DirectMap
  <2> QED
    BY <2>2, <2>3 DEF Copy
<1>9. Tree(n, p2, u)
  <2>1. \A t \in Frame, i \in Index : ~Own(n, p2, u, t, i)
    BY <1>6, <1>8 DEF Own
  <2>2. \A g \in Frame : u[g] \notin 0 .. 3
    BY <1>6
  <2> QED
    BY <2>1, <2>2 DEF Tree
<1>10. Roles(p2, F, usable, u)
  <2>1. ASSUME NEW g \in Frame
        PROVE  /\ u[g] = 4 <=> \E v \in Vmm : p2[v] = g
               /\ u[g] = -1 <=> g \in F
               /\ u[g] = -2 <=> p2[Kernel] # NONE /\ g = FrameOf(usable)
               /\ u[g] = -3 <=> g \notin usable
    <3>1. u[g] = 4 <=> g = f
      BY <1>6
    <3>2. (\E v \in Vmm : p2[v] = g) <=> g = f
      BY <1>1, <1>7, BootNumbers
    <3>3. u[g] = -1 <=> g \in F
      <4>1. g \in F <=> g \in usable /\ g # o /\ g # f
        OBVIOUS
      <4> QED
        BY <1>6, <4>1
    <3>4. u[g] = -2 <=> g = o
      BY <1>2, <1>6 DEF o
    <3>5. u[g] = -3 <=> g \notin usable
      BY <1>2, <1>6
    <3> QED
      BY <1>1, <1>7, <3>1, <3>2, <3>3, <3>4, <3>5 DEF o
  <2>2. \A v, w \in Vmm : p2[v] # NONE /\ p2[v] = p2[w] => v = w
    BY <1>1, <1>7
  <2> QED
    BY <1>1, <1>7, <2>1, <2>2 DEF Roles
<1>11. Halves(n, p2)
  BY <1>7, <1>8 DEF Halves
<1>12. BootKept(n)
  <2>1. \A g \in 0 .. BootTables : g \in Frame /\ g # f
    BY <1>1, BootNumbers DEF Frame, Usable
  <2> QED
    BY <2>1 DEF Sound, BootKept, Copy
<1>13. F \in SUBSET Frame
  BY <1>1
<1>14. Sound(n, p2, F, usable, u)
  BY <1>1, <1>5, <1>7, <1>8, <1>9, <1>10, <1>11, <1>12, <1>13 DEF Sound
<1> QED
  BY <1>5, <1>14 DEF p2, o

\* Another address space shares the kernel's half, and has no other page.
LEMMA Planted ==
  ASSUME NEW m, NEW p, NEW F, NEW usable, NEW use, Sound(m, p, F, usable, use),
         p[Kernel] # NONE, \A va \in Pages : KernelHalf(va[1]) => m[p[Kernel]][va[1]] # NONE,
         NEW v \in Vmm, p[v] = NONE, NEW c \in Vmm, p[c] # NONE,
         NEW n, NEW f \in F, Copy(m, n, p[c], f)
  PROVE  \E u \in [Frame -> Uses] : Sound(n, [p EXCEPT ![v] = f], F \ {f}, usable, u)
<1> DEFINE q == [p EXCEPT ![v] = f]
           u == [use EXCEPT ![f] = 4]
<1>1. /\ m \in [Frame -> Table] /\ p \in [Vmm -> Frame \cup {NONE}] /\ use \in [Frame -> Uses]
      /\ F \in SUBSET Frame /\ usable \in SUBSET Usable /\ f \in Frame /\ f # NONE
      /\ Kernel \in Vmm /\ v # Kernel /\ n \in [Frame -> Table] /\ use[f] = -1
  BY BootNumbers, VirtualMemoryAssumption DEF Sound, Copy, Roles
<1>2. u \in [Frame -> Uses] /\ u[f] = 4 /\ \A g \in Frame : g # f => u[g] = use[g]
  BY <1>1 DEF Uses
<1>3. q \in [Vmm -> Frame \cup {NONE}] /\ q[v] = f /\ \A w \in Vmm : w # v => q[w] = p[w]
  BY <1>1
<1>4. \A w \in Vmm : p[w] # NONE => p[w] \in Frame /\ use[p[w]] = 4 /\ p[w] # f
  BY <1>1, KernelFirst
<1> HIDE DEF q, u
<1>5. /\ \A i \in Index : n[f][i] = IF KernelHalf(i) THEN m[p[c]][i] ELSE NONE
      /\ \A g \in Frame : g # f => n[g] = m[g]
      /\ DirectMap \in Index /\ KernelHalf(DirectMap)
  BY BootNumbers DEF Copy, KernelHalf, DirectMap
<1>6. Tree(n, q, u)
  <2>1. ASSUME NEW t \in Frame, NEW i \in Index
        PROVE  /\ Own(n, q, u, t, i) <=> Own(m, p, use, t, i)
               /\ Own(m, p, use, t, i) => t # f /\ m[t][i] \in Frame /\ m[t][i] # f
    <3>1. CASE t = f
      <4>1. ~Own(m, p, use, t, i)
        BY <1>1, <3>1 DEF Own
      <4>2. ~Own(n, q, u, t, i)
        BY <1>1, <1>2, <1>3, <1>4, <1>5, <3>1 DEF Own
      <4> QED
        BY <4>1, <4>2
    <3>2. CASE t # f
      <4>1. Own(n, q, u, t, i) <=> Own(m, p, use, t, i)
        BY <1>1, <1>2, <1>3, <1>5, <3>2 DEF Own
      <4>2. Own(m, p, use, t, i) => m[t][i] \in Frame /\ use[m[t][i]] = use[t] - 1 /\ use[t] \in 1 .. 4
        BY <1>1 DEF Sound, Tree, Own, Table
      <4>3. Own(m, p, use, t, i) => m[t][i] # f
        BY <1>1, <4>2
      <4> QED
        BY <3>2, <4>1, <4>2, <4>3
    <3> QED
      BY <3>1, <3>2
  <2>2. \A t \in Frame, i \in Index : Own(n, q, u, t, i) => n[t][i] = m[t][i]
    BY <1>5, <2>1
  <2>3. \A t \in Frame, i \in Index : Own(n, q, u, t, i) => u[n[t][i]] = u[t] - 1
    BY <1>2, <2>1, <2>2 DEF Sound, Tree
  <2>4. \A t, x \in Frame, i, j \in Index :
          Own(n, q, u, t, i) /\ Own(n, q, u, x, j) /\ n[t][i] = n[x][j] => t = x /\ i = j
    BY <2>1, <2>2 DEF Sound, Tree
  <2>5. ASSUME NEW g \in Frame, u[g] \in 0 .. 3
        PROVE  \E t \in Frame, i \in Index : Own(n, q, u, t, i) /\ n[t][i] = g
    <3>1. g # f
      BY <1>2, <2>5
    <3>2. use[g] \in 0 .. 3
      BY <1>2, <2>5, <3>1
    <3>3. PICK t \in Frame, i \in Index : Own(m, p, use, t, i) /\ m[t][i] = g
      BY <3>2 DEF Sound, Tree
    <3> QED
      BY <2>1, <2>2, <3>3
  <2> QED
    BY <2>3, <2>4, <2>5 DEF Tree
<1>7. Roles(q, F \ {f}, usable, u)
  <2>1. Roles(p, F, usable, use)
    BY DEF Sound
  <2>2. ASSUME NEW g \in Frame
        PROVE  /\ u[g] = 4 <=> \E w \in Vmm : q[w] = g
               /\ u[g] = -1 <=> g \in F \ {f}
               /\ u[g] = -2 <=> q[Kernel] # NONE /\ g = FrameOf(usable)
               /\ u[g] = -3 <=> g \notin usable
    <3>1. CASE g = f
      BY <1>1, <1>2, <1>3, <2>1, <3>1 DEF Roles
    <3>2. CASE g # f
      <4>1. (\E w \in Vmm : q[w] = g) <=> (\E w \in Vmm : p[w] = g)
        BY <1>3, <3>2, BootNumbers
      <4> QED
        BY <1>1, <1>2, <1>3, <2>1, <3>2, <4>1 DEF Roles
    <3> QED
      BY <3>1, <3>2
  <2>3. \A w, x \in Vmm : q[w] # NONE /\ q[w] = q[x] => w = x
    BY <1>3, <1>4, <2>1 DEF Roles
  <2> QED
    BY <1>1, <1>3, <2>2, <2>3 DEF Roles
<1>8. Halves(n, q)
  <2>1. Halves(m, p)
    BY DEF Sound
  <2>2. ASSUME NEW w \in Vmm, q[w] # NONE, NEW i \in Index, KernelHalf(i)
        PROVE  n[q[w]][i] = m[p[c]][i]
    <3>1. CASE w = v
      BY <1>3, <1>5, <2>2, <3>1
    <3>2. CASE w # v
      <4>1. q[w] = p[w] /\ p[w] # NONE /\ p[w] \in Frame /\ p[w] # f
        BY <1>3, <1>4, <2>2, <3>2
      <4>2. m[p[w]][i] = m[p[c]][i]
        BY <2>1, <2>2, <4>1 DEF Halves
      <4> QED
        BY <1>5, <4>1, <4>2
    <3> QED
      BY <3>1, <3>2
  <2>3. \A w \in Vmm : q[w] # NONE => n[q[w]][DirectMap] = 2
    BY <1>5, <2>1, <2>2 DEF Halves
  <2>4. \A w, x \in Vmm, i \in Index :
          q[w] # NONE /\ q[x] # NONE /\ KernelHalf(i) => n[q[w]][i] = n[q[x]][i]
    BY <2>2
  <2>5. q[Kernel] = p[Kernel] /\ n[q[Kernel]] = m[p[Kernel]]
    BY <1>1, <1>3, <1>4, <1>5
  <2> QED
    BY <2>3, <2>4, <2>5 DEF Halves
<1>9. BootKept(n)
  <2>1. f \in usable
    BY <1>1, TablesUsable
  <2>2. \A g \in 0 .. BootTables : g \in Frame /\ g # f
    BY <1>1, <2>1, BootNumbers DEF Frame, Usable
  <2> QED
    BY <1>5, <2>2 DEF Sound, BootKept
<1>10. Sound(n, q, F \ {f}, usable, u)
  BY <1>1, <1>2, <1>3, <1>6, <1>7, <1>8, <1>9 DEF Sound
<1> QED
  BY <1>2, <1>10 DEF q

\* NewKernel and New, if there was a frame.
LEMMA NewKernelSound ==
  ASSUME NEW usable, usable \subseteq Usable, IInv(usable), NewKernel, intact'
  PROVE  TablesSound(usable)'
<1> DEFINE F == free \ {FrameOf(free)}
           f == FrameOf(F)
<1>1. /\ intact /\ unmapping = NONE /\ outer = << >> /\ pml4[Kernel] = NONE /\ Construct(Kernel, F)
      /\ free' = F \ {f} /\ pml4' = [pml4 EXCEPT ![Kernel] = f] /\ cr3' = f /\ f # 0
      /\ unmapping' = NONE /\ outer' = << >>
  BY DEF NewKernel, Construct, MayCall, Returned
<1>2. TypeOK /\ TablesSound(usable) /\ usable \in SUBSET Usable
  BY <1>1 DEF IInv
<1>3. PICK use \in [Frame -> Uses] : Sound(mem, pml4, free, usable, use)
  BY <1>1, <1>2 DEF TablesSound, Kept
<1>4. free = usable /\ cr3 = 1
  BY <1>1, <1>2, <1>3 DEF Sound, Roles, TablesSound
<1>5. F \in SUBSET Frame
  BY <1>2 DEF TypeOK
<1>6. f \in F
  BY <1>1, <1>5, LowestFrame
<1>7. f \in usable /\ f # FrameOf(usable) /\ f \in Frame /\ cr3 # f
  BY <1>2, <1>4, <1>5, <1>6, BootNumbers DEF Usable
<1> HIDE DEF f
<1>8. Copy(mem, mem', 1, f)
  <2>1. Kernel \in Vmm
    BY VirtualMemoryAssumption
  <2> QED
    BY <1>1, <1>2, <1>4, <1>5, <1>7, <2>1, ConstructCopies DEF f
<1>9. \E u \in [Frame -> Uses] : Sound(mem', pml4', free', usable, u)
  <2>1. Sound(mem, pml4, usable, usable, use)
    BY <1>3, <1>4
  <2>3. free' = (usable \ {FrameOf(usable)}) \ {f}
    BY <1>1, <1>4
  <2>2. \E u \in [Frame -> Uses] :
          Sound(mem', [pml4 EXCEPT ![Kernel] = f], (usable \ {FrameOf(usable)}) \ {f}, usable, u)
    BY <1>1, <1>7, <1>8, <2>1, KernelPlanted
  <2> QED
    BY <1>1, <2>2, <2>3
<1>10. pml4'[Kernel] = cr3' /\ Kernel \in Vmm /\ pml4'[Kernel] # NONE
  BY <1>1, <1>2, <1>7, BootNumbers, VirtualMemoryAssumption DEF TypeOK
<1> QED
  BY <1>1, <1>9, <1>10 DEF TablesSound, Kept

LEMMA NewSound ==
  ASSUME NEW usable, usable \subseteq Usable, IInv(usable),
         NEW v \in Vmm \ {Kernel}, New(v), intact'
  PROVE  TablesSound(usable)'
<1> DEFINE f == FrameOf(free)
<1>1. /\ intact /\ unmapping = NONE /\ outer = << >> /\ pml4[v] = NONE /\ Construct(v, free)
      /\ free' = free \ {f} /\ pml4' = [pml4 EXCEPT ![v] = f] /\ cr3' = f /\ f # 0
      /\ unmapping' = NONE /\ outer' = << >> /\ HeapExists
  BY DEF New, Construct, MayCall, Returned
<1>2. TypeOK /\ TablesSound(usable) /\ usable \in SUBSET Usable /\ free \in SUBSET Frame
  BY <1>1 DEF IInv, TypeOK
<1>3. PICK use \in [Frame -> Uses] : Sound(mem, pml4, free, usable, use)
  BY <1>1, <1>2 DEF TablesSound, Kept
<1>4. f \in free /\ f \in Frame
  BY <1>1, <1>2, LowestFrame
<1> HIDE DEF f
<1>5. pml4[Kernel] # NONE /\ Kernel \in Vmm
  BY <1>1, VirtualMemoryAssumption DEF HeapExists
<1>6. PICK c \in Vmm : pml4[c] = cr3
  BY <1>2, <1>5 DEF TablesSound
<1>7. cr3 # f /\ pml4[c] # NONE
  <2>1. cr3 \in Frame /\ cr3 # NONE
    BY <1>2, BootNumbers DEF TypeOK
  <2>2. use[cr3] = 4 /\ use[f] = -1
    BY <1>3, <1>4, <1>6, <2>1 DEF Sound, Roles
  <2> QED
    BY <1>6, <2>1, <2>2
<1>8. Copy(mem, mem', pml4[c], f)
  BY <1>1, <1>2, <1>6, <1>7, ConstructCopies DEF f
\* The entry of the heap is there: one of its pages is mapped.
<1>9. ASSUME NEW va \in Pages, KernelHalf(va[1]) PROVE mem[pml4[Kernel]][va[1]] # NONE
  <2>1. PICK wa \in Pages : KernelHalf(wa[1]) /\ Mapped(mem, pml4[Kernel], wa) # NONE
    BY <1>1 DEF HeapExists
  <2>2. wa[1] = va[1]
    BY <1>9, <2>1, VirtualMemoryAssumption
  <2>3. Pdpt(mem, pml4[Kernel], wa) # NONE
    BY <2>1 DEF Mapped, Pt, Pd, Entry
  <2> QED
    BY <1>5, <2>2, <2>3 DEF Pdpt, Entry
<1>10. \E u \in [Frame -> Uses] : Sound(mem', pml4', free', usable, u)
  <2>1. Sound(mem, pml4, free, usable, use) /\ pml4[v] = NONE /\ v \in Vmm
    BY <1>1, <1>3
  <2> QED
    BY <1>1, <1>4, <1>5, <1>7, <1>8, <1>9, <2>1, Planted
<1>11. pml4'[v] = cr3' /\ v \in Vmm /\ pml4'[Kernel] # NONE
  BY <1>1, <1>2, <1>5 DEF TypeOK
<1> QED
  BY <1>1, <1>10, <1>11 DEF TablesSound, Kept

\* An object maps a page from its own table, through entries of its own.
LEMMA MayWalk ==
  ASSUME NEW p, NEW v \in Vmm, NEW va \in Pages, p[v] # NONE, KernelHalf(va[1]) => v = Kernel
  PROVE  Walks(p, v, va)
BY VirtualMemoryAssumption DEF Walks

\* allocPage.
LEMMA AllocPageMaps ==
  ASSUME NEW usable, IInv(usable), NEW v \in Vmm, NEW va \in Pages, May(v, va),
         Mapped(mem, pml4[v], va) = NONE, allocPage(v, va), intact'
  PROVE  /\ \E u \in [Frame -> Uses] : Sound(mem', pml4, free', usable, u)
         /\ FrameOf(free) \in free
         /\ \A o \in Vmm, wa \in Va : Walks(pml4, o, wa) =>
              Mapped(mem', pml4[o], wa) =
                IF o = v /\ wa = va THEN FrameOf(free) ELSE Mapped(mem, pml4[o], wa)
<1> DEFINE f == FrameOf(free)
           s == mapPage([mem |-> mem, free |-> free \ {f}], pml4[v], va, f)
<1>1. /\ intact /\ unmapping = NONE /\ free # {}
      /\ mem' = s.mem /\ free' = s.free /\ 0 \notin Touched(s.mem, pml4[v], va)
  BY DEF allocPage, MayCall, Returned
<1>2. PICK use \in [Frame -> Uses] : Sound(mem, pml4, free, usable, use)
  BY <1>1 DEF IInv, TablesSound, Kept
<1>3. f \in free
  BY <1>1, LowestFrame DEF IInv, TypeOK
<1>4. pml4[v] # NONE /\ (KernelHalf(va[1]) => v = Kernel)
  BY DEF May
<1> HIDE DEF f
<1>5. /\ \E u \in [Frame -> Uses] : Sound(s.mem, pml4, s.free, usable, u)
      /\ \A o \in Vmm, wa \in Va : Walks(pml4, o, wa) =>
           Mapped(s.mem, pml4[o], wa) = IF o = v /\ wa = va THEN f ELSE Mapped(mem, pml4[o], wa)
  BY <1>1, <1>2, <1>3, <1>4, MapSound
<1> HIDE DEF s
<1> QED
  BY <1>1, <1>3, <1>5 DEF f

LEMMA AllocPageSound ==
  ASSUME NEW usable, IInv(usable), NEW v \in Vmm, NEW va \in Pages, May(v, va),
         Mapped(mem, pml4[v], va) = NONE, allocPage(v, va), intact'
  PROVE  TablesSound(usable)'
<1>1. /\ intact /\ unmapping = NONE /\ outer = << >>
      /\ UNCHANGED << pml4, cr3, unmapping, outer >>
  BY DEF allocPage, MayCall, Returned
<1>2. \E u \in [Frame -> Uses] : Sound(mem', pml4, free', usable, u)
  BY AllocPageMaps
<1> QED
  BY <1>1, <1>2 DEF TablesSound, Kept, IInv

\* freePage: the frame is back, and used until unmapPage has run.
LEMMA FreePageSound ==
  ASSUME NEW usable, IInv(usable), NEW v \in Vmm, NEW va \in Pages, May(v, va),
         Mapped(mem, pml4[v], va) # NONE, freePage(v, va), intact'
  PROVE  TablesSound(usable)'
<1> DEFINE page == Mapped(mem, pml4[v], va)
<1>1. /\ intact /\ unmapping = NONE /\ outer = << >> /\ unmapping' = << v, va >>
      /\ free' = free \cup {page} /\ UNCHANGED << mem, pml4, cr3, outer, intact >>
  BY DEF freePage, MayCall, Returned, Freed, toPhysicalAddress
<1>2. PICK use \in [Frame -> Uses] : Sound(mem, pml4, free, usable, use)
  BY <1>1 DEF IInv, TablesSound, Kept
<1>3. page \in Frame /\ use[page] = 0
  <2>1. Walks(pml4, v, va)
    BY MayWalk DEF May
  <2> QED
    BY <1>2, <2>1, WalkDown
<1>4. page \notin free
  BY <1>2, <1>3 DEF Sound, Roles
<1>5. unmapping'[1] = v /\ unmapping'[2] = va
  BY <1>1
<1>6. Leaving' = page
  BY <1>1, <1>5 DEF Leaving
<1>7. Pending'
  BY <1>1, <1>5, <1>6 DEF Pending, May
<1> HIDE DEF page
<1>8. unmapping' # NONE
  BY <1>1, VirtualMemoryAssumption
<1>9. Kept' = free
  BY <1>1, <1>4, <1>6, <1>8 DEF Kept
<1> QED
  BY <1>1, <1>2, <1>7, <1>9 DEF TablesSound, IInv

\* n is m without the page that the walk of va goes to, by the table pt.
Without(m, n, p, v, va, pt, page) ==
  /\ Walks(p, v, va) /\ pt = Pt(m, p[v], va)
  /\ page = Mapped(m, p[v], va) /\ page # NONE
  /\ n = [m EXCEPT ![pt][va[4]] = NONE]

\* unmapPage, if entries are left in the table: it undoes a mapPage.
LEMMA Pruned ==
  ASSUME NEW m, NEW p, NEW F, NEW usable, NEW use, Sound(m, p, F, usable, use),
         NEW n, NEW v, NEW va, NEW pt, NEW page, Without(m, n, p, v, va, pt, page),
         NEW G, G = F \cup {page}
  PROVE  /\ page \in Frame \ F /\ pt \in Frame /\ m = [n EXCEPT ![pt][va[4]] = page]
         /\ \E u \in [Frame -> Uses] : Room(n, p, G, usable, u, v, va, pt, page)
<1> DEFINE u == [use EXCEPT ![page] = -1]
           pdpt == Pdpt(m, p[v], va)
           pd == Pd(m, p[v], va)
<1>1. /\ pt \in Frame /\ use[pt] = 1 /\ page \in Frame /\ use[page] = 0 /\ m[pt][va[4]] = page
      /\ pd \in Frame /\ use[pd] = 2 /\ m[pd][va[3]] = pt
      /\ pdpt \in Frame /\ use[pdpt] = 3 /\ m[pdpt][va[2]] = pd
      /\ p[v] \in Frame /\ use[p[v]] = 4 /\ m[p[v]][va[1]] = pdpt
  BY WalkDown DEF Without
<1> HIDE DEF pdpt, pd
<1>2. /\ m \in [Frame -> Table] /\ use \in [Frame -> Uses] /\ F \in SUBSET Frame
      /\ v \in Vmm /\ p[v] # NONE /\ page \notin F /\ page \in usable
      /\ va[1] \in Index /\ va[2] \in Index /\ va[3] \in Index /\ va[4] \in Index
  <2>1. m \in [Frame -> Table] /\ use \in [Frame -> Uses] /\ F \in SUBSET Frame
    BY DEF Sound
  <2>2. v \in Vmm /\ p[v] # NONE /\ va \in Va
    BY DEF Without, Walks
  <2>3. use[page] # -1 /\ use[page] # -3
    BY <1>1
  <2>4. page \notin F /\ page \in usable
    BY <1>1, <2>3 DEF Sound, Roles
  <2> QED
    BY <2>1, <2>2, <2>4 DEF Va
<1>3. n \in [Frame -> Table]
  BY <1>1, <1>2, WriteTyped DEF Without
<1>4. \A g \in Frame, j \in Index : n[g][j] = IF g = pt /\ j = va[4] THEN NONE ELSE m[g][j]
  BY <1>1, <1>2 DEF Table, Without
<1>5. m = [n EXCEPT ![pt][va[4]] = page]
  <2> DEFINE x == [n EXCEPT ![pt][va[4]] = page]
  <2>1. x \in [Frame -> Table]
    <3>1. page \in Frame \cup {NONE}
      BY <1>1
    <3> QED
      BY ONLY <1>3, <3>1, WriteTyped
  <2>2. ASSUME NEW g \in Frame, NEW j \in Index
        PROVE  x[g][j] = IF g = pt /\ j = va[4] THEN page ELSE n[g][j]
    <3>1. x[g] = IF g = pt THEN [n[pt] EXCEPT ![va[4]] = page] ELSE n[g]
      BY <1>1, <1>3
    <3>2. DOMAIN n[g] = Index
      BY <1>3 DEF Table
    <3> HIDE DEF x
    <3> QED
      BY <3>1, <3>2
  <2> HIDE DEF x
  <2>3. \A g \in Frame, j \in Index : x[g][j] = m[g][j]
    BY <1>1, <1>4, <2>2
  <2>4. ASSUME NEW g \in Frame PROVE x[g] = m[g]
    <3>1. x[g] \in Table /\ m[g] \in Table /\ \A j \in Index : x[g][j] = m[g][j]
      BY <1>2, <2>1, <2>3
    <3> QED
      BY <3>1 DEF Table
  <2>5. x = m
    BY <1>2, <2>1, <2>4
  <2> QED
    BY <2>5 DEF x
<1>6. u \in [Frame -> Uses] /\ u[page] = -1 /\ \A g \in Frame : g # page => u[g] = use[g]
  BY <1>1, <1>2 DEF Uses
<1>7. Tree(n, p, u)
  <2>1. Tree(m, p, use)
    BY DEF Sound
  <2>2. m[pt][va[4]] # NONE
    BY <1>1 DEF Without
  <2>3. u = [use EXCEPT ![m[pt][va[4]]] = -1]
    BY <1>1
  <2> HIDE DEF u
  <2>4. pt \in Frame /\ use[pt] = 1 /\ va[4] \in Index
    BY <1>1, <1>2
  <2>5. m \in [Frame -> Table] /\ use \in [Frame -> Uses]
    BY <1>2
  <2>6. Tree(n, p, [use EXCEPT ![m[pt][va[4]]] = -1])
    BY <1>3, <1>4, <2>1, <2>2, <2>4, <2>5, Prune
  <2> QED
    BY <2>3, <2>6
<1> HIDE DEF u
<1>8. Roles(p, G, usable, u)
  <2>1. Roles(p, F, usable, use)
    BY DEF Sound
  <2>2. p[Kernel] # NONE
    BY <1>2, KernelFirst
  <2>3. ASSUME NEW g \in Frame
        PROVE  /\ u[g] = 4 <=> \E w \in Vmm : p[w] = g
               /\ u[g] = -1 <=> g \in G
               /\ u[g] = -2 <=> p[Kernel] # NONE /\ g = FrameOf(usable)
               /\ u[g] = -3 <=> g \notin usable
    <3>1. CASE g = page
      BY <1>1, <1>2, <1>6, <2>1, <3>1 DEF Roles
    <3>2. CASE g # page
      BY <1>6, <2>1, <3>2 DEF Roles
    <3> QED
      BY <3>1, <3>2
  <2> QED
    BY <2>1, <2>2, <2>3 DEF Roles
<1>9. Halves(n, p)
  <2>1. Halves(m, p)
    BY DEF Sound
  <2>2. ASSUME NEW w \in Vmm, p[w] # NONE, NEW j \in Index PROVE n[p[w]][j] = m[p[w]][j]
    <3>1. p[w] \in Frame /\ use[p[w]] = 4
      BY <2>2, KernelFirst
    <3> QED
      BY <1>1, <1>4, <3>1
  <2>3. /\ p[Kernel] # NONE /\ Kernel \in Vmm /\ DirectMap \in Index
        /\ \A wa \in Pages : wa[1] \in Index
    BY <1>2, KernelFirst, VirtualMemoryAssumption, BootNumbers DEF Va
  <2> QED
    BY <2>1, <2>2, <2>3 DEF Halves
<1>10. BootKept(n)
  <2> SUFFICES ASSUME NEW g \in 0 .. BootTables PROVE n[g] = BootMem[g]
    BY DEF BootKept
  <2>1. g \in Frame /\ g # pt
    BY <1>1, TablesUsable, BootNumbers DEF Frame
  <2>2. n[g] = m[g]
    BY <1>2, <2>1 DEF Without
  <2> QED
    BY <2>2 DEF Sound, BootKept
<1>11. Sound(n, p, G, usable, u)
  <2>1. G \in SUBSET Frame
    BY <1>1, <1>2
  <2> QED
    BY <1>3, <1>6, <1>7, <1>8, <1>9, <1>10, <2>1 DEF Sound
<1>12. Pt(n, p[v], va) = pt /\ Mapped(n, p[v], va) = NONE
  <2>1. /\ n[p[v]][va[1]] = pdpt /\ n[pdpt][va[2]] = pd /\ n[pd][va[3]] = pt /\ n[pt][va[4]] = NONE
    BY <1>1, <1>2, <1>4
  <2>2. pdpt # NONE /\ pd # NONE /\ pt # NONE
    BY <1>1, BootNumbers
  <2>3. Pdpt(n, p[v], va) = pdpt
    BY <1>2, <2>1 DEF Pdpt, Entry
  <2>4. Pd(n, p[v], va) = pd
    BY <2>1, <2>2, <2>3 DEF Pd, Entry
  <2>5. Pt(n, p[v], va) = pt
    BY <2>1, <2>2, <2>4 DEF Pt, Entry
  <2> QED
    BY <2>1, <2>2, <2>5 DEF Mapped, Entry
<1>13. u[pt] = 1 /\ p[Kernel] # NONE
  BY <1>1, <1>2, <1>6, KernelFirst
<1>14. Room(n, p, G, usable, u, v, va, pt, page)
  BY <1>1, <1>2, <1>11, <1>12, <1>13 DEF Room, Without
<1> QED
  BY <1>1, <1>2, <1>5, <1>6, <1>14

\* unmapPage while the tables stay intact: it clears the entry of the page that
\* freePage gave back, and no other.
LEMMA UnmapPageClears ==
  ASSUME NEW usable, IInv(usable), unmapPage, intact'
  PROVE  LET v  == unmapping[1]
             va == unmapping[2]
         IN  /\ intact /\ unmapping' = NONE /\ UNCHANGED << free, pml4, cr3, outer, intact >>
             /\ Pending /\ Leaving \in Frame /\ Walks(pml4, v, va)
             /\ \E u \in [Frame -> Uses] : Sound(mem', pml4, free, usable, u)
             /\ Mapped(mem', pml4[v], va) = NONE
             /\ \A o \in Vmm, wa \in Va : Walks(pml4, o, wa) =>
                  Mapped(mem, pml4[o], wa) =
                    IF o = v /\ wa = va THEN Leaving ELSE Mapped(mem', pml4[o], wa)
<1> DEFINE v == unmapping[1]
           va == unmapping[2]
           pt == Pt(mem, pml4[v], va)
           cleared == [mem EXCEPT ![pt][va[4]] = NONE]
<1>1. unmapping # NONE /\ UNCHANGED << pml4, cr3 >>
  BY DEF unmapPage
<1>2. intact
  <2>1. CASE pt = NONE
    BY <2>1 DEF unmapPage
  <2>2. CASE pt # NONE /\ ~IsEmpty(cleared[pt])
    BY <2>2 DEF unmapPage
  <2>3. CASE pt # NONE /\ IsEmpty(cleared[pt])
    BY <2>3 DEF unmapPage
  <2> QED
    BY <2>1, <2>2, <2>3
<1>3. Pending /\ Kept = free \ {Leaving} /\ Leaving = Mapped(mem, pml4[v], va)
  BY <1>1, <1>2 DEF IInv, TablesSound, Kept, Leaving
<1>4. /\ Leaving \in Frame /\ Leaving # NONE /\ Leaving \in free /\ pt # NONE
  <2>1. Leaving \in free /\ free \in SUBSET Frame
    BY <1>3 DEF Pending, IInv, TypeOK
  <2> QED
    BY <1>3, <2>1, BootNumbers DEF Mapped, Entry
<1>5. v \in Vmm /\ va \in Pages /\ Walks(pml4, v, va)
  <2>1. v \in Vmm /\ va \in Pages /\ pml4[v] # NONE /\ (KernelHalf(va[1]) => v = Kernel)
    BY <1>1, <1>3 DEF Pending, May, IInv, TypeOK
  <2> QED
    BY <2>1, MayWalk
<1>6. mem' = cleared /\ unmapping' = NONE /\ UNCHANGED << free, outer, intact >>
  <2>1. CASE IsEmpty(cleared[pt])
    BY <1>4, <2>1 DEF unmapPage
  <2>2. CASE ~IsEmpty(cleared[pt])
    BY <1>4, <2>2 DEF unmapPage
  <2> QED
    BY <2>1, <2>2
<1>7. PICK use \in [Frame -> Uses] : Sound(mem, pml4, free \ {Leaving}, usable, use)
  BY <1>2, <1>3 DEF IInv, TablesSound
<1> HIDE DEF v, va, pt
<1>8. /\ mem = [cleared EXCEPT ![pt][va[4]] = Leaving]
      /\ \E u \in [Frame -> Uses] :
           Room(cleared, pml4, free, usable, u, v, va, pt, Leaving)
  <2> HIDE DEF cleared
  <2>1. Without(mem, cleared, pml4, v, va, pt, Leaving)
    BY <1>3, <1>4, <1>5 DEF pt, cleared, Without
  <2>2. free = (free \ {Leaving}) \cup {Leaving}
    BY <1>4
  <2> DEFINE rest == free \ {Leaving}
  <2>3. Sound(mem, pml4, rest, usable, use) /\ free = rest \cup {Leaving}
    BY <1>7, <2>2
  <2> HIDE DEF rest
  <2> QED
    BY <2>1, <2>3, Pruned
<1> HIDE DEF cleared
<1>10. PICK u \in [Frame -> Uses] : Room(cleared, pml4, free, usable, u, v, va, pt, Leaving)
  BY <1>8
<1>11. PageIn(cleared, mem, pml4, free, usable, v, va, Leaving)
  BY <1>8, <1>10, PageHung
<1>12. /\ \E x \in [Frame -> Uses] : Sound(cleared, pml4, free, usable, x)
       /\ Mapped(cleared, pml4[v], va) = NONE
  BY <1>10 DEF Room
<1> QED
  BY <1>1, <1>2, <1>3, <1>4, <1>5, <1>6, <1>11, <1>12 DEF PageIn, v, va

\* The strengthened invariant is kept, while the tables are intact.
LEMMA SoundStep ==
  ASSUME NEW usable, usable \subseteq Usable, IInv(usable), [Next]_vars, intact'
  PROVE  TablesSound(usable)'
<1>1. CASE NewKernel
  BY <1>1, NewKernelSound
<1>2. ASSUME NEW v \in Vmm \ {Kernel}, New(v) PROVE TablesSound(usable)'
  BY <1>2, NewSound
<1>3. ASSUME NEW v \in Vmm, loadCr3(v) PROVE TablesSound(usable)'
  <2>1. /\ cr3' = pml4[v] /\ pml4[v] # NONE /\ UNCHANGED << mem, free, pml4, unmapping, outer, intact >>
        /\ unmapping = NONE
    BY <1>3 DEF loadCr3, Returned
  <2>2. TablesSound(usable) /\ Kept' = Kept
    BY <2>1 DEF IInv, Kept
  <2>3. pml4[Kernel] # NONE
    <3>1. PICK use \in [Frame -> Uses] : Sound(mem, pml4, Kept, usable, use)
      BY <2>2 DEF TablesSound
    <3> QED
      BY <2>1, <3>1, KernelFirst
  <2> QED
    BY <2>1, <2>2, <2>3 DEF TablesSound
<1>4. ASSUME NEW v \in Vmm, NEW va \in Pages, Call(v, va) PROVE TablesSound(usable)'
  BY <1>4, AllocPageSound, FreePageSound DEF Call
<1>5. CASE unmapPage
  <2>1. /\ intact /\ unmapping' = NONE /\ UNCHANGED << free, pml4, cr3, outer, intact >>
        /\ \E u \in [Frame -> Uses] : Sound(mem', pml4, free, usable, u)
    BY <1>5, UnmapPageClears
  <2> QED
    BY <2>1 DEF IInv, TablesSound, Kept
<1>6. CASE ForgetTable
  BY <1>6 DEF ForgetTable, IInv, TablesSound
<1>7. CASE UNCHANGED vars
  <2>1. TablesSound(usable) /\ UNCHANGED << mem, free, pml4, cr3, unmapping, outer, intact >>
    BY <1>7 DEF IInv, vars
  <2> QED
    BY <2>1 DEF TablesSound, Kept, Pending, Leaving, May
<1> QED
  BY <1>1, <1>2, <1>3, <1>4, <1>5, <1>6, <1>7 DEF Next, Call

\* The strengthened invariant is inductive.
LEMMA InvStep ==
  ASSUME NEW usable, usable \subseteq Usable, IInv(usable), [Next]_vars
  PROVE  IInv(usable)'
<1>1. TypeOK'
  BY TypedStep DEF IInv
<1> QED
  BY <1>1, SoundStep DEF IInv

\* As the memory manager starts, with all that the boot loader left usable.
LEMMA InvFirst == ASSUME NEW usable \in SUBSET Usable, InitWith(usable) PROVE IInv(usable)
<1>1. usable \in SUBSET Frame
  BY BootNumbers DEF Usable, Frame
<1> QED
  BY <1>1, InitTyped, BootSound DEF IInv

LEMMA Invariant == Spec => []IInv(Usable)
<1>1. Init => IInv(Usable)
  BY InvFirst DEF Init
<1>2. IInv(Usable) /\ [Next]_vars => IInv(Usable)'
  BY InvStep
<1> QED
  BY <1>1, <1>2, PTL DEF Spec

-----------------------------------------------------------------------------
\* What the tables are good for

\* In every address space, and in the boot loader's, each frame is where
\* toVirtualHhdmAddress says (Address.cpp:8-10): new address spaces copy the
\* entry, and no walk that maps or unmaps a page goes through it.
LEMMA DirectMapIn ==
  ASSUME NEW usable, IInv(usable)
  PROVE  DirectMapComplete
<1> SUFFICES ASSUME intact, NEW root \in Roots \cup {cr3}, NEW f \in Frame
             PROVE  Mapped(mem, root, toVirtualHhdmAddress(f)) = f
  BY DEF DirectMapComplete
<1>1. PICK use \in [Frame -> Uses] : Sound(mem, pml4, Kept, usable, use)
  BY DEF IInv, TablesSound
<1>2. mem \in [Frame -> Table] /\ BootKept(mem) /\ Halves(mem, pml4)
  BY <1>1 DEF Sound
<1>3. ASSUME NEW v \in Vmm, pml4[v] # NONE, root = pml4[v]
      PROVE  root \in Frame /\ mem[root][DirectMap] = 2
  BY <1>1, <1>2, <1>3, KernelFirst DEF Halves
<1>4. root \in Frame /\ mem[root][DirectMap] = 2
  <2>1. CASE \E v \in Vmm : pml4[v] # NONE /\ root = pml4[v]
    BY <1>3, <2>1
  <2>2. CASE ~\E v \in Vmm : pml4[v] # NONE /\ root = pml4[v]
    <3>1. root = cr3 /\ cr3 \in Frame
      BY <2>2 DEF Roots, Constructed, IInv, TypeOK
    <3>2. cr3 = 1
      <4>1. CASE pml4[Kernel] = NONE
        BY <4>1 DEF IInv, TablesSound
      <4>2. CASE pml4[Kernel] # NONE
        BY <2>2, <3>1, <4>2, BootNumbers DEF IInv, TablesSound
      <4> QED
        BY <4>1, <4>2
    <3>3. mem[1] = BootMem[1] /\ 1 \in Frame
      BY <1>2, <3>1, <3>2, BootNumbers DEF BootKept
    <3>4. BootMem[1][DirectMap] = 2
      BY <3>3, BootNumbers DEF BootMem, BootEntry
    <3> QED
      BY <3>1, <3>2, <3>3, <3>4
  <2> QED
    BY <2>1, <2>2
<1> QED
  BY <1>2, <1>4, DirectWalk

\* The direct map is complete in every address space (Address.cpp:8-10).
THEOREM DirectMapIsComplete == Spec => []DirectMapComplete
<1>1. IInv(Usable) => DirectMapComplete
  BY DirectMapIn
<1> QED
  BY <1>1, Invariant, PTL

\* The copies of the kernel's half that VirtualMemoryManager's constructor
\* makes stay equal (VirtualMemoryManager.cpp:26-27): mapPage adds an entry to
\* one of them only while there is no other.
THEOREM KernelHalfIsShared == Spec => []KernelHalfShared
<1>1. IInv(Usable) => KernelHalfShared
  <2> SUFFICES ASSUME IInv(Usable), intact PROVE KernelHalfShared
    BY DEF KernelHalfShared
  <2>1. PICK use \in [Frame -> Uses] : Sound(mem, pml4, Kept, Usable, use)
    BY DEF IInv, TablesSound
  <2> QED
    BY <2>1 DEF Sound, Halves, KernelHalfShared, Constructed
<1> QED
  BY <1>1, Invariant, PTL

-----------------------------------------------------------------------------
\* The address spaces the tables stand for

\* A page that is mapped is in an address space, in a frame used for a page.
LEMMA MappedUse ==
  ASSUME NEW m, NEW p, NEW F, NEW usable, NEW use, Sound(m, p, F, usable, use),
         NEW o \in Vmm, NEW wa \in Pages, Mapped(m, p[o], wa) # NONE
  PROVE  p[o] # NONE /\ Mapped(m, p[o], wa) \in Frame /\ use[Mapped(m, p[o], wa)] = 0
<1>1. p[o] # NONE
  BY DEF Mapped, Pt, Pd, Pdpt, Entry
<1>2. /\ wa \in Va /\ wa[1] # DirectMap /\ Kernel \in Vmm /\ p[Kernel] # NONE
  BY <1>1, KernelFirst, VirtualMemoryAssumption
<1>3. CASE KernelHalf(wa[1])
  <2>1. Mapped(m, p[o], wa) = Mapped(m, p[Kernel], wa)
    BY <1>1, <1>2, <1>3, Shared
  <2>2. Walks(p, Kernel, wa)
    BY <1>2 DEF Walks
  <2> QED
    BY <1>1, <2>1, <2>2, WalkDown
<1>4. CASE ~KernelHalf(wa[1])
  <2>1. Walks(p, o, wa)
    BY <1>1, <1>2, <1>4 DEF Walks
  <2> QED
    BY <1>1, <2>1, WalkDown
<1> QED
  BY <1>3, <1>4

\* Of the pages that walks of their own go to, n has frame f, or none, for one
\* and is otherwise like m.
PageSet(m, n, p, v, va, f) ==
  /\ v \in Vmm /\ va \in Pages /\ Walks(p, v, va)
  /\ \A o \in Vmm, wa \in Va : Walks(p, o, wa) =>
       Mapped(n, p[o], wa) = IF o = v /\ wa = va THEN f ELSE Mapped(m, p[o], wa)

\* What is known of the page of one walk holds in all address spaces that
\* share it: the other mappings are as they were.
LEMMA OnePageSet ==
  ASSUME NEW m, NEW n, NEW p, NEW F, NEW G, NEW usable, NEW use, NEW u,
         Sound(m, p, F, usable, use), Sound(n, p, G, usable, u),
         NEW v, NEW va, NEW f, PageSet(m, n, p, v, va, f),
         NEW o \in Vmm, NEW wa \in Pages
  PROVE  Mapped(n, p[o], wa) =
           IF wa = va /\ (o = v \/ (KernelHalf(va[1]) /\ p[o] # NONE))
             THEN f ELSE Mapped(m, p[o], wa)
<1>1. /\ wa \in Va /\ wa[1] # DirectMap /\ Kernel \in Vmm /\ p[Kernel] # NONE
      /\ p[v] # NONE /\ (KernelHalf(va[1]) => v = Kernel)
  BY KernelFirst, VirtualMemoryAssumption DEF Walks, PageSet
<1>2. CASE p[o] = NONE
  BY <1>1, <1>2 DEF Mapped, Pt, Pd, Pdpt, Entry
<1>3. CASE p[o] # NONE /\ KernelHalf(wa[1])
  <2>1. /\ Mapped(m, p[o], wa) = Mapped(m, p[Kernel], wa)
        /\ Mapped(n, p[o], wa) = Mapped(n, p[Kernel], wa)
    BY <1>1, <1>3, Shared
  <2>2. Walks(p, Kernel, wa)
    BY <1>1 DEF Walks
  <2> QED
    BY <1>1, <1>3, <2>1, <2>2 DEF PageSet
<1>4. CASE p[o] # NONE /\ ~KernelHalf(wa[1])
  <2>1. Walks(p, o, wa)
    BY <1>1, <1>4 DEF Walks
  <2>2. Mapped(n, p[o], wa) = IF o = v /\ wa = va THEN f ELSE Mapped(m, p[o], wa)
    BY <1>1, <2>1 DEF PageSet
  <2>3. wa = va => ~KernelHalf(va[1])
    BY <1>4
  <2> QED
    BY <2>2, <2>3
<1> QED
  BY <1>2, <1>3, <1>4

\* No walk goes through the table that a copy is put into.
LEMMA CopyWalk ==
  ASSUME NEW m, NEW p, NEW F, NEW usable, NEW use, Sound(m, p, F, usable, use),
         NEW n, NEW c, NEW f, Copy(m, n, c, f), use[f] = -1,
         NEW o, NEW wa, Walks(p, o, wa)
  PROVE  Mapped(n, p[o], wa) = Mapped(m, p[o], wa)
<1> DEFINE pdpt == Pdpt(m, p[o], wa)
           pd == Pd(m, p[o], wa)
           pt == Pt(m, p[o], wa)
<1>1. \A g \in Frame : g # f => n[g] = m[g]
  BY DEF Copy
<1>2. /\ p[o] # NONE /\ p[o] \in Frame /\ p[o] # f
      /\ pdpt # NONE => pdpt \in Frame /\ pdpt # f
      /\ pd # NONE => pd \in Frame /\ pd # f
      /\ pt # NONE => pt \in Frame /\ pt # f
  BY WalkDown DEF Walks
<1> HIDE DEF pdpt, pd, pt
<1>3. Pdpt(n, p[o], wa) = pdpt
  BY <1>1, <1>2 DEF pdpt, Pdpt, Entry
<1>4. Pd(n, p[o], wa) = pd
  BY <1>1, <1>2, <1>3 DEF pdpt, pd, Pd, Entry
<1>5. Pt(n, p[o], wa) = pt
  BY <1>1, <1>2, <1>4 DEF pd, pt, Pt, Entry
<1> QED
  BY <1>1, <1>2, <1>5 DEF pt, Mapped, Entry

\* The mappings of the abstract specification.
MapOf == [o \in Vmm |-> [wa \in Pages |-> Mapped(mem, pml4[o], wa)]]
KernelPages == {wa \in Pages : KernelHalf(wa[1])}

\* One page set is Set of the abstract specification.
LEMMA SetRefines ==
  ASSUME NEW v \in Vmm, NEW va \in Pages, pml4[v] # NONE, KernelHalf(va[1]) => v = Kernel,
         pml4' = pml4, NEW f,
         \A o \in Vmm, wa \in Pages :
           Mapped(mem', pml4[o], wa) =
             IF wa = va /\ (o = v \/ (KernelHalf(va[1]) /\ pml4[o] # NONE))
               THEN f ELSE Mapped(mem, pml4[o], wa)
  PROVE  MapOf'[v][va] = f /\ Abstract!Set(v, va, f) /\ UNCHANGED Constructed
<1> DEFINE Sharing == IF va \in KernelPages THEN Constructed ELSE {v}
<1>1. ASSUME NEW o \in Vmm
      PROVE  (o \in Sharing) <=> (o = v \/ (KernelHalf(va[1]) /\ pml4[o] # NONE))
  BY DEF KernelPages, Constructed
<1> HIDE DEF Sharing
<1>2. ASSUME NEW o \in Vmm, NEW wa \in Pages
      PROVE  MapOf'[o][wa] = IF wa = va /\ o \in Sharing THEN f ELSE MapOf[o][wa]
  BY <1>1 DEF MapOf
<1>3. ASSUME NEW o \in Vmm
      PROVE  MapOf'[o] = IF o \in Sharing THEN [MapOf[o] EXCEPT ![va] = f] ELSE MapOf[o]
  BY <1>2 DEF MapOf
<1>4. MapOf' = [o \in Vmm |-> IF o \in Sharing THEN [MapOf[o] EXCEPT ![va] = f] ELSE MapOf[o]]
  BY <1>3 DEF MapOf
<1>5. v \in Sharing
  BY <1>1
<1>6. UNCHANGED Constructed
  BY DEF Constructed
<1> QED
  BY <1>2, <1>4, <1>5, <1>6 DEF Sharing, Abstract!Set, Abstract!Sharing, MapOf, KernelPages

\* allocPage is Map: a page that is not mapped gets a frame no page has.
LEMMA AllocPageRefines ==
  ASSUME NEW usable, usable \subseteq Usable, IInv(usable), IInv(usable)',
         NEW v \in Vmm, NEW va \in Pages, May(v, va),
         Mapped(mem, pml4[v], va) = NONE, allocPage(v, va), intact'
  PROVE  Abstract!Map(v, va)
<1> DEFINE f == FrameOf(free)
<1>1. /\ intact /\ unmapping = NONE /\ unmapping' = NONE /\ pml4' = pml4
  BY DEF allocPage, MayCall, Returned
<1>2. PICK use \in [Frame -> Uses] : Sound(mem, pml4, free, usable, use)
  BY <1>1 DEF IInv, TablesSound, Kept
<1>3. /\ \E u \in [Frame -> Uses] : Sound(mem', pml4, free', usable, u)
      /\ f \in free
      /\ \A o \in Vmm, wa \in Va : Walks(pml4, o, wa) =>
           Mapped(mem', pml4[o], wa) = IF o = v /\ wa = va THEN f ELSE Mapped(mem, pml4[o], wa)
  BY AllocPageMaps
<1> HIDE DEF f
<1>4. f \in Frame /\ use[f] = -1 /\ f # NONE
  BY <1>2, <1>3, BootNumbers DEF Sound, Roles
<1>5. pml4[v] # NONE /\ Walks(pml4, v, va)
  BY MayWalk DEF May
<1>6. ASSUME NEW o \in Vmm, NEW wa \in Pages
      PROVE  Mapped(mem', pml4'[o], wa) =
               IF wa = va /\ (o = v \/ (KernelHalf(va[1]) /\ pml4[o] # NONE))
                 THEN f ELSE Mapped(mem, pml4[o], wa)
  <2>1. PICK u \in [Frame -> Uses] : Sound(mem', pml4, free', usable, u)
    BY <1>3
  <2>2. PageSet(mem, mem', pml4, v, va, f)
    BY <1>3, <1>5 DEF PageSet
  <2> QED
    BY <1>1, <1>2, <2>1, <2>2, OnePageSet
<1>7. ASSUME NEW o \in Vmm, NEW wa \in Pages PROVE Mapped(mem, pml4[o], wa) # f
  BY <1>2, <1>4, MappedUse
<1>8. v \in Constructed
  BY <1>5 DEF Constructed
<1>9. MapOf'[v][va] = f /\ Abstract!Set(v, va, f) /\ UNCHANGED Constructed
  BY <1>1, <1>5, <1>6, SetRefines DEF May
<1>10. MapOf[v][va] = NONE /\ \A o \in Vmm, wa \in Pages : MapOf[o][wa] # f
  BY <1>7 DEF MapOf
<1> QED
  BY <1>4, <1>8, <1>9, <1>10 DEF Abstract!Map, MapOf

\* unmapPage is Unmap, when the page was the one freePage gave back.
LEMMA UnmapPageRefines ==
  ASSUME NEW usable, usable \subseteq Usable, IInv(usable), unmapPage, intact'
  PROVE  \E v \in Vmm, va \in Pages : Abstract!Unmap(v, va)
<1> DEFINE v == unmapping[1]
           va == unmapping[2]
<1>1. /\ intact /\ pml4' = pml4
      /\ Pending /\ Leaving \in Frame /\ Walks(pml4, v, va)
      /\ \E u \in [Frame -> Uses] : Sound(mem', pml4, free, usable, u)
      /\ Mapped(mem', pml4[v], va) = NONE
      /\ \A o \in Vmm, wa \in Va : Walks(pml4, o, wa) =>
           Mapped(mem, pml4[o], wa) = IF o = v /\ wa = va THEN Leaving ELSE Mapped(mem', pml4[o], wa)
  BY UnmapPageClears
<1>2. PICK use \in [Frame -> Uses] : Sound(mem, pml4, Kept, usable, use)
  BY <1>1 DEF IInv, TablesSound
<1>3. PICK u \in [Frame -> Uses] : Sound(mem', pml4, free, usable, u)
  BY <1>1
<1>4. v \in Vmm /\ va \in Pages /\ pml4[v] # NONE /\ (KernelHalf(va[1]) => v = Kernel)
  BY <1>1 DEF Pending, May, Walks
<1>5. Mapped(mem, pml4[v], va) = Leaving /\ Leaving # NONE
  BY <1>1, BootNumbers DEF Leaving
<1> HIDE DEF v, va
<1>6. PageSet(mem, mem', pml4, v, va, NONE)
  BY <1>1, <1>4 DEF PageSet
<1>7. \A o \in Vmm, wa \in Pages :
        Mapped(mem', pml4[o], wa) =
          IF wa = va /\ (o = v \/ (KernelHalf(va[1]) /\ pml4[o] # NONE))
            THEN NONE ELSE Mapped(mem, pml4[o], wa)
  BY <1>2, <1>3, <1>6, OnePageSet
<1>8. Abstract!Set(v, va, NONE) /\ UNCHANGED Constructed
  BY <1>1, <1>4, <1>7, SetRefines
<1>9. v \in Constructed /\ MapOf[v][va] # NONE
  BY <1>4, <1>5 DEF Constructed, MapOf
<1>10. Abstract!Unmap(v, va)
  BY <1>8, <1>9 DEF Abstract!Unmap, MapOf
<1> QED
  BY <1>4, <1>10

\* NewKernel is Create: the first address space maps nothing.
LEMMA NewKernelRefines ==
  ASSUME NEW usable, usable \subseteq Usable, IInv(usable), NewKernel, intact'
  PROVE  Abstract!Create(Kernel)
<1> DEFINE F == free \ {FrameOf(free)}
           f == FrameOf(F)
<1>1. /\ intact /\ unmapping = NONE /\ pml4[Kernel] = NONE /\ Construct(Kernel, F)
      /\ pml4' = [pml4 EXCEPT ![Kernel] = f] /\ f # 0 /\ Kernel \in Vmm
  BY VirtualMemoryAssumption DEF NewKernel, Construct, MayCall, Returned
<1>2. TypeOK /\ TablesSound(usable) /\ F \in SUBSET Frame
  BY <1>1 DEF IInv, TypeOK
<1>3. PICK use \in [Frame -> Uses] : Sound(mem, pml4, free, usable, use)
  BY <1>1, <1>2 DEF TablesSound, Kept
<1>4. f \in Frame /\ f # NONE /\ f \in free
  BY <1>1, <1>2, LowestFrame, BootNumbers
<1>5. cr3 = 1 /\ cr3 # f /\ 1 \in Frame
  <2>1. cr3 = 1 /\ 1 \in Frame
    BY <1>1, <1>2, BootNumbers DEF TablesSound, Frame
  <2>2. use[f] # -3
    BY <1>3, <1>4 DEF Sound, Roles
  <2> QED
    BY <1>3, <1>4, <2>1, <2>2, TablesUsable, BootNumbers
<1>6. Copy(mem, mem', 1, f)
  BY <1>1, <1>2, <1>5, ConstructCopies
<1> HIDE DEF f, F
<1>7. ASSUME NEW wa \in Pages PROVE Mapped(mem', f, wa) = NONE
  <2>1. wa[1] \in Index /\ wa[1] # DirectMap
    BY VirtualMemoryAssumption DEF Va
  <2>2. mem[1] = BootMem[1]
    BY <1>3, <1>5, BootNumbers DEF Sound, BootKept
  <2>5. BootEntry(1, wa[1]) = NONE
    BY <2>1, BootNumbers DEF BootEntry
  <2>6. BootMem[1][wa[1]] = NONE
    BY <1>5, <2>1, <2>5 DEF BootMem
  <2>3. mem'[f][wa[1]] = NONE
    BY <1>6, <2>1, <2>2, <2>6 DEF Copy
  <2>4. Pdpt(mem', f, wa) = NONE
    BY <1>4, <2>3 DEF Pdpt, Entry
  <2> QED
    BY <2>4 DEF Mapped, Pt, Pd, Entry
<1>8. \A o \in Vmm : pml4[o] = NONE
  BY <1>1, <1>3, KernelFirst
<1>9. \A o \in Vmm : pml4'[o] = IF o = Kernel THEN f ELSE NONE
  BY <1>1, <1>2, <1>8 DEF TypeOK
<1>10. ASSUME NEW o \in Vmm, NEW wa \in Pages
       PROVE  Mapped(mem', pml4'[o], wa) = NONE /\ Mapped(mem, pml4[o], wa) = NONE
  BY <1>7, <1>8, <1>9 DEF Mapped, Pt, Pd, Pdpt, Entry
<1>11. MapOf' = MapOf
  BY <1>10 DEF MapOf
<1>12. Constructed = {} /\ Constructed' = {Kernel}
  BY <1>1, <1>4, <1>8, <1>9 DEF Constructed
<1>13. \A wa \in Pages : MapOf'[Kernel][wa] = NONE
  BY <1>1, <1>10 DEF MapOf
<1> QED
  BY <1>1, <1>11, <1>12, <1>13 DEF Abstract!Create, MapOf, KernelPages

\* New is Create: the kernel's pages are there and no other, and the address
\* spaces there were have changed in nothing.
LEMMA NewRefines ==
  ASSUME NEW usable, usable \subseteq Usable, IInv(usable), IInv(usable)',
         NEW v \in Vmm \ {Kernel}, New(v), intact'
  PROVE  Abstract!Create(v)
<1> DEFINE f == FrameOf(free)
<1>1. /\ intact /\ unmapping = NONE /\ unmapping' = NONE /\ pml4[v] = NONE /\ Construct(v, free)
      /\ pml4' = [pml4 EXCEPT ![v] = f] /\ f # 0 /\ pml4[Kernel] # NONE /\ Kernel \in Vmm
  BY VirtualMemoryAssumption DEF New, HeapExists, Construct, MayCall, Returned
<1>2. TypeOK /\ TablesSound(usable) /\ free \in SUBSET Frame
  BY <1>1 DEF IInv, TypeOK
<1>3. PICK use \in [Frame -> Uses] : Sound(mem, pml4, free, usable, use)
  BY <1>1, <1>2 DEF TablesSound, Kept
<1>4. PICK u \in [Frame -> Uses] : Sound(mem', pml4', free', usable, u)
  BY <1>1 DEF IInv, TablesSound, Kept
<1>5. f \in Frame /\ f # NONE /\ use[f] = -1
  <2>1. f \in free
    BY <1>1, <1>2, LowestFrame
  <2> QED
    BY <1>2, <1>3, <2>1, BootNumbers DEF Sound, Roles
<1>6. PICK c \in Vmm : pml4[c] = cr3
  BY <1>1, <1>2 DEF TablesSound
<1>7. cr3 # f /\ cr3 \in Frame
  <2>1. cr3 \in Frame /\ cr3 # NONE
    BY <1>2, BootNumbers DEF TypeOK
  <2>2. use[cr3] = 4
    BY <1>3, <1>6, <2>1 DEF Sound, Roles
  <2> QED
    BY <1>5, <2>1, <2>2
<1>8. Copy(mem, mem', cr3, f)
  BY <1>1, <1>2, <1>7, ConstructCopies
<1> HIDE DEF f
<1>9. \A o \in Vmm : pml4'[o] = IF o = v THEN f ELSE pml4[o]
  BY <1>1, <1>2 DEF TypeOK
<1>10. \A wa \in Pages : wa \in Va /\ wa[1] # DirectMap /\ wa[1] \in Index
  BY VirtualMemoryAssumption DEF Va
<1>11. ASSUME NEW o \in Vmm, NEW wa \in Pages, Walks(pml4, o, wa)
       PROVE  Mapped(mem', pml4[o], wa) = Mapped(mem, pml4[o], wa)
  BY <1>3, <1>5, <1>8, <1>11, CopyWalk
<1>12. ASSUME NEW o \in Vmm, pml4'[o] # NONE, NEW wa \in Pages, KernelHalf(wa[1])
       PROVE  Mapped(mem', pml4'[o], wa) = Mapped(mem, pml4[Kernel], wa)
  <2>1. Mapped(mem', pml4'[o], wa) = Mapped(mem', pml4'[Kernel], wa)
    BY <1>4, <1>10, <1>12, Shared
  <2>2. pml4'[Kernel] = pml4[Kernel] /\ Walks(pml4, Kernel, wa)
    BY <1>1, <1>9, <1>10 DEF Walks
  <2> QED
    BY <1>1, <1>11, <2>1, <2>2
<1>13. ASSUME NEW o \in Vmm, pml4[o] # NONE, NEW wa \in Pages, KernelHalf(wa[1])
       PROVE  Mapped(mem, pml4[o], wa) = Mapped(mem, pml4[Kernel], wa)
  BY <1>3, <1>10, <1>13, Shared
<1>14. ASSUME NEW o \in Vmm, o # v, NEW wa \in Pages
       PROVE  MapOf'[o][wa] = MapOf[o][wa]
  <2>1. pml4'[o] = pml4[o]
    BY <1>9, <1>14
  <2>2. Mapped(mem', pml4'[o], wa) = Mapped(mem, pml4[o], wa)
    <3>1. CASE pml4[o] = NONE
      BY <2>1, <3>1 DEF Mapped, Pt, Pd, Pdpt, Entry
    <3>2. CASE pml4[o] # NONE /\ KernelHalf(wa[1])
      BY <1>12, <1>13, <2>1, <3>2
    <3>3. CASE pml4[o] # NONE /\ ~KernelHalf(wa[1])
      <4>1. Walks(pml4, o, wa)
        BY <1>10, <3>3 DEF Walks
      <4> QED
        BY <1>11, <2>1, <4>1
    <3> QED
      BY <3>1, <3>2, <3>3
  <2> QED
    BY <2>2 DEF MapOf
<1>15. ASSUME NEW o \in Vmm, o # v PROVE MapOf'[o] = MapOf[o]
  BY <1>14, <1>15 DEF MapOf
<1>16. ASSUME NEW wa \in Pages, KernelHalf(wa[1]), NEW o \in Constructed
       PROVE  MapOf'[v][wa] = MapOf[o][wa]
  <2>1. o \in Vmm /\ pml4[o] # NONE /\ pml4'[v] # NONE
    BY <1>5, <1>9 DEF Constructed
  <2> QED
    BY <1>12, <1>13, <1>16, <2>1 DEF MapOf
<1>17. ASSUME NEW wa \in Pages, ~KernelHalf(wa[1]) PROVE MapOf'[v][wa] = NONE
  <2>1. mem'[f][wa[1]] = NONE
    BY <1>8, <1>10, <1>17 DEF Copy
  <2>2. Pdpt(mem', f, wa) = NONE
    BY <1>5, <2>1 DEF Pdpt, Entry
  <2>3. Mapped(mem', pml4'[v], wa) = NONE
    BY <1>9, <2>2 DEF Mapped, Pt, Pd, Entry
  <2> QED
    BY <2>3 DEF MapOf
<1>18. v \notin Constructed /\ Constructed' = Constructed \cup {v} /\ Constructed # {}
  BY <1>1, <1>5, <1>9 DEF Constructed
<1> QED
  BY <1>15, <1>16, <1>17, <1>18 DEF Abstract!Create, MapOf, KernelPages

\* While the tables are intact a step of them is one of the address spaces, or
\* changes nothing there.
LEMMA RefinesStep ==
  ASSUME NEW usable, usable \subseteq Usable, IInv(usable), [Next]_vars, intact'
  PROVE  Abstract!Next \/ UNCHANGED Abstract!vars
<1>1. IInv(usable)'
  BY InvStep
<1>2. CASE NewKernel
  BY <1>2, NewKernelRefines, VirtualMemoryAssumption DEF Abstract!Next
<1>3. ASSUME NEW v \in Vmm \ {Kernel}, New(v) PROVE Abstract!Next
  BY <1>1, <1>3, NewRefines DEF Abstract!Next
<1>4. ASSUME mem' = mem, pml4' = pml4 PROVE UNCHANGED Abstract!vars
  BY <1>4 DEF Abstract!vars, Constructed
<1>5. ASSUME NEW v \in Vmm, loadCr3(v) PROVE UNCHANGED Abstract!vars
  BY <1>4, <1>5 DEF loadCr3
<1>6. ASSUME NEW v \in Vmm, NEW va \in Pages, Call(v, va)
      PROVE  Abstract!Next \/ UNCHANGED Abstract!vars
  <2>1. CASE Mapped(mem, pml4[v], va) = NONE
    BY <1>1, <1>6, <2>1, AllocPageRefines DEF Call, Abstract!Next
  <2>2. CASE Mapped(mem, pml4[v], va) # NONE
    BY <1>4, <1>6, <2>2 DEF Call, freePage
  <2> QED
    BY <2>1, <2>2
<1>7. CASE unmapPage
  BY <1>7, UnmapPageRefines DEF Abstract!Next
<1>8. CASE ForgetTable
  BY <1>8 DEF ForgetTable, IInv, TablesSound
<1>9. CASE UNCHANGED vars
  BY <1>4, <1>9 DEF vars
<1> QED
  BY <1>2, <1>3, <1>5, <1>6, <1>7, <1>8, <1>9 DEF Next, Call

\* Until a table is put into frame 0 or given back the page tables implement
\* address spaces (module AddressSpaces): mapPage adds one page to one space,
\* or one of the kernel's to all, in a frame of its own, and unmapPage takes
\* away no other (VirtualMemoryManager.cpp:36-197).
THEOREM Refinement == Spec => ImplementsAddressSpaces
<1>1. Init => Abstract!Init
  BY DEF Init, InitWith, Abstract!Init, Constructed, Mapped, Pt, Pd, Pdpt, Entry
<1>2. IInv(Usable) /\ [Next]_vars => [intact' => Abstract!Next]_(Abstract!vars)
  BY RefinesStep
<1> QED
  BY <1>1, <1>2, Invariant, PTL DEF Spec, ImplementsAddressSpaces

-----------------------------------------------------------------------------
\* Every frame has one purpose

\* A map of one set onto another that takes no value twice.
LEMMA SameSize ==
  ASSUME NEW S, NEW T, IsFiniteSet(S), NEW h \in [S -> T],
         \A x, y \in S : h[x] = h[y] => x = y, \A z \in T : \E x \in S : h[x] = z
  PROVE  Cardinality(S) = Cardinality(T)
<1>1. h \in Bijection(S, T)
  BY Fun_IsBij
<1>2. ExistsBijection(S, T)
  BY <1>1 DEF ExistsBijection
<1> QED
  BY <1>2, FS_Bijection

\* The frames of a use, and the entries of their own of the tables of a level.
UsedFor(use, k) == {f \in Frame : use[f] = k}
OwnOf(use, k) ==
  {e \in Frame \X Index : use[e[1]] = k /\ Own(mem, pml4, use, e[1], e[2])}

\* The entries of a level name the frames of the next.
LEMMA NamedByLevel ==
  ASSUME NEW use \in [Frame -> Uses], Tree(mem, pml4, use), mem \in [Frame -> Table],
         NEW k \in 1 .. 4
  PROVE  Named(OwnOf(use, k)) = UsedFor(use, k - 1)
<1>1. ASSUME NEW t \in Frame, NEW i \in Index, use[t] = k, Own(mem, pml4, use, t, i)
      PROVE  mem[t][i] \in UsedFor(use, k - 1)
  <2>1. use[mem[t][i]] = k - 1
    BY <1>1 DEF Tree
  <2>2. mem[t][i] \in Frame
    BY <1>1 DEF Own, Table
  <2> QED
    BY <2>1, <2>2 DEF UsedFor
<1>2. ASSUME NEW f \in UsedFor(use, k - 1)
      PROVE  \E t \in Frame, i \in Index :
               use[t] = k /\ Own(mem, pml4, use, t, i) /\ mem[t][i] = f
  <2>1. f \in Frame /\ use[f] = k - 1 /\ use[f] \in 0 .. 3
    BY DEF UsedFor
  <2>2. PICK t \in Frame, i \in Index : Own(mem, pml4, use, t, i) /\ mem[t][i] = f
    BY <2>1 DEF Tree
  <2>3. use[f] = use[t] - 1 /\ use[t] \in Int
    BY <2>2 DEF Tree, Uses
  <2> QED
    BY <2>1, <2>2, <2>3
<1>3. ASSUME NEW f \in Named(OwnOf(use, k)) PROVE f \in UsedFor(use, k - 1)
  BY <1>1 DEF Named, OwnOf
<1>4. ASSUME NEW f \in UsedFor(use, k - 1) PROVE f \in Named(OwnOf(use, k))
  <2>1. PICK t \in Frame, i \in Index :
          use[t] = k /\ Own(mem, pml4, use, t, i) /\ mem[t][i] = f
    BY <1>2
  <2>2. << t, i >> \in OwnOf(use, k)
    BY <2>1 DEF OwnOf
  <2> QED
    BY <2>1, <2>2 DEF Named
<1> QED
  BY <1>3, <1>4

\* What the specification collects level by level are the entries of their own.
LEMMA EntriesByLevel ==
  ASSUME NEW F, NEW usable, NEW use, Sound(mem, pml4, F, usable, use)
  PROVE  /\ Roots = UsedFor(use, 4) /\ TopEntries = OwnOf(use, 4)
         /\ PdptEntries = OwnOf(use, 3) /\ PdEntries = OwnOf(use, 2) /\ PtEntries = OwnOf(use, 1)
<1>1. /\ use \in [Frame -> Uses] /\ mem \in [Frame -> Table] /\ Tree(mem, pml4, use)
      /\ pml4 \in [Vmm -> Frame \cup {NONE}]
      /\ \A f \in Frame : use[f] = 4 <=> \E v \in Vmm : pml4[v] = f
  BY DEF Sound, Roles
<1>2. Roots = UsedFor(use, 4)
  <2>1. ASSUME NEW f \in Roots PROVE f \in UsedFor(use, 4)
    BY <1>1 DEF Roots, Constructed, UsedFor
  <2>2. ASSUME NEW f \in UsedFor(use, 4) PROVE f \in Roots
    <3>1. f \in Frame /\ f # NONE /\ use[f] = 4
      BY BootNumbers DEF UsedFor
    <3>2. PICK v \in Vmm : pml4[v] = f
      BY <1>1, <3>1
    <3> QED
      BY <3>1, <3>2 DEF Roots, Constructed
  <2> QED
    BY <2>1, <2>2
<1>3. TopEntries = OwnOf(use, 4)
  <2>1. TopEntries = {e \in UsedFor(use, 4) \X Index :
          /\ mem[e[1]][e[2]] # NONE /\ e[2] # DirectMap
          /\ KernelHalf(e[2]) => e[1] = pml4[Kernel]}
    BY <1>2 DEF TopEntries, Present
  <2>2. ASSUME NEW e \in Frame \X Index
        PROVE  (use[e[1]] = 4 /\ Own(mem, pml4, use, e[1], e[2])) <=>
                 /\ use[e[1]] = 4 /\ mem[e[1]][e[2]] # NONE /\ e[2] # DirectMap
                 /\ KernelHalf(e[2]) => e[1] = pml4[Kernel]
    BY DEF Own
  <2> QED
    BY <2>1, <2>2 DEF OwnOf, UsedFor
<1>4. ASSUME NEW k \in 1 .. 3 PROVE Present(UsedFor(use, k)) = OwnOf(use, k)
  <2>1. ASSUME NEW t \in Frame, NEW i \in Index, use[t] = k
        PROVE  Own(mem, pml4, use, t, i) <=> mem[t][i] # NONE
    BY <2>1 DEF Own
  <2> QED
    BY <2>1 DEF Present, OwnOf, UsedFor
<1>5. \A k \in 1 .. 4 : Named(OwnOf(use, k)) = UsedFor(use, k - 1)
  BY <1>1, NamedByLevel
<1>6. /\ Named(OwnOf(use, 4)) = UsedFor(use, 3) /\ Named(OwnOf(use, 3)) = UsedFor(use, 2)
      /\ Named(OwnOf(use, 2)) = UsedFor(use, 1)
  BY <1>5
<1>7. /\ Present(UsedFor(use, 3)) = OwnOf(use, 3) /\ Present(UsedFor(use, 2)) = OwnOf(use, 2)
      /\ Present(UsedFor(use, 1)) = OwnOf(use, 1)
  BY <1>4
<1> QED
  BY <1>2, <1>3, <1>6, <1>7 DEF PdptEntries, PdEntries, PtEntries

\* No two entries of their own name the same frame.
LEMMA AsManyNamed ==
  ASSUME NEW use, Tree(mem, pml4, use),
         NEW E, IsFiniteSet(E),
         \A e \in E : e \in Frame \X Index /\ Own(mem, pml4, use, e[1], e[2])
  PROVE  Cardinality(E) = Cardinality(Named(E))
<1> DEFINE h == [e \in E |-> mem[e[1]][e[2]]]
<1>1. h \in [E -> Named(E)] /\ \A z \in Named(E) : \E x \in E : h[x] = z
  BY DEF Named
<1>2. ASSUME NEW x \in E, NEW y \in E, h[x] = h[y] PROVE x = y
  <2>1. mem[x[1]][x[2]] = mem[y[1]][y[2]]
    BY <1>2
  <2>2. /\ x \in Frame \X Index /\ Own(mem, pml4, use, x[1], x[2])
        /\ y \in Frame \X Index /\ Own(mem, pml4, use, y[1], y[2])
    OBVIOUS
  <2>3. x[1] = y[1] /\ x[2] = y[2]
    BY <2>1, <2>2 DEF Tree
  <2> QED
    BY <2>2, <2>3
<1> HIDE DEF h
<1> QED
  BY <1>1, <1>2, SameSize

LEMMA DisjointUnion ==
  ASSUME NEW S, IsFiniteSet(S), NEW T, IsFiniteSet(T), S \cap T = {}
  PROVE  IsFiniteSet(S \cup T) /\ Cardinality(S \cup T) = Cardinality(S) + Cardinality(T)
<1>1. /\ IsFiniteSet(S \cup T)
      /\ Cardinality(S \cup T) = Cardinality(S) + Cardinality(T) - Cardinality(S \cap T)
  BY FS_Union
<1>2. Cardinality(S \cap T) = 0
  BY FS_EmptySet
<1>3. Cardinality(S) \in Nat /\ Cardinality(T) \in Nat
  BY FS_CardinalityType
<1> QED
  BY <1>1, <1>2, <1>3

\* Five purposes, each of a part of the usable frames.
Purposes(use, usable, used, roots, none, object) ==
  /\ use \in [Frame -> Uses] /\ usable \in SUBSET Frame /\ object \in Frame
  /\ \A f \in Frame : use[f] # -3 <=> f \in usable
  /\ \A f \in Frame : use[f] = -2 <=> f = object
  /\ used = {f \in Frame : use[f] \in 0 .. 3}
  /\ roots = UsedFor(use, 4) /\ none = UsedFor(use, -1)

LEMMA FivePurposes ==
  ASSUME NEW use, NEW usable, NEW used, NEW roots, NEW none, NEW object,
         Purposes(use, usable, used, roots, none, object)
  PROVE  /\ used \cup roots \cup none \cup {object} = usable
         /\ Cardinality(used) + Cardinality(roots) + Cardinality(none) + 1 = Cardinality(usable)
<1> USE DEF Purposes
<1>1. IsFiniteSet(Frame)
  BY FS_Interval, BootNumbers DEF Frame
<1>2. /\ used \in SUBSET Frame /\ roots \in SUBSET Frame /\ none \in SUBSET Frame
  BY DEF UsedFor
<1>3. /\ IsFiniteSet(used) /\ IsFiniteSet(roots) /\ IsFiniteSet(none) /\ IsFiniteSet({object})
      /\ Cardinality({object}) = 1
  BY <1>1, <1>2, FS_Subset, FS_Singleton
<1>4. used \cap roots = {} /\ (used \cup roots) \cap none = {}
      /\ (used \cup roots \cup none) \cap {object} = {}
  BY DEF UsedFor
<1>5. used \cup roots \cup none \cup {object} = usable
  <2>1. ASSUME NEW f \in Frame
        PROVE  f \in usable <=> f \in used \cup roots \cup none \cup {object}
    <3>1. use[f] \in -3 .. 4
      BY DEF Uses
    <3>2. use[f] # -3 <=> (use[f] \in 0 .. 3 \/ use[f] = 4 \/ use[f] = -1 \/ use[f] = -2)
      BY <3>1
    <3> QED
      BY <3>2 DEF UsedFor
  <2> QED
    BY <1>2, <2>1
<1>6. /\ IsFiniteSet(used \cup roots)
      /\ Cardinality(used \cup roots) = Cardinality(used) + Cardinality(roots)
  BY <1>3, <1>4, DisjointUnion
<1>7. /\ IsFiniteSet(used \cup roots \cup none)
      /\ Cardinality(used \cup roots \cup none)
           = Cardinality(used \cup roots) + Cardinality(none)
  BY <1>3, <1>4, <1>6, DisjointUnion
<1>8. Cardinality(used \cup roots \cup none \cup {object})
        = Cardinality(used \cup roots \cup none) + 1
  BY <1>3, <1>4, <1>7, DisjointUnion
<1>9. /\ Cardinality(used) \in Nat /\ Cardinality(roots) \in Nat /\ Cardinality(none) \in Nat
  BY <1>3, FS_CardinalityType
<1> QED
  BY <1>5, <1>6, <1>7, <1>8, <1>9

\* The sum over all purposes, in every state between calls.
LEMMA PurposeOf ==
  ASSUME NEW usable, IInv(usable)
  PROVE  OnePurpose(usable)
<1> SUFFICES ASSUME intact, Returned, Constructed # {}
             PROVE  OnePurpose(usable)
  BY DEF OnePurpose
<1>1. PICK use \in [Frame -> Uses] : Sound(mem, pml4, free, usable, use)
  BY DEF IInv, TablesSound, Kept, Returned
<1>2. pml4[Kernel] # NONE
  BY <1>1, KernelFirst DEF Constructed
<1>3. /\ Tree(mem, pml4, use) /\ mem \in [Frame -> Table] /\ usable \in SUBSET Frame
      /\ free \in SUBSET Frame /\ usable \in SUBSET Usable
  BY <1>1, BootNumbers DEF Sound, Usable, Frame
<1>4. /\ \A f \in Frame : use[f] # -3 <=> f \in usable
      /\ \A f \in Frame : use[f] = -2 <=> f = FrameOf(usable)
      /\ free = UsedFor(use, -1) /\ FrameOf(usable) \in Frame
  BY <1>1, <1>2, <1>3, LowestFrame DEF Sound, Roles, UsedFor
<1> DEFINE entries == TopEntries \cup PdptEntries \cup PdEntries \cup PtEntries
           used == {f \in Frame : use[f] \in 0 .. 3}
<1>5. /\ Roots = UsedFor(use, 4) /\ TopEntries = OwnOf(use, 4)
      /\ PdptEntries = OwnOf(use, 3) /\ PdEntries = OwnOf(use, 2) /\ PtEntries = OwnOf(use, 1)
  BY <1>1, EntriesByLevel
<1>6. Named(entries) = used
  <2>1. /\ Named(TopEntries) = UsedFor(use, 3) /\ Named(PdptEntries) = UsedFor(use, 2)
        /\ Named(PdEntries) = UsedFor(use, 1) /\ Named(PtEntries) = UsedFor(use, 0)
    <3>1. \A k \in 1 .. 4 : Named(OwnOf(use, k)) = UsedFor(use, k - 1)
      BY <1>3, NamedByLevel
    <3> QED
      BY <1>5, <3>1
  <2>2. Named(entries) = Named(TopEntries) \cup Named(PdptEntries) \cup Named(PdEntries)
                           \cup Named(PtEntries)
    BY DEF Named
  <2>3. used = UsedFor(use, 3) \cup UsedFor(use, 2) \cup UsedFor(use, 1) \cup UsedFor(use, 0)
    BY DEF UsedFor
  <2> QED
    BY <2>1, <2>2, <2>3
<1>7. Cardinality(entries) = Cardinality(Named(entries))
  <2>1. \A e \in entries : e \in Frame \X Index /\ Own(mem, pml4, use, e[1], e[2])
    BY <1>5 DEF OwnOf
  <2>2. IsFiniteSet(Frame \X Index)
    <3>1. IsFiniteSet(Frame) /\ IsFiniteSet(Index)
      BY FS_Interval, BootNumbers DEF Frame, Index
    <3> QED
      BY <3>1, FS_Product
  <2>3. entries \in SUBSET (Frame \X Index)
    BY <2>1
  <2>4. IsFiniteSet(entries)
    BY <2>2, <2>3, FS_Subset
  <2> HIDE DEF entries
  <2> QED
    BY <1>3, <2>1, <2>4, AsManyNamed
<1>8. /\ used \cup Roots \cup free \cup {FrameOf(usable)} = usable
      /\ Cardinality(used) + Cardinality(Roots) + Cardinality(free) + 1 = Cardinality(usable)
  <2> HIDE DEF entries
  <2>1. used = {f \in Frame : use[f] \in 0 .. 3}
    OBVIOUS
  <2> HIDE DEF used
  <2>2. /\ use \in [Frame -> Uses] /\ usable \in SUBSET Frame /\ FrameOf(usable) \in Frame
        /\ \A f \in Frame : use[f] # -3 <=> f \in usable
        /\ \A f \in Frame : use[f] = -2 <=> f = FrameOf(usable)
    BY <1>3, <1>4
  <2>3. Roots = UsedFor(use, 4) /\ free = UsedFor(use, -1)
    BY <1>4, <1>5
  <2>4. Purposes(use, usable, used, Roots, free, FrameOf(usable))
    BY <2>1, <2>2, <2>3 DEF Purposes
  <2> QED
    BY <2>4, FivePurposes
<1> HIDE DEF used, entries
<1> QED
  BY <1>4, <1>5, <1>6, <1>7, <1>8 DEF OnePurpose, entries

\* Every usable frame is free, a table that one entry names, a page that one
\* entry maps, or the kernel's object, whatever was mapped and freed before
\* (VirtualMemoryManager.cpp:36-90, 183-197).
THEOREM FramesHaveOnePurpose == Spec => []EveryFrameOnePurpose
<1>1. IInv(Usable) => EveryFrameOnePurpose
  BY PurposeOf DEF EveryFrameOnePurpose
<1> QED
  BY <1>1, Invariant, PTL

-----------------------------------------------------------------------------
\* What the heap relies on

\* The pages of the kernel's half that are mapped, all of them the heap's.
HeapMapped == {va \in Pages : KernelHalf(va[1]) /\ Mapped(mem, pml4[Kernel], va) # NONE}

\* Whichever table the CPU uses, the heap's pages are what they are in the
\* kernel's.
LEMMA HeapPagesEverywhere ==
  ASSUME NEW usable, IInv(usable), intact, pml4[Kernel] # NONE,
         NEW va \in Pages, KernelHalf(va[1]), NEW root \in Roots \cup {cr3}
  PROVE  Mapped(mem, root, va) = Mapped(mem, pml4[Kernel], va)
<1>1. PICK use \in [Frame -> Uses] : Sound(mem, pml4, Kept, usable, use)
  BY DEF IInv, TablesSound
<1>2. PICK v \in Vmm : pml4[v] = root
  BY DEF IInv, TablesSound, Roots, Constructed
<1>3. root # NONE
  BY BootNumbers DEF Roots, Constructed, IInv, TypeOK
<1>4. va \in Va
  BY VirtualMemoryAssumption
<1> QED
  BY <1>1, <1>2, <1>3, <1>4, Shared

\* allocPage maps one more.
LEMMA HeapPageMapped ==
  ASSUME NEW usable, usable \subseteq Usable, IInv(usable), pml4[Kernel] # NONE,
         NEW va \in Pages, KernelHalf(va[1]), va \notin HeapMapped,
         allocPage(Kernel, va), intact'
  PROVE  HeapMapped' = HeapMapped \cup {va} /\ unmapping' = NONE /\ pml4' = pml4
<1>1. Mapped(mem, pml4[Kernel], va) = NONE /\ Kernel \in Vmm
  BY VirtualMemoryAssumption DEF HeapMapped
<1>2. May(Kernel, va)
  BY DEF May
<1>3. [Next]_vars
  BY <1>1, <1>2 DEF Next
<1>4. IInv(usable)'
  BY <1>3, InvStep
<1>5. unmapping' = NONE /\ pml4' = pml4
  BY DEF allocPage, MayCall, Returned
<1>6. /\ FrameOf(free) \in free
      /\ \A wa \in Va : Walks(pml4, Kernel, wa) =>
           Mapped(mem', pml4[Kernel], wa) =
             IF wa = va THEN FrameOf(free) ELSE Mapped(mem, pml4[Kernel], wa)
  BY <1>1, <1>2, <1>4, AllocPageMaps
<1>7. FrameOf(free) # NONE
  BY <1>6, BootNumbers DEF IInv, TypeOK
<1>8. \A wa \in Pages : wa \in Va /\ Walks(pml4, Kernel, wa)
  BY MayWalk, VirtualMemoryAssumption
<1> QED
  BY <1>1, <1>5, <1>6, <1>7, <1>8 DEF HeapMapped

\* unmapPage takes away the one it was called for.
LEMMA HeapPageUnmapped ==
  ASSUME NEW usable, usable \subseteq Usable, IInv(usable), unmapPage, intact',
         NEW va, unmapping = << Kernel, va >>
  PROVE  HeapMapped' = HeapMapped \ {va} /\ unmapping' = NONE /\ pml4' = pml4
<1>1. /\ pml4' = pml4 /\ Pending /\ Kernel \in Vmm
      /\ Mapped(mem', pml4[Kernel], va) = NONE
      /\ \A wa \in Va : Walks(pml4, Kernel, wa) /\ wa # va =>
           Mapped(mem, pml4[Kernel], wa) = Mapped(mem', pml4[Kernel], wa)
  BY UnmapPageClears, VirtualMemoryAssumption
<1>2. pml4[Kernel] # NONE
  BY <1>1 DEF Pending, May
<1>3. \A wa \in Pages : wa \in Va /\ Walks(pml4, Kernel, wa)
  BY <1>2, MayWalk, VirtualMemoryAssumption
<1>4. unmapping' = NONE
  BY DEF unmapPage
<1> QED
  BY <1>1, <1>3, <1>4 DEF HeapMapped

\* Another address space changes nothing ...
LEMMA HeapPagesKept ==
  ASSUME NEW usable, usable \subseteq Usable, IInv(usable), intact',
         NEW v \in Vmm \ {Kernel}, New(v)
  PROVE  HeapMapped' = HeapMapped /\ pml4'[Kernel] = pml4[Kernel] /\ unmapping' = NONE
<1>1. IInv(usable)'
  BY InvStep DEF Next
<1>2. Abstract!Create(v)
  BY <1>1, NewRefines
<1>3. Kernel \in Vmm
  BY VirtualMemoryAssumption
<1>4. \A va \in Pages : Mapped(mem', pml4'[Kernel], va) = Mapped(mem, pml4[Kernel], va)
  <2>1. MapOf'[Kernel] = MapOf[Kernel]
    BY <1>2, <1>3 DEF Abstract!Create, MapOf
  <2> QED
    BY <1>3, <2>1 DEF MapOf
<1>5. pml4'[Kernel] = pml4[Kernel] /\ unmapping' = NONE
  BY <1>3 DEF New, Construct, MayCall, Returned, IInv, TypeOK
<1> QED
  BY <1>4, <1>5 DEF HeapMapped

\* ... and the kernel's begins without any.
LEMMA NoHeapPages ==
  ASSUME NEW usable, usable \subseteq Usable, IInv(usable), NewKernel, intact'
  PROVE  HeapMapped' = {} /\ unmapping' = NONE
<1>1. Abstract!Create(Kernel)
  BY NewKernelRefines
<1>2. /\ Kernel \in Vmm /\ pml4[Kernel] = NONE /\ unmapping' = NONE
      /\ TablesSound(usable)
  BY VirtualMemoryAssumption DEF NewKernel, Construct, MayCall, Returned, IInv
<1>3. \A v \in Vmm : pml4[v] = NONE
  BY <1>2, KernelFirst DEF TablesSound
<1>4. MapOf' = MapOf
  BY <1>1, <1>3 DEF Abstract!Create, MapOf, Constructed
<1>5. \A va \in Pages : MapOf[Kernel][va] = NONE
  BY <1>2 DEF MapOf, Mapped, Pt, Pd, Pdpt, Entry
<1>6. \A va \in Pages : Mapped(mem', pml4'[Kernel], va) = NONE
  BY <1>2, <1>4, <1>5 DEF MapOf
<1> QED
  BY <1>2, <1>6 DEF HeapMapped
=============================================================================
