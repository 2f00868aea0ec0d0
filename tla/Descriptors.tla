----------------------------- MODULE Descriptors -----------------------------
(***************************************************************************)
(* The structures the kernel and the CPU share: how Gdt.cpp and Idt.cpp    *)
(* fill them, byte by byte as the packed structs lie in memory, and how    *)
(* the CPU reads them.  A number of more than 24 bits is the sequence of   *)
(* its bytes, the lowest first.                                            *)
(***************************************************************************)
EXTENDS Integers, Sequences

Empty == <<0, 0, 0, 0, 0, 0, 0, 0>>

-----------------------------------------------------------------------------
\* What the kernel writes

SegmentDescriptor(access, flags) == <<255, 255, 0, 0, 0, access, ((flags * 16) % 256) + 15, 0>>

setEntry(table, index, access, flags) == [table EXCEPT ![index] = SegmentDescriptor(access, flags)]

\* limitLow, baseLow, baseMiddle0, access, flagsAndLimitHigh, baseMiddle1
SystemEntryStart(base, limit, access, flags) ==
    <<limit % 256, (limit \div 256) % 256, base[1], base[2], base[3], access,
      ((flags * 16) % 256) + ((limit \div 65536) % 16), base[4]>>

\* Slip: the upper half of the address is left out.
SystemEntryLow(base, limit, access, flags) == <<SystemEntryStart(base, limit, access, flags), Empty>>

\* A system descriptor takes two entries of the table; baseHigh and reserved
\* are the second.
SystemEntry(base, limit, access, flags) ==
    <<SystemEntryStart(base, limit, access, flags), <<base[5], base[6], base[7], base[8], 0, 0, 0, 0>>>>

setSystemEntry(table, index, base, limit, access, flags) ==
    LET entry == SystemEntry(base, limit, access, flags)
    IN  [table EXCEPT ![index] = entry[1], ![index + 1] = entry[2]]

\* What setIdtEntry makes of an entry.  Every handler is in the kernel's code.
Gate(offset, ist, type_attribute) ==
    <<offset[1], offset[2], 8, 0, ist, type_attribute, offset[3], offset[4],
      offset[5], offset[6], offset[7], offset[8], 0, 0, 0, 0>>

\* The members of the task state segment, and the byte each starts at
TSS == [reserved0 |-> 0, rsp0 |-> 4, rsp1 |-> 12, rsp2 |-> 20, reserved1 |-> 28,
        ist0 |-> 36, ist1 |-> 44, ist2 |-> 52, ist3 |-> 60, ist4 |-> 68, ist5 |-> 76,
        ist6 |-> 84, reserved2 |-> 92, reserved3 |-> 100, iopb |-> 102]
SizeOfTSS == 104

-----------------------------------------------------------------------------
\* What the CPU reads

Present(descriptor) == descriptor[6] >= 128
Dpl(descriptor) == (descriptor[6] \div 32) % 4
IsSystem(descriptor) == (descriptor[6] \div 16) % 2 = 0
Type(descriptor) == descriptor[6] % 16
Long(descriptor) == (descriptor[7] \div 32) % 2 = 1
Rpl(selector) == selector % 4

IsCode(descriptor) == Present(descriptor) /\ ~IsSystem(descriptor) /\ Type(descriptor) >= 8 /\ Long(descriptor)
IsStack(descriptor) == Present(descriptor) /\ ~IsSystem(descriptor) /\ Type(descriptor) \in {2, 3, 6, 7}
IsFreeTask(descriptor) == Present(descriptor) /\ IsSystem(descriptor) /\ Type(descriptor) = 9
Busy(descriptor) == [descriptor EXCEPT ![6] = @ + 2]
BaseOf(first, second) ==
    <<first[3], first[4], first[5], first[8], second[1], second[2], second[3], second[4]>>

IsGate(entry) == Present(entry) /\ Type(entry) \in {14, 15}
ClearsInterrupts(entry) == Type(entry) = 14
Handler(entry) ==
    <<entry[1], entry[2], entry[7], entry[8], entry[9], entry[10], entry[11], entry[12]>>
Selector(entry) == entry[3] + 256 * entry[4]
Ist(entry) == entry[5] % 8

\* The places in the task state segment where the CPU looks for stacks
MemberAt(offset) == CHOOSE member \in DOMAIN TSS : TSS[member] = offset
Rsp0 == 4
IstAt(n) == 36 + 8 * (n - 1)
=============================================================================
