-------------------------------- MODULE Kstd --------------------------------
(***************************************************************************)
(* Kstd::memset and Kstd::memcpy (Kstd.cpp), one store per step: memset    *)
(* stores bytes up to a border of words, then words of eight bytes, then   *)
(* bytes; memcpy words and bytes.                                          *)
(*                                                                         *)
(* memcpy is called with ranges that do not overlap.  A word is the        *)
(* function from 0 .. 7 to its bytes, the lowest first.                    *)
(***************************************************************************)
EXTENDS Integers

CONSTANTS
  Addresses,   \* addresses of the memory there is
  Counts,      \* arguments count and size
  Values       \* second argument of memset, an int

Arguments == Addresses \subseteq Nat /\ Counts \subseteq Nat /\ Values \subseteq Int

Byte == 0 .. 255
Cells(p, n) == p .. p + n - 1

VARIABLES
  call,        \* the function and its arguments
  memory,
  before,      \* history: memory when the function was called
  d, s,        \* its pointers; memset has no source
  count,       \* what is left
  phase        \* the loop it is in

vars == << call, memory, before, d, s, count, phase >>

Calls ==
  [f : {"memset"}, dest : Addresses, c : Values, count : Counts] \cup
  [f : {"memcpy"}, dest : Addresses, src : Addresses, count : Counts]

\* The ranges are in memory, and those of memcpy do not overlap.
Allowed(k) ==
  /\ Cells(k.dest, k.count) \subseteq Addresses
  /\ k.f = "memcpy" => /\ Cells(k.src, k.count) \subseteq Addresses
                       /\ \/ k.dest + k.count <= k.src
                          \/ k.src + k.count <= k.dest

-----------------------------------------------------------------------------
\* static_cast<uint8_t>(c)
val == call.c % 256

\* (w << 8 * n) | w, where no bit is set in both.
Twice(w, n) ==
  [i \in 0 .. 7 |-> IF i < n \/ w[i] # 0 THEN w[i] ELSE w[i - n]]

val64 == Twice(Twice(Twice([i \in 0 .. 7 |-> IF i = 0 THEN val ELSE 0], 1), 2), 4)

\* What is stored n bytes on.
ByteAt(n) == IF call.f = "memset" THEN val ELSE memory[s + n]
WordByte(n) == IF call.f = "memset" THEN val64[n] ELSE memory[s + n]

Aligned == call.f = "memcpy" \/ count = 0 \/ d % 8 = 0

StoreByte ==
  /\ \/ phase = "head" /\ ~Aligned
     \/ phase = "tail" /\ count > 0
  /\ memory' = [memory EXCEPT ![d] = ByteAt(0)]
  /\ d' = d + 1 /\ s' = s + 1 /\ count' = count - 1
  /\ UNCHANGED << call, before, phase >>

StoreWord ==
  /\ phase = "words"
  /\ count >= 8
  /\ memory' = [a \in Addresses |->
                  IF a \in Cells(d, 8) THEN WordByte(a - d) ELSE memory[a]]
  /\ d' = d + 8 /\ s' = s + 8 /\ count' = count - 8
  /\ UNCHANGED << call, before, phase >>

NextLoop ==
  /\ \/ phase = "head" /\ Aligned /\ phase' = "words"
     \/ phase = "words" /\ count < 8 /\ phase' = "tail"
  /\ UNCHANGED << call, memory, before, d, s, count >>

Init ==
  /\ call \in {k \in Calls : Allowed(k)}
  /\ memory \in [Addresses -> Byte]
  /\ before = memory
  /\ d = call.dest
  /\ s = IF call.f = "memcpy" THEN call.src ELSE 0
  /\ count = call.count
  /\ phase = "head"

Next == StoreByte \/ StoreWord \/ NextLoop

Spec == Init /\ [][Next]_vars

Returned == phase = "tail" /\ count = 0

-----------------------------------------------------------------------------
\* The byte the call is to leave at an address.
Wanted(a) ==
  IF a \notin Cells(call.dest, call.count) THEN before[a]
  ELSE IF call.f = "memset" THEN call.c % 256
  ELSE before[call.src + (a - call.dest)]

\* Nothing but the destination is ever written, nothing in it but what is
\* wanted there, and when the function returns all of it (Kstd.cpp:5-53).
StoresExactly ==
  /\ \A a \in Addresses : memory[a] \in {before[a], Wanted(a)}
  /\ Returned => \A a \in Addresses : memory[a] = Wanted(a)

\* memset stores whole words at borders of words only (Kstd.cpp:9-12).
WordsAligned == [][StoreWord /\ call.f = "memset" => d % 8 = 0]_vars

=============================================================================
