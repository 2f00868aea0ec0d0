------------------------------ MODULE Ramdisk ------------------------------
(***************************************************************************)
(* UstarParser.cpp, by which Ramdisk.cpp finds a file in the boot module:  *)
(* readFile and getFileSize walk the headers of a tar archive, each told   *)
(* from the last by the size it states in octal digits (Kstd.cpp).         *)
(*                                                                         *)
(* Abstracted: a name is a value, "" the empty one (Kstd::strcmp compares  *)
(* names); of a block only the two fields are there that are read when it  *)
(* is taken for a header, be it one or zeros or contents of a file.        *)
(***************************************************************************)
EXTENDS Integers, Sequences

CONSTANTS
  NULL,        \* nullptr
  RUNNING,     \* no result yet
  Files,       \* the archives there may be: sequences of [name, size, looks],
               \* looks being what the blocks of the contents look like
  Names        \* what is asked for

BLOCK_SIZE == 512

\* At k: n without its last k octal digits.
Shifted(n) ==
  LET shifted[k \in 0 .. 11] == IF k = 0 THEN n ELSE shifted[k - 1] \div 8
  IN  shifted

\* Files have names, and sizes that the eleven digits of a header can state.
ASSUME RamdiskAssumption ==
  /\ NULL \notin Nat /\ RUNNING \notin Nat \cup {NULL}
  /\ \A fs \in Files :
       /\ fs \in Seq({fs[i] : i \in DOMAIN fs})
       /\ \A i \in DOMAIN fs :
            fs[i].name # "" /\ fs[i].size \in Nat /\ Shifted(fs[i].size)[11] = 0

VARIABLES
  files,            \* what is in the archive
  archive,          \* its blocks
  op,               \* the function called
  fileName,         \* its argument
  currentAddress,   \* offset from the start of the archive
  result            \* the offset or size returned

vars == << files, archive, op, fileName, currentAddress, result >>

-----------------------------------------------------------------------------
\* The archive as tar writes it: the size in octal, padded with zeros to
\* eleven digits and ended by NUL; whole blocks; two of zeros at the end.
NUL == -1
OctalDigits(n) == [i \in 1 .. 12 |-> IF i = 12 THEN NUL ELSE Shifted(n)[11 - i] % 8]
Header(file) == [name |-> file.name, size |-> OctalDigits(file.size)]
Zeros == [name |-> "", size |-> << NUL >>]
BlocksOf(n) == (n + BLOCK_SIZE - 1) \div BLOCK_SIZE
Blocks(file) ==
  [i \in 1 .. 1 + BlocksOf(file.size) |-> IF i = 1 THEN Header(file) ELSE file.looks]
Archive(fs) ==
  LET upTo[n \in 0 .. Len(fs)] ==
        IF n = 0 THEN << >> ELSE upTo[n - 1] \o Blocks(fs[n])
  IN  upTo[Len(fs)] \o << Zeros, Zeros >>

-----------------------------------------------------------------------------
\* The first n characters of str as a number.
Number(str, n, base) ==
  LET value[i \in 0 .. n] == IF i = 0 THEN 0 ELSE base * value[i - 1] + str[i]
  IN  value[n]

\* Slip: the digits are taken for decimal ones.
strToUint64Decimal(str, base) == Number(str, Len(str) - 1, 10)

\* Kstd::strToUint64: the digits before the first character that is none.
strToUint64(str, base) ==
  Number(str, CHOOSE n \in 0 .. Len(str) :
                /\ \A i \in 1 .. n : str[i] \in 0 .. base - 1
                /\ n < Len(str) => str[n + 1] \notin 0 .. base - 1,
         base)

\* Slip: files are taken to end in the block they fill.
Unaligned(value) == value
ALIGN_UP(value) == BLOCK_SIZE * ((value + BLOCK_SIZE - 1) \div BLOCK_SIZE)

\* Slip: the header is not skipped with its contents.
ContentsHere(address) == address
ContentsAt(address) == address + BLOCK_SIZE

BlockAt(address) == archive[address \div BLOCK_SIZE + 1]

\* Kstd::memcmp of two headers' length with zeros.
AtEnd(address) == BlockAt(address) = Zeros /\ BlockAt(address + BLOCK_SIZE) = Zeros

NotFound == IF op = "readFile" THEN NULL ELSE 0

\* The empty name is not looked for.
RefuseEmpty ==
  /\ result = RUNNING
  /\ fileName = ""
  /\ result' = NotFound
  /\ UNCHANGED << files, archive, op, fileName, currentAddress >>

StopAtEnd ==
  /\ result = RUNNING
  /\ fileName # ""
  /\ AtEnd(currentAddress)
  /\ result' = NotFound
  /\ UNCHANGED << files, archive, op, fileName, currentAddress >>

\* One turn of the loop: the header's file is the one, or is skipped.
VisitHeader ==
  /\ result = RUNNING
  /\ fileName # ""
  /\ ~AtEnd(currentAddress)
  /\ LET header   == BlockAt(currentAddress)
         contents == ContentsAt(currentAddress)
         fileSize == strToUint64(header.size, 8)
     IN  IF header.name = fileName
           THEN /\ currentAddress' = contents
                /\ result' = IF op = "readFile" THEN contents ELSE fileSize
           ELSE /\ currentAddress' = contents + ALIGN_UP(fileSize)
                /\ UNCHANGED result
  /\ UNCHANGED << files, archive, op, fileName >>

\* A call of Ramdisk::readFile or Ramdisk::getFileSize.
Init ==
  /\ files \in Files
  /\ archive = Archive(files)
  /\ op \in {"readFile", "getFileSize"}
  /\ fileName \in Names
  /\ currentAddress = 0
  /\ result = RUNNING

\* The function has returned.
Done == result # RUNNING /\ UNCHANGED vars

Next == RefuseEmpty \/ StopAtEnd \/ VisitHeader \/ Done

\* Interrupts aside the loop runs on.
Spec == Init /\ [][Next]_vars /\ WF_vars(VisitHeader \/ StopAtEnd \/ RefuseEmpty)

-----------------------------------------------------------------------------
\* Where the headers of the files fs are, and the end, counted from the files.
HeaderAddress(fs) ==
  LET address[n \in 1 .. Len(fs) + 1] ==
        IF n = 1 THEN 0
        ELSE address[n - 1] + BLOCK_SIZE * (1 + BlocksOf(fs[n - 1].size))
  IN  address

\* The walk is always at a header or at the end, never in the contents of a
\* file, whatever they look like (UstarParser.cpp:19-29).
AtHeader ==
  result = RUNNING =>
    \E i \in 1 .. Len(files) + 1 : currentAddress = HeaderAddress(files)[i]

\* What is returned is the place, or the size, of the first file of the name.
FindsFirst ==
  result # RUNNING =>
    LET named == {i \in DOMAIN files : files[i].name = fileName}
    IN  IF named = {} THEN result = NotFound
        ELSE \E i \in named :
               /\ \A j \in named : i <= j
               /\ result = IF op = "readFile" THEN HeaderAddress(files)[i] + BLOCK_SIZE
                           ELSE files[i].size

\* Every search ends.
SearchEnds == <>(result # RUNNING)

=============================================================================
