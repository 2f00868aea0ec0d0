--------------------------- MODULE RamdiskProofs ---------------------------
(***************************************************************************)
(* Proofs about Ramdisk for all archives: the search is never but at a     *)
(* header or at the end, and what it finds is the first file of the name.  *)
(*                                                                         *)
(* The recursive functions of the model are taken by what they satisfy:    *)
(* that the digits of a size are read back, and where the archive's blocks *)
(* are, are inductions over numbers, made from a least counterexample.     *)
(*                                                                         *)
(* At the end, proofs about the functions of Kstd that store: for every    *)
(* memory, size, address and value they store what they should and nothing *)
(* else.                                                                   *)
(***************************************************************************)
EXTENDS Ramdisk, SequenceTheorems, WellFoundedInduction, TLAPS

\* A set of numbers that is not empty has a least one.
LEMMA Least ==
  ASSUME NEW T \in SUBSET Nat, T # {}
  PROVE  \E x \in T : x - 1 \notin T /\ \A y \in T : x <= y
<1> DEFINE Lt == {e \in Nat \X Nat : e[1] < e[2]}
<1>1. IsWellFoundedOn(Lt, Nat)
  BY NatLessThanWellFounded DEF OpToRel
<1>2. PICK x \in T : \A y \in T : << y, x >> \notin Lt
  BY <1>1, WFMin
<1>3. \A y \in T : ~(y < x)
  BY <1>2
<1>4. \A y \in T : x <= y
  BY <1>3
<1> QED
  BY <1>4

-----------------------------------------------------------------------------
\* Digits

IsShifted(f, n, m) == f = [k \in 0 .. m |-> IF k = 0 THEN n ELSE f[k - 1] \div 8]

LEMMA ShiftedExists ==
  ASSUME NEW n \in Nat, NEW m \in Nat
  PROVE  \E f : IsShifted(f, n, m)
<1> DEFINE T == {k \in Nat : ~\E f : IsShifted(f, n, k)}
<1> SUFFICES ASSUME T # {} PROVE FALSE
  OBVIOUS
<1>1. PICK m0 \in T : m0 - 1 \notin T
  BY Least
<1>2. CASE m0 = 0
  <2> DEFINE f == [k \in 0 .. 0 |-> n]
  <2>1. f = [k \in 0 .. 0 |-> IF k = 0 THEN n ELSE f[k - 1] \div 8]
    OBVIOUS
  <2> QED
    BY <1>1, <1>2, <2>1 DEF IsShifted
<1>3. CASE m0 # 0
  <2>1. m0 \in Nat /\ m0 - 1 \in Nat
    BY <1>3
  <2>2. PICK g : IsShifted(g, n, m0 - 1)
    BY <1>1, <2>1
  <2> DEFINE f == [k \in 0 .. m0 |-> IF k = m0 THEN g[m0 - 1] \div 8 ELSE g[k]]
  <2>3. \A k \in 0 .. m0 - 1 : g[k] = IF k = 0 THEN n ELSE g[k - 1] \div 8
    BY <2>2 DEF IsShifted
  <2>4. \A k \in 0 .. m0 : f[k] = IF k = 0 THEN n ELSE f[k - 1] \div 8
    BY <1>3, <2>1, <2>3
  <2>5. f = [k \in 0 .. m0 |-> IF k = 0 THEN n ELSE f[k - 1] \div 8]
    BY <2>4
  <2> QED
    BY <1>1, <2>5 DEF IsShifted
<1> QED
  BY <1>2, <1>3

LEMMA ShiftedIs ==
  ASSUME NEW n \in Nat
  PROVE  /\ Shifted(n)[0] = n
         /\ \A k \in 1 .. 11 : Shifted(n)[k] = Shifted(n)[k - 1] \div 8
         /\ \A k \in 0 .. 11 : Shifted(n)[k] \in Nat
<1> DEFINE S == CHOOSE f : f = [k \in 0 .. 11 |-> IF k = 0 THEN n ELSE f[k - 1] \div 8]
<1>1. Shifted(n) = S
  BY DEF Shifted
<1>2. \E f : f = [k \in 0 .. 11 |-> IF k = 0 THEN n ELSE f[k - 1] \div 8]
  <2>1. PICK f : IsShifted(f, n, 11)
    BY ShiftedExists
  <2> QED
    BY <2>1 DEF IsShifted
<1>3. S = [k \in 0 .. 11 |-> IF k = 0 THEN n ELSE S[k - 1] \div 8]
  BY <1>2
<1> HIDE DEF S
<1>4. \A k \in 0 .. 11 : S[k] = IF k = 0 THEN n ELSE S[k - 1] \div 8
  BY <1>3
<1> DEFINE T == {k \in Nat : k <= 11 /\ S[k] \notin Nat}
<1>5. T = {}
  <2> SUFFICES ASSUME T # {} PROVE FALSE
    OBVIOUS
  <2>1. PICK k \in T : k - 1 \notin T
    BY Least
  <2>2. k # 0 /\ k - 1 \in Nat
    BY <1>4, <2>1
  <2>3. S[k - 1] \in Nat
    BY <2>1, <2>2
  <2>4. S[k] = S[k - 1] \div 8
    BY <1>4, <2>1, <2>2
  <2> QED
    BY <2>1, <2>3, <2>4
<1> QED
  BY <1>1, <1>4, <1>5

\* What has been written in octal digits is read back: a header states the
\* size of its file.
LEMMA ReadsBack ==
  ASSUME NEW n \in Nat, Shifted(n)[11] = 0
  PROVE  strToUint64(OctalDigits(n), 8) = n
<1> DEFINE str == OctalDigits(n)
           digits(k) == /\ \A i \in 1 .. k : str[i] \in 0 .. 8 - 1
                        /\ k < Len(str) => str[k + 1] \notin 0 .. 8 - 1
           V == CHOOSE f : f = [i \in 0 .. 11 |-> IF i = 0 THEN 0 ELSE 8 * f[i - 1] + str[i]]
           W == [i \in 0 .. 11 |-> Shifted(n)[11 - i]]
<1>1. /\ \A i \in 1 .. 11 : str[i] = Shifted(n)[11 - i] % 8 /\ str[i] \in 0 .. 7
      /\ str[12] = -1 /\ Len(str) = 12
  <2>1. str = [i \in 1 .. 12 |-> IF i = 12 THEN -1 ELSE Shifted(n)[11 - i] % 8]
    BY DEF OctalDigits, NUL
  <2>2. ASSUME NEW i \in 1 .. 11 PROVE str[i] = Shifted(n)[11 - i] % 8 /\ str[i] \in 0 .. 7
    <3>1. 11 - i \in 0 .. 11 /\ Shifted(n)[11 - i] \in Nat
      BY ShiftedIs
    <3>2. str[i] = Shifted(n)[11 - i] % 8
      BY <2>1
    <3> HIDE DEF str
    <3> QED
      BY <3>1, <3>2
  <2>3. str[12] = -1 /\ Len(str) = 12
    BY <2>1
  <2> QED
    BY <2>2, <2>3
<1> HIDE DEF str
<1>2. \A k \in 0 .. 12 : digits(k) <=> k = 11
  <2>1. digits(11)
    BY <1>1
  <2>2. ASSUME NEW k \in 0 .. 12, digits(k) PROVE k = 11
    BY <1>1, <2>2
  <2> QED
    BY <2>1, <2>2
<1>3. (CHOOSE k \in 0 .. Len(str) : digits(k)) = 11
  <2>1. 11 \in 0 .. Len(str) /\ \A k \in 0 .. Len(str) : digits(k) <=> k = 11
    BY <1>1, <1>2
  <2> HIDE DEF digits
  <2> QED
    BY <2>1
<1>4. strToUint64(str, 8) = Number(str, 11, 8)
  <2>1. strToUint64(str, 8) = Number(str, CHOOSE k \in 0 .. Len(str) : digits(k), 8)
    BY DEF strToUint64
  <2> QED
    BY <1>3, <2>1
<1>5. Number(str, 11, 8) = V[11]
  BY DEF Number
<1>6. W = [i \in 0 .. 11 |-> IF i = 0 THEN 0 ELSE 8 * W[i - 1] + str[i]]
  <2>1. W[0] = 0
    OBVIOUS
  <2>2. ASSUME NEW i \in 1 .. 11 PROVE W[i] = 8 * W[i - 1] + str[i]
    <3>1. /\ W[i] = Shifted(n)[11 - i] /\ W[i - 1] = Shifted(n)[12 - i]
          /\ 11 - i \in 0 .. 11 /\ 12 - i \in 1 .. 11 /\ (12 - i) - 1 = 11 - i
      OBVIOUS
    <3>2. Shifted(n)[12 - i] = Shifted(n)[11 - i] \div 8 /\ Shifted(n)[11 - i] \in Nat
      BY <3>1, ShiftedIs
    <3>3. \A a \in Nat : 8 * (a \div 8) + (a % 8) = a
      OBVIOUS
    <3> QED
      BY <1>1, <3>1, <3>2, <3>3
  <2>3. \A i \in 0 .. 11 : W[i] = IF i = 0 THEN 0 ELSE 8 * W[i - 1] + str[i]
    BY <2>1, <2>2
  <2> QED
    BY <2>3
<1> HIDE DEF W
<1>7. V = [i \in 0 .. 11 |-> IF i = 0 THEN 0 ELSE 8 * V[i - 1] + str[i]]
  BY <1>6
<1> HIDE DEF V
<1> DEFINE T == {i \in Nat : i <= 11 /\ V[i] # W[i]}
<1>8. T = {}
  <2> SUFFICES ASSUME T # {} PROVE FALSE
    OBVIOUS
  <2>1. PICK i \in T : i - 1 \notin T
    BY Least
  <2>2. V[0] = W[0]
    BY <1>6, <1>7
  <2>3. i \in 1 .. 11 /\ V[i - 1] = W[i - 1]
    BY <2>1, <2>2
  <2>4. V[i] = 8 * V[i - 1] + str[i] /\ W[i] = 8 * W[i - 1] + str[i]
    BY <1>6, <1>7, <2>3
  <2> QED
    BY <2>1, <2>3, <2>4
<1>9. W[11] = n
  BY ShiftedIs DEF W
<1>10. V[11] = W[11]
  BY <1>8
<1> QED
  BY <1>4, <1>5, <1>9, <1>10 DEF str

-----------------------------------------------------------------------------
\* Where the blocks are

IsUpTo(f, fs, m) == f = [k \in 0 .. m |-> IF k = 0 THEN << >> ELSE f[k - 1] \o Blocks(fs[k])]

LEMMA UpToExists ==
  ASSUME NEW fs, NEW m \in Nat
  PROVE  \E f : IsUpTo(f, fs, m)
<1> DEFINE T == {k \in Nat : ~\E f : IsUpTo(f, fs, k)}
<1> SUFFICES ASSUME T # {} PROVE FALSE
  OBVIOUS
<1>1. PICK m0 \in T : m0 - 1 \notin T
  BY Least
<1>2. CASE m0 = 0
  <2> DEFINE f == [k \in 0 .. 0 |-> << >>]
  <2>1. f = [k \in 0 .. 0 |-> IF k = 0 THEN << >> ELSE f[k - 1] \o Blocks(fs[k])]
    OBVIOUS
  <2> QED
    BY <1>1, <1>2, <2>1 DEF IsUpTo
<1>3. CASE m0 # 0
  <2>1. m0 \in Nat /\ m0 - 1 \in Nat
    BY <1>3
  <2>2. PICK g : IsUpTo(g, fs, m0 - 1)
    BY <1>1, <2>1
  <2> DEFINE f == [k \in 0 .. m0 |-> IF k = m0 THEN g[m0 - 1] \o Blocks(fs[m0]) ELSE g[k]]
  <2>3. \A k \in 0 .. m0 - 1 : g[k] = IF k = 0 THEN << >> ELSE g[k - 1] \o Blocks(fs[k])
    BY <2>2 DEF IsUpTo
  <2>4. \A k \in 0 .. m0 : f[k] = IF k = 0 THEN << >> ELSE f[k - 1] \o Blocks(fs[k])
    BY <1>3, <2>1, <2>3
  <2>5. f = [k \in 0 .. m0 |-> IF k = 0 THEN << >> ELSE f[k - 1] \o Blocks(fs[k])]
    BY <2>4
  <2> QED
    BY <1>1, <2>5 DEF IsUpTo
<1> QED
  BY <1>2, <1>3

LEMMA Appended ==
  ASSUME NEW S, NEW p \in Seq(S), NEW t \in Seq(S), Len(t) > 0, NEW r, r = p \o t
  PROVE  /\ r \in Seq(S) /\ Len(r) = Len(p) + Len(t)
         /\ \A i \in 1 .. Len(p) : r[i] = p[i]
         /\ r[Len(p) + 1] = t[1]
<1>1. /\ p \o t \in Seq(S)
      /\ Len(p \o t) = Len(p) + Len(t)
      /\ \A i \in 1 .. Len(p) + Len(t) :
           (p \o t)[i] = IF i <= Len(p) THEN p[i] ELSE t[i - Len(p)]
  BY ConcatProperties
<1>2. Len(p) \in Nat /\ Len(t) \in Nat
  OBVIOUS
<1>3. \A i \in 1 .. Len(p) + Len(t) : r[i] = IF i <= Len(p) THEN p[i] ELSE t[i - Len(p)]
  BY <1>1
<1> QED
  BY <1>1, <1>2, <1>3

LEMMA BlocksAre == \A n \in Nat : BlocksOf(n) \in Nat
  BY DEF BlocksOf, BLOCK_SIZE

\* What the blocks of the archive are.
FileBlock(fs) == {Header(fs[i]) : i \in DOMAIN fs} \cup {fs[i].looks : i \in DOMAIN fs}

LEMMA FilesAre ==
  ASSUME NEW fs \in Files
  PROVE  /\ Len(fs) \in Nat /\ DOMAIN fs = 1 .. Len(fs)
         /\ \A i \in 1 .. Len(fs) :
              /\ fs[i].name # "" /\ fs[i].size \in Nat /\ Shifted(fs[i].size)[11] = 0
              /\ BlocksOf(fs[i].size) \in Nat
              /\ Blocks(fs[i]) \in Seq(FileBlock(fs))
              /\ Len(Blocks(fs[i])) = 1 + BlocksOf(fs[i].size)
              /\ Blocks(fs[i])[1] = Header(fs[i])
<1>1. fs \in Seq({fs[i] : i \in DOMAIN fs})
  BY RamdiskAssumption
<1>2. Len(fs) \in Nat /\ DOMAIN fs = 1 .. Len(fs)
  BY <1>1
<1>3. ASSUME NEW i \in 1 .. Len(fs)
      PROVE  /\ fs[i].name # "" /\ fs[i].size \in Nat /\ Shifted(fs[i].size)[11] = 0
             /\ BlocksOf(fs[i].size) \in Nat
             /\ Blocks(fs[i]) \in Seq(FileBlock(fs))
             /\ Len(Blocks(fs[i])) = 1 + BlocksOf(fs[i].size)
             /\ Blocks(fs[i])[1] = Header(fs[i])
  <2>1. fs[i].name # "" /\ fs[i].size \in Nat /\ Shifted(fs[i].size)[11] = 0
    BY <1>2, RamdiskAssumption
  <2>2. BlocksOf(fs[i].size) \in Nat
    BY <2>1, BlocksAre
  <2> DEFINE n == 1 + BlocksOf(fs[i].size)
  <2>3. Header(fs[i]) \in FileBlock(fs) /\ fs[i].looks \in FileBlock(fs)
    BY <1>2 DEF FileBlock
  <2>4. n \in Nat /\ n >= 1
    BY <2>2
  <2>5. Blocks(fs[i]) = [j \in 1 .. n |-> IF j = 1 THEN Header(fs[i]) ELSE fs[i].looks]
    BY DEF Blocks
  <2> HIDE DEF n
  <2>6. Blocks(fs[i]) \in [1 .. n -> FileBlock(fs)]
    BY <2>3, <2>5
  <2>7. Blocks(fs[i]) \in Seq(FileBlock(fs)) /\ Len(Blocks(fs[i])) = n
    BY <2>4, <2>5, <2>6
  <2>8. Blocks(fs[i])[1] = Header(fs[i])
    BY <2>4, <2>5
  <2> QED
    BY <2>1, <2>2, <2>7, <2>8 DEF n
<1> QED
  BY <1>2, <1>3

\* Before file i there are at[i] blocks; there begins its header, and after
\* the last one the end.
Laid(at) ==
  /\ at \in [1 .. Len(files) + 1 -> Nat]
  /\ at[1] = 0
  /\ \A i \in 1 .. Len(files) :
       /\ at[i + 1] = at[i] + (1 + BlocksOf(files[i].size))
       /\ archive[at[i] + 1] = Header(files[i])
  /\ archive[at[Len(files) + 1] + 1] = Zeros
  /\ archive[at[Len(files) + 1] + 2] = Zeros

LEMMA ArchiveLaid ==
  ASSUME files \in Files, archive = Archive(files)
  PROVE  \E at : Laid(at)
<1> DEFINE c == Len(files)
           B == FileBlock(files)
           U == CHOOSE f : f = [n \in 0 .. c |->
                  IF n = 0 THEN << >> ELSE f[n - 1] \o Blocks(files[n])]
<1>1. archive = U[c] \o << Zeros, Zeros >>
  BY DEF Archive
<1>2. /\ c \in Nat
      /\ \A i \in 1 .. c : /\ Blocks(files[i]) \in Seq(B)
                           /\ BlocksOf(files[i].size) \in Nat
                           /\ Len(Blocks(files[i])) = 1 + BlocksOf(files[i].size)
                           /\ Blocks(files[i])[1] = Header(files[i])
  BY FilesAre
<1>3. \E f : f = [n \in 0 .. c |-> IF n = 0 THEN << >> ELSE f[n - 1] \o Blocks(files[n])]
  BY <1>2, UpToExists DEF IsUpTo
<1>4. U = [n \in 0 .. c |-> IF n = 0 THEN << >> ELSE U[n - 1] \o Blocks(files[n])]
  BY <1>3
<1> HIDE DEF c, B, U
<1>5. U[0] = << >> /\ \A n \in 1 .. c : U[n] = U[n - 1] \o Blocks(files[n])
  <2>1. \A n \in 0 .. c : U[n] = IF n = 0 THEN << >> ELSE U[n - 1] \o Blocks(files[n])
    BY <1>4
  <2>2. 0 \in 0 .. c /\ \A n \in 1 .. c : n \in 0 .. c /\ n # 0
    BY <1>2
  <2> QED
    BY <2>1, <2>2
<1>6. \A n \in 0 .. c : U[n] \in Seq(B)
  <2> DEFINE T == {n \in Nat : n <= c /\ U[n] \notin Seq(B)}
  <2> SUFFICES ASSUME T # {} PROVE FALSE
    BY <1>2
  <2>1. PICK n \in T : n - 1 \notin T
    BY Least
  <2>2. U[0] \in Seq(B)
    BY <1>5
  <2>3. n \in 1 .. c /\ U[n - 1] \in Seq(B)
    BY <1>2, <2>1, <2>2
  <2>4. U[n] \in Seq(B)
    BY <1>2, <1>5, <2>3, ConcatProperties
  <2> QED
    BY <2>1, <2>4
<1>7. ASSUME NEW n \in 1 .. c
      PROVE  /\ Len(U[n]) = Len(U[n - 1]) + (1 + BlocksOf(files[n].size))
             /\ \A i \in 1 .. Len(U[n - 1]) : U[n][i] = U[n - 1][i]
             /\ U[n][Len(U[n - 1]) + 1] = Header(files[n])
  <2>1. U[n - 1] \in Seq(B) /\ Blocks(files[n]) \in Seq(B) /\ U[n] = U[n - 1] \o Blocks(files[n])
    <3>1. n - 1 \in 0 .. c
      BY <1>2
    <3> QED
      BY <1>2, <1>5, <1>6, <3>1
  <2>2. /\ BlocksOf(files[n].size) \in Nat
        /\ Len(Blocks(files[n])) = 1 + BlocksOf(files[n].size)
        /\ Blocks(files[n])[1] = Header(files[n])
    BY <1>2
  <2>3. Len(Blocks(files[n])) > 0
    BY <2>2
  <2>4. /\ Len(U[n]) = Len(U[n - 1]) + Len(Blocks(files[n]))
        /\ \A i \in 1 .. Len(U[n - 1]) : U[n][i] = U[n - 1][i]
        /\ U[n][Len(U[n - 1]) + 1] = Blocks(files[n])[1]
    <3> DEFINE old == U[n - 1]
               new == Blocks(files[n])
               both == U[n]
    <3>1. old \in Seq(B) /\ new \in Seq(B) /\ Len(new) > 0 /\ both = old \o new
      BY <2>1, <2>3
    <3> HIDE DEF old, new, both
    <3>2. /\ Len(both) = Len(old) + Len(new)
          /\ \A i \in 1 .. Len(old) : both[i] = old[i]
          /\ both[Len(old) + 1] = new[1]
      BY <3>1, Appended
    <3> QED
      BY <3>2 DEF old, new, both
  <2> QED
    BY <2>2, <2>4
\* What has been written stays.
<1>8. \A n \in 0 .. c : \A i \in 1 .. Len(U[n]) : i <= Len(U[c]) /\ U[c][i] = U[n][i]
  <2> DEFINE Kept(n) == \A i \in 1 .. Len(U[n]) : i <= Len(U[c]) /\ U[c][i] = U[n][i]
             T == {k \in Nat : k <= c /\ ~Kept(c - k)}
  <2>1. T = {}
    <3> SUFFICES ASSUME T # {} PROVE FALSE
      OBVIOUS
    <3>1. PICK k \in T : k - 1 \notin T
      BY Least
    <3>2. U[c] \in Seq(B)
      BY <1>2, <1>6
    <3>3. Len(U[c]) \in Nat /\ Kept(c)
      BY <3>2
    <3> HIDE DEF Kept
    <3>4. k # 0
      <4>1. c - 0 = c
        BY <1>2
      <4> QED
        BY <3>1, <3>3, <4>1
    <3> DEFINE m == c - k + 1
    <3>5. /\ k \in Nat /\ k <= c /\ ~Kept(c - k)
          /\ k - 1 \in Nat /\ k - 1 <= c /\ m = c - (k - 1)
          /\ m \in 1 .. c /\ m - 1 = c - k /\ m \in 0 .. c /\ m - 1 \in 0 .. c
      BY <1>2, <3>1, <3>4
    <3>6. Kept(m)
      BY <3>1, <3>5
    <3> HIDE DEF m
    <3>7. /\ Len(U[m]) = Len(U[m - 1]) + (1 + BlocksOf(files[m].size))
          /\ \A i \in 1 .. Len(U[m - 1]) : U[m][i] = U[m - 1][i]
          /\ U[m - 1] \in Seq(B) /\ BlocksOf(files[m].size) \in Nat
      BY <1>2, <1>6, <1>7, <3>5
    <3>8. \A i \in 1 .. Len(U[m - 1]) : i \in 1 .. Len(U[m])
      BY <3>7
    <3>9. Kept(m - 1)
      BY <3>6, <3>7, <3>8 DEF Kept
    <3> QED
      BY <3>5, <3>9
  <2>2. ASSUME NEW n \in 0 .. c PROVE c - n \in Nat /\ c - n <= c /\ c - (c - n) = n
    BY <1>2
  <2> QED
    BY <2>1, <2>2
<1> DEFINE at == [i \in 1 .. c + 1 |-> Len(U[i - 1])]
<1>9. at \in [1 .. c + 1 -> Nat] /\ at[1] = 0
  <2>1. \A i \in 1 .. c + 1 : i - 1 \in 0 .. c /\ Len(U[i - 1]) \in Nat
    BY <1>2, <1>6
  <2>2. at[1] = Len(U[0])
    BY <1>2
  <2> QED
    BY <1>5, <2>1, <2>2
<1>10. /\ \A x \in 1 .. Len(U[c]) : archive[x] = U[c][x]
       /\ archive[Len(U[c]) + 1] = Zeros /\ archive[Len(U[c]) + 2] = Zeros
  <2> DEFINE all == U[c]
             E == << Zeros, Zeros >>
             S == B \cup {Zeros}
  <2>1. all \in Seq(B)
    BY <1>2, <1>6
  <2>2. all \in Seq(S) /\ Len(all) \in Nat
    BY <2>1
  <2>3. E \in Seq(S) /\ Len(E) = 2 /\ E[1] = Zeros /\ E[2] = Zeros
    OBVIOUS
  <2>4. archive = all \o E
    BY <1>1 DEF c
  <2> HIDE DEF all, E, S
  <2>5. \A i \in 1 .. Len(all) + Len(E) :
          (all \o E)[i] = IF i <= Len(all) THEN all[i] ELSE E[i - Len(all)]
    BY <2>2, <2>3, ConcatProperties
  <2>6. \A i \in 1 .. Len(all) + 2 :
          archive[i] = IF i <= Len(all) THEN all[i] ELSE E[i - Len(all)]
    BY <2>3, <2>4, <2>5
  <2>7. \A i \in 1 .. Len(all) : archive[i] = all[i]
    BY <2>2, <2>6
  <2>8. archive[Len(all) + 1] = E[1] /\ archive[Len(all) + 2] = E[2]
    BY <2>2, <2>6
  <2> QED
    BY <2>3, <2>7, <2>8 DEF all
<1>11. ASSUME NEW i \in 1 .. c
       PROVE  /\ at[i + 1] = at[i] + (1 + BlocksOf(files[i].size))
              /\ archive[at[i] + 1] = Header(files[i])
  <2>1. /\ i \in 1 .. c + 1 /\ i + 1 \in 1 .. c + 1 /\ (i + 1) - 1 = i
        /\ i \in 0 .. c /\ i - 1 \in 0 .. c
    BY <1>2
  <2>2. at[i] = Len(U[i - 1]) /\ at[i + 1] = Len(U[i])
    BY <2>1
  <2> HIDE DEF at
  <2>3. /\ Len(U[i]) = Len(U[i - 1]) + (1 + BlocksOf(files[i].size))
        /\ U[i][Len(U[i - 1]) + 1] = Header(files[i])
    BY <1>7
  <2>4. U[i - 1] \in Seq(B) /\ U[c] \in Seq(B) /\ BlocksOf(files[i].size) \in Nat
    BY <1>2, <1>6, <2>1
  <2>5. at[i] \in Nat /\ at[i] + 1 \in 1 .. Len(U[i])
    BY <2>2, <2>3, <2>4
  <2>6. at[i] + 1 \in 1 .. Len(U[c]) /\ U[c][at[i] + 1] = Header(files[i])
    <3>1. at[i] + 1 <= Len(U[c]) /\ U[c][at[i] + 1] = U[i][at[i] + 1]
      BY <1>8, <2>1, <2>5
    <3> QED
      BY <2>2, <2>3, <2>5, <3>1
  <2> QED
    BY <1>10, <2>2, <2>3, <2>6
<1>12. archive[at[c + 1] + 1] = Zeros /\ archive[at[c + 1] + 2] = Zeros
  <2>1. at[c + 1] = Len(U[c]) /\ U[c] \in Seq(B)
    BY <1>2, <1>6
  <2> QED
    BY <1>10, <2>1
<1> QED
  BY <1>9, <1>11, <1>12 DEF Laid, c

LEMMA HeadersAt ==
  ASSUME files \in Files, NEW at, Laid(at)
  PROVE  \A i \in 1 .. Len(files) + 1 : HeaderAddress(files)[i] = BLOCK_SIZE * at[i]
<1> DEFINE c == Len(files)
           H == CHOOSE f : f = [n \in 1 .. c + 1 |->
                  IF n = 1 THEN 0 ELSE f[n - 1] + BLOCK_SIZE * (1 + BlocksOf(files[n - 1].size))]
           W == [n \in 1 .. c + 1 |-> BLOCK_SIZE * at[n]]
<1>1. HeaderAddress(files) = H
  BY DEF HeaderAddress
<1>2. c \in Nat /\ \A i \in 1 .. c : BlocksOf(files[i].size) \in Nat
  BY FilesAre
<1>3. /\ at \in [1 .. c + 1 -> Nat] /\ at[1] = 0
      /\ \A i \in 1 .. c : at[i + 1] = at[i] + (1 + BlocksOf(files[i].size))
  BY DEF Laid
<1> HIDE DEF c
<1>4. \A n \in 1 .. c + 1 :
        W[n] = IF n = 1 THEN 0 ELSE W[n - 1] + BLOCK_SIZE * (1 + BlocksOf(files[n - 1].size))
  <2>1. W[1] = 0
    BY <1>2, <1>3 DEF BLOCK_SIZE
  <2>2. ASSUME NEW n \in 2 .. c + 1
        PROVE  W[n] = W[n - 1] + BLOCK_SIZE * (1 + BlocksOf(files[n - 1].size))
    <3> DEFINE i == n - 1
    <3>1. i \in 1 .. c /\ i + 1 = n /\ i \in 1 .. c + 1 /\ n \in 1 .. c + 1
      BY <1>2
    <3>2. W[n] = BLOCK_SIZE * at[i + 1] /\ W[i] = BLOCK_SIZE * at[i]
      BY <3>1
    <3> HIDE DEF i, W
    <3>3. /\ at[i + 1] = at[i] + (1 + BlocksOf(files[i].size))
          /\ at[i] \in Nat /\ BlocksOf(files[i].size) \in Nat
      BY <1>2, <1>3, <3>1
    <3>4. W[n] = W[i] + BLOCK_SIZE * (1 + BlocksOf(files[i].size))
      BY <3>2, <3>3 DEF BLOCK_SIZE
    <3> QED
      BY <3>4 DEF i
  <2>3. \A n \in 1 .. c + 1 : n = 1 \/ n \in 2 .. c + 1
    BY <1>2
  <2>4. \A n \in 2 .. c + 1 : n # 1
    BY <1>2
  <2> HIDE DEF W
  <2> QED
    BY <2>1, <2>2, <2>3, <2>4
<1>5. W = [n \in 1 .. c + 1 |->
             IF n = 1 THEN 0 ELSE W[n - 1] + BLOCK_SIZE * (1 + BlocksOf(files[n - 1].size))]
  BY <1>4
<1>6. H = [n \in 1 .. c + 1 |->
             IF n = 1 THEN 0 ELSE H[n - 1] + BLOCK_SIZE * (1 + BlocksOf(files[n - 1].size))]
  BY <1>5
<1>7. \A n \in 1 .. c + 1 : W[n] = BLOCK_SIZE * at[n]
  OBVIOUS
<1> HIDE DEF H, W
<1>8. \A n \in 1 .. c + 1 :
        H[n] = IF n = 1 THEN 0 ELSE H[n - 1] + BLOCK_SIZE * (1 + BlocksOf(files[n - 1].size))
  BY <1>6
<1> DEFINE T == {n \in Nat : n \in 1 .. c + 1 /\ H[n] # W[n]}
<1>9. T = {}
  <2> SUFFICES ASSUME T # {} PROVE FALSE
    OBVIOUS
  <2>1. PICK n \in T : n - 1 \notin T
    BY Least
  <2>2. n # 1
    BY <1>2, <1>4, <1>8, <2>1
  <2>3. n - 1 \in 1 .. c + 1 /\ n - 1 \in Nat
    BY <1>2, <2>1, <2>2
  <2>4. H[n - 1] = W[n - 1]
    BY <2>1, <2>3
  <2> QED
    BY <1>4, <1>8, <2>1, <2>2, <2>4
<1>10. \A n \in 1 .. c + 1 : n \in Nat
  BY <1>2
<1> QED
  BY <1>1, <1>7, <1>9, <1>10 DEF c

\* What the walk finds at each address it can be at.
LEMMA Found ==
  ASSUME files \in Files, archive = Archive(files)
  PROVE  LET address == HeaderAddress(files)
         IN  /\ address[1] = 0
             /\ \A i \in 1 .. Len(files) :
                  /\ address[i] \in Nat
                  /\ BlockAt(address[i]) = Header(files[i])
                  /\ address[i + 1] = address[i] + BLOCK_SIZE + ALIGN_UP(files[i].size)
             /\ AtEnd(address[Len(files) + 1])
<1> DEFINE c == Len(files)
<1>1. PICK at : Laid(at)
  BY ArchiveLaid
<1>2. \A i \in 1 .. c + 1 : HeaderAddress(files)[i] = BLOCK_SIZE * at[i]
  BY <1>1, HeadersAt
<1>3. c \in Nat /\ \A i \in 1 .. c : files[i].size \in Nat
  BY FilesAre
<1>4. \A i \in 1 .. c + 1 : at[i] \in Nat
  BY <1>1 DEF Laid
<1>5. \A n \in Nat : (512 * n) \div 512 + 1 = n + 1 /\ (512 * n + 512) \div 512 + 1 = n + 2
  OBVIOUS
<1>6. HeaderAddress(files)[1] = 0
  <2>1. 1 \in 1 .. c + 1 /\ at[1] = 0
    BY <1>1, <1>3 DEF Laid
  <2> QED
    BY <1>2, <2>1 DEF BLOCK_SIZE
<1>7. ASSUME NEW i \in 1 .. c
      PROVE  /\ HeaderAddress(files)[i] \in Nat
             /\ BlockAt(HeaderAddress(files)[i]) = Header(files[i])
             /\ HeaderAddress(files)[i + 1]
                  = HeaderAddress(files)[i] + BLOCK_SIZE + ALIGN_UP(files[i].size)
  <2>1. i \in 1 .. c + 1 /\ i + 1 \in 1 .. c + 1
    BY <1>3
  <2>2. /\ HeaderAddress(files)[i] = 512 * at[i]
        /\ HeaderAddress(files)[i + 1] = 512 * at[i + 1]
        /\ at[i] \in Nat
    BY <1>2, <1>4, <2>1 DEF BLOCK_SIZE
  <2>3. /\ at[i + 1] = at[i] + (1 + BlocksOf(files[i].size))
        /\ archive[at[i] + 1] = Header(files[i])
    BY <1>1 DEF Laid
  <2>4. BlockAt(HeaderAddress(files)[i]) = Header(files[i])
    BY <1>5, <2>2, <2>3 DEF BlockAt, BLOCK_SIZE
  <2>5. ALIGN_UP(files[i].size) = 512 * BlocksOf(files[i].size)
    BY DEF ALIGN_UP, BlocksOf, BLOCK_SIZE
  <2>6. BlocksOf(files[i].size) \in Nat
    BY <1>3, BlocksAre
  <2>7. \A a, b \in Nat : 512 * (a + (1 + b)) = 512 * a + 512 + 512 * b /\ 512 * a \in Nat
    OBVIOUS
  <2>8. HeaderAddress(files)[i + 1] = 512 * at[i] + 512 + 512 * BlocksOf(files[i].size)
    <3>1. HeaderAddress(files)[i + 1] = 512 * (at[i] + (1 + BlocksOf(files[i].size)))
      BY <2>2, <2>3
    <3> DEFINE a == at[i]
               b == BlocksOf(files[i].size)
    <3>2. a \in Nat /\ b \in Nat /\ HeaderAddress(files)[i + 1] = 512 * (a + (1 + b))
      BY <2>2, <2>6, <3>1
    <3> HIDE DEF a, b
    <3>3. HeaderAddress(files)[i + 1] = 512 * a + 512 + 512 * b
      BY <2>7, <3>2
    <3> QED
      BY <3>3 DEF a, b
  <2> QED
    BY <2>2, <2>4, <2>5, <2>7, <2>8 DEF BLOCK_SIZE
<1>8. AtEnd(HeaderAddress(files)[c + 1])
  <2>1. c + 1 \in 1 .. c + 1
    BY <1>3
  <2>2. HeaderAddress(files)[c + 1] = 512 * at[c + 1] /\ at[c + 1] \in Nat
    BY <1>2, <1>4, <2>1 DEF BLOCK_SIZE
  <2>3. archive[at[c + 1] + 1] = Zeros /\ archive[at[c + 1] + 2] = Zeros
    BY <1>1 DEF Laid
  <2> QED
    BY <1>5, <2>2, <2>3 DEF AtEnd, BlockAt, BLOCK_SIZE
<1> QED
  BY <1>6, <1>7, <1>8

-----------------------------------------------------------------------------
\* The search

\* It is at a header, or at the end, and has not passed a file of the name.
At(i) ==
  /\ i \in 1 .. Len(files) + 1
  /\ currentAddress = HeaderAddress(files)[i]
  /\ \A j \in 1 .. i - 1 : files[j].name # fileName

IInv ==
  /\ files \in Files /\ archive = Archive(files)
  /\ result = RUNNING => \E i \in 1 .. Len(files) + 1 : At(i)
  /\ FindsFirst

LEMMA NotFoundIs == NotFound # RUNNING
<1>1. RUNNING # NULL /\ RUNNING \notin Nat
  BY RamdiskAssumption
<1>2. RUNNING # 0
  BY <1>1
<1> QED
  BY <1>1, <1>2 DEF NotFound

\* A search that ends without a file has looked at all of them.
LEMMA GivesUp ==
  ASSUME IInv, RefuseEmpty \/ StopAtEnd
  PROVE  IInv'
<1>1. /\ files' = files /\ archive' = archive /\ op' = op /\ fileName' = fileName
      /\ result = RUNNING /\ result' = NotFound
  BY DEF RefuseEmpty, StopAtEnd
<1>2. NotFound' = NotFound /\ NotFound # RUNNING
  BY <1>1, NotFoundIs DEF NotFound
<1>3. /\ Len(files) \in Nat /\ DOMAIN files = 1 .. Len(files)
      /\ \A i \in 1 .. Len(files) : files[i].name # ""
  BY FilesAre DEF IInv
<1>4. \A i \in DOMAIN files : files[i].name # fileName
  <2>1. CASE RefuseEmpty
    BY <1>3, <2>1 DEF RefuseEmpty
  <2>2. CASE StopAtEnd
    <3>1. PICK i \in 1 .. Len(files) + 1 : At(i)
      BY <1>1 DEF IInv
    <3>2. ASSUME i \in 1 .. Len(files) PROVE FALSE
      <4>1. BlockAt(currentAddress) = Header(files[i])
        BY <3>1, <3>2, Found DEF IInv, At
      <4>2. Header(files[i]).name = files[i].name /\ Zeros.name = ""
        BY DEF Header, Zeros
      <4> QED
        BY <1>3, <2>2, <3>2, <4>1, <4>2 DEF StopAtEnd, AtEnd
    <3> DEFINE c == Len(files)
    <3>3. c \in Nat /\ i \in 1 .. c + 1 /\ i \notin 1 .. c
      BY <1>3, <3>2
    <3> HIDE DEF c
    <3>4. i = c + 1 /\ c = i - 1
      BY <3>3
    <3>5. \A j \in 1 .. Len(files) : j \in 1 .. i - 1
      BY <3>4 DEF c
    <3> QED
      BY <1>3, <3>1, <3>5 DEF At
  <2> QED
    BY <2>1, <2>2
<1>5. {i \in DOMAIN files : files[i].name = fileName} = {}
  BY <1>4
<1> QED
  BY <1>1, <1>2, <1>5 DEF IInv, FindsFirst

\* A header's file is the first of the name, or the next header is at hand.
LEMMA Visits ==
  ASSUME IInv, VisitHeader
  PROVE  IInv'
<1> DEFINE address == HeaderAddress(files)
<1>1. /\ files' = files /\ archive' = archive /\ op' = op /\ fileName' = fileName
      /\ result = RUNNING /\ ~AtEnd(currentAddress)
  BY DEF VisitHeader
<1>2. PICK i \in 1 .. Len(files) + 1 : At(i)
  BY <1>1 DEF IInv
<1>3. /\ Len(files) \in Nat /\ DOMAIN files = 1 .. Len(files)
      /\ \A j \in 1 .. Len(files) : files[j].size \in Nat /\ Shifted(files[j].size)[11] = 0
  BY FilesAre DEF IInv
<1>4. i \in 1 .. Len(files)
  <2>1. i # Len(files) + 1
    BY <1>1, <1>2, Found DEF IInv, At
  <2> QED
    BY <1>2, <1>3, <2>1
<1>5. /\ currentAddress = address[i] /\ address[i] \in Nat
      /\ BlockAt(currentAddress) = Header(files[i])
      /\ address[i + 1] = address[i] + BLOCK_SIZE + ALIGN_UP(files[i].size)
      /\ \A j \in 1 .. i - 1 : files[j].name # fileName
  BY <1>2, <1>4, Found DEF IInv, At
<1>6. /\ Header(files[i]).name = files[i].name
      /\ strToUint64(Header(files[i]).size, 8) = files[i].size
  BY <1>3, <1>4, ReadsBack DEF Header
<1>7. HeaderAddress(files') = address
  BY <1>1
<1> HIDE DEF address
<1>8. CASE files[i].name = fileName
  <2>1. result' = IF op = "readFile" THEN address[i] + BLOCK_SIZE ELSE files[i].size
    BY <1>5, <1>6, <1>8 DEF VisitHeader, ContentsAt
  <2>2. result' \in Nat
    BY <1>3, <1>4, <1>5, <2>1 DEF BLOCK_SIZE
  <2>3. result' # RUNNING
    BY <2>2, RamdiskAssumption
  <2> DEFINE named == {j \in DOMAIN files : files[j].name = fileName}
  <2>4. i \in named /\ \A j \in named : i <= j
    BY <1>3, <1>4, <1>5, <1>8
  <2>5. FindsFirst'
    BY <1>1, <1>7, <2>1, <2>4 DEF FindsFirst
  <2> QED
    BY <1>1, <2>3, <2>5 DEF IInv
<1>9. CASE files[i].name # fileName
  <2>1. /\ currentAddress' = address[i] + BLOCK_SIZE + ALIGN_UP(files[i].size)
        /\ result' = RUNNING
    BY <1>1, <1>5, <1>6, <1>9 DEF VisitHeader, ContentsAt
  <2>2. i + 1 \in 1 .. Len(files) + 1 /\ \A j \in 1 .. (i + 1) - 1 : j = i \/ j \in 1 .. i - 1
    BY <1>3, <1>4
  <2>3. At(i + 1)'
    BY <1>1, <1>5, <1>7, <1>9, <2>1, <2>2 DEF At
  <2>4. \E k \in 1 .. Len(files') + 1 : At(k)'
    BY <1>1, <2>2, <2>3
  <2> QED
    BY <1>1, <2>1, <2>4 DEF IInv, FindsFirst
<1> QED
  BY <1>8, <1>9

THEOREM Inductive == Spec => []IInv
<1>1. Init => IInv
  <2> SUFFICES ASSUME Init PROVE IInv
    OBVIOUS
  <2>1. files \in Files /\ archive = Archive(files) /\ currentAddress = 0 /\ result = RUNNING
    BY DEF Init
  <2>2. HeaderAddress(files)[1] = 0 /\ Len(files) \in Nat
    BY <2>1, Found, FilesAre
  <2>3. 1 \in 1 .. Len(files) + 1 /\ 1 .. 1 - 1 = {}
    BY <2>2
  <2>4. At(1)
    BY <2>1, <2>2, <2>3 DEF At
  <2> QED
    BY <2>1, <2>3, <2>4 DEF IInv, FindsFirst
<1>2. IInv /\ [Next]_vars => IInv'
  <2> SUFFICES ASSUME IInv, [Next]_vars PROVE IInv'
    OBVIOUS
  <2>1. CASE UNCHANGED vars
    BY <2>1 DEF vars, IInv, At, FindsFirst, NotFound
  <2> QED
    BY <2>1, GivesUp, Visits DEF Next, Done
<1> QED
  BY <1>1, <1>2, PTL DEF Spec

\* Whatever the contents of files look like, only headers and the end are
\* taken for headers (UstarParser.cpp:19-29).
THEOREM StaysAtHeaders == Spec => []AtHeader
<1>1. IInv => AtHeader
  BY DEF IInv, At, AtHeader
<1> QED
  BY <1>1, Inductive, PTL

\* The search returns what the first file of the name is, and "not found" if
\* there is none (UstarParser.cpp:11-60).
THEOREM FindsTheFirst == Spec => []FindsFirst
<1>1. IInv => FindsFirst
  BY DEF IInv
<1> QED
  BY <1>1, Inductive, PTL

-----------------------------------------------------------------------------
\* Kstd::memset and Kstd::memcpy (Kstd.cpp)

CONSTANTS Addresses, Counts, Values
VARIABLES call, memory, before, d, s, count, phase

Library == INSTANCE Kstd

\* What has been stored at any time is a beginning of what is to be.
Progress ==
  /\ Library!Arguments
  /\ call \in Library!Calls /\ Library!Allowed(call)
  /\ memory \in [Addresses -> Library!Byte]
  /\ count \in Nat /\ count <= call.count
  /\ d = call.dest + (call.count - count)
  /\ s \in Int /\ (call.f = "memcpy" => s = call.src + (call.count - count))
  /\ \A a \in Addresses :
       memory[a] = IF a \in Library!Cells(call.dest, call.count - count)
                     THEN Library!Wanted(a) ELSE before[a]

InStep == phase = "words" => Library!Aligned

\* What the arguments of a call are.
LEMMA CallTypes ==
  ASSUME Progress
  PROVE  /\ call.f \in {"memset", "memcpy"}
         /\ call.dest \in Nat /\ call.count \in Nat
         /\ call.f = "memset" => call.c \in Int
         /\ call.f = "memcpy" => call.src \in Nat
BY DEF Progress, Library!Calls, Library!Arguments

\* The shifts of memset put its byte into every place of the word.
LEMMA EveryByte ==
  ASSUME NEW v
  PROVE  LET w == Library!Twice(Library!Twice(Library!Twice([i \in 0 .. 7 |-> IF i = 0 THEN v ELSE 0], 1), 2), 4)
         IN  \A i \in 0 .. 7 : w[i] = v
<1> DEFINE w0 == [i \in 0 .. 7 |-> IF i = 0 THEN v ELSE 0]
           w1 == Library!Twice(w0, 1)
           w2 == Library!Twice(w1, 2)
           w3 == Library!Twice(w2, 4)
<1>1. w1[0] = v /\ w1[1] = v /\ \A i \in 2 .. 7 : w1[i] = 0
  BY DEF Library!Twice
<1> HIDE DEF w1
<1>2. /\ \A i \in 0 .. 3 : w2[i] = v
      /\ \A i \in 4 .. 7 : w2[i] = 0
  BY <1>1 DEF Library!Twice
<1> HIDE DEF w2
<1>3. \A i \in 0 .. 7 : w3[i] = v
  BY <1>2 DEF Library!Twice
<1> QED
  BY <1>3 DEF w2, w1

\* A store of n bytes in front of what is left.
LEMMA StoreKeeps ==
  ASSUME Progress, NEW n \in Nat \ {0}, n <= count,
         UNCHANGED << call, before >>,
         memory' = [a \in Addresses |->
                      IF a \in Library!Cells(d, n)
                        THEN IF call.f = "memset" THEN Library!val ELSE memory[s + (a - d)]
                        ELSE memory[a]],
         d' = d + n, s' = s + n, count' = count - n
  PROVE  Progress'
<1> DEFINE done == call.count - count
<1>1. /\ call.f \in {"memset", "memcpy"}
      /\ call.dest \in Nat /\ call.count \in Nat
      /\ call.f = "memset" => call.c \in Int
      /\ call.f = "memcpy" => call.src \in Nat
  BY CallTypes
<1>2. /\ Library!Cells(call.dest, call.count) \subseteq Addresses
      /\ Addresses \subseteq Nat
      /\ call.f = "memcpy" =>
           /\ Library!Cells(call.src, call.count) \subseteq Addresses
           /\ \/ call.dest + call.count <= call.src
              \/ call.src + call.count <= call.dest
      /\ count \in Nat /\ count <= call.count /\ d = call.dest + done
      /\ s \in Int /\ (call.f = "memcpy" => s = call.src + done)
  BY DEF Progress, Library!Allowed, Library!Arguments
<1>3. done \in Nat /\ done + n <= call.count /\ call.count - count' = done + n
  BY <1>1, <1>2
<1>4. \A a \in Library!Cells(d, n) :
        /\ a \in Library!Cells(call.dest, call.count)
        /\ a \notin Library!Cells(call.dest, done)
        /\ a - d \in 0 .. n - 1
  BY <1>1, <1>2, <1>3 DEF Library!Cells
<1>5. ASSUME NEW a \in Library!Cells(d, n), call.f = "memcpy"
      PROVE  /\ s + (a - d) \in Addresses
             /\ memory[s + (a - d)] = before[call.src + (a - call.dest)]
  <2>1. s + (a - d) = call.src + (a - call.dest)
    BY <1>1, <1>2, <1>3, <1>5 DEF Library!Cells
  <2>2. s + (a - d) \in Library!Cells(call.src, call.count)
    BY <1>1, <1>2, <1>3, <1>5 DEF Library!Cells
  <2>3. s + (a - d) \notin Library!Cells(call.dest, done)
    BY <1>1, <1>2, <1>3, <1>5, <2>2 DEF Library!Cells
  <2>4. s + (a - d) \in Addresses
    BY <1>2, <1>5, <2>2
  <2> QED
    BY <2>1, <2>3, <2>4 DEF Progress
<1>6. ASSUME NEW a \in Library!Cells(d, n)
      PROVE  /\ a \in Addresses
             /\ memory'[a] = Library!Wanted(a) /\ memory'[a] \in Library!Byte
  <2>1. a \in Addresses /\ a \in Library!Cells(call.dest, call.count)
    BY <1>2, <1>4, <1>6
  <2>2. CASE call.f = "memset"
    <3>1. Library!val \in Library!Byte
      BY <1>1, <2>2 DEF Library!val, Library!Byte
    <3>2. memory'[a] = Library!val
      BY <1>6, <2>1, <2>2
    <3> QED
      BY <2>1, <2>2, <3>1, <3>2 DEF Library!Wanted, Library!val
  <2>3. CASE call.f = "memcpy"
    <3>1. memory'[a] = memory[s + (a - d)]
      BY <1>6, <2>1, <2>3
    <3>2. memory[s + (a - d)] \in Library!Byte
      BY <1>5, <1>6, <2>3 DEF Progress
    <3> QED
      BY <1>5, <1>6, <2>1, <2>3, <3>1, <3>2 DEF Library!Wanted
  <2> QED
    BY <1>1, <2>2, <2>3
<1>7. \A a \in Addresses \ Library!Cells(d, n) : memory'[a] = memory[a]
  OBVIOUS
<1>8. memory' \in [Addresses -> Library!Byte]
  BY <1>6, <1>7 DEF Progress
<1>9. \A a \in Addresses : Library!Wanted(a)' = Library!Wanted(a)
  BY DEF Library!Wanted
<1>10. ASSUME NEW a \in Addresses
       PROVE  memory'[a] = IF a \in Library!Cells(call.dest, done + n)
                             THEN Library!Wanted(a) ELSE before[a]
  <2>1. CASE a \in Library!Cells(d, n)
    <3>1. a \in Library!Cells(call.dest, done + n)
      BY <1>1, <1>2, <1>3, <2>1 DEF Library!Cells
    <3> QED
      BY <1>6, <2>1, <3>1
  <2>2. CASE a \notin Library!Cells(d, n)
    <3>1. a \in Library!Cells(call.dest, done + n) <=> a \in Library!Cells(call.dest, done)
      BY <1>1, <1>2, <1>3, <2>2 DEF Library!Cells
    <3> QED
      BY <1>7, <2>2, <3>1 DEF Progress
  <2> QED
    BY <2>1, <2>2
<1>11. /\ count' \in Nat /\ count' <= call.count
       /\ d' = call.dest + (call.count - count')
       /\ s' \in Int
       /\ call.f = "memcpy" => s' = call.src + (call.count - count')
  BY <1>1, <1>2, <1>3
<1> HIDE DEF done
<1> QED
  BY <1>3, <1>8, <1>9, <1>10, <1>11 DEF Progress, Library!Allowed, Library!Arguments, Library!Calls

LEMMA ByteStep == Progress /\ InStep /\ Library!StoreByte => Progress' /\ InStep'
<1> SUFFICES ASSUME Progress, InStep, Library!StoreByte PROVE Progress' /\ InStep'
  OBVIOUS
<1>1. count \in Nat \ {0} /\ d \in Nat /\ s \in Int
  BY CallTypes DEF Progress, Library!StoreByte, Library!Aligned
<1>2. Library!Cells(d, 1) = {d}
  BY <1>1 DEF Library!Cells
<1>3. memory' = [a \in Addresses |->
                   IF a \in Library!Cells(d, 1)
                     THEN IF call.f = "memset" THEN Library!val ELSE memory[s + (a - d)]
                     ELSE memory[a]]
  <2>1. d - d = 0
    BY <1>1
  <2> QED
    BY <1>2, <2>1 DEF Library!StoreByte, Library!ByteAt, Progress
<1>4. Progress'
  <2>1. 1 \in Nat \ {0} /\ 1 <= count
    BY <1>1
  <2>2. /\ UNCHANGED << call, before >>
        /\ d' = d + 1 /\ s' = s + 1 /\ count' = count - 1
    BY DEF Library!StoreByte
  <2> QED
    BY <1>3, <2>1, <2>2, StoreKeeps
<1>5. InStep'
  BY DEF Library!StoreByte, InStep
<1> QED
  BY <1>4, <1>5

LEMMA WordStep == Progress /\ InStep /\ Library!StoreWord => Progress' /\ InStep'
<1> SUFFICES ASSUME Progress, InStep, Library!StoreWord PROVE Progress' /\ InStep'
  OBVIOUS
<1>1. count \in Nat /\ count >= 8 /\ d \in Nat
  BY CallTypes DEF Progress, Library!StoreWord
<1>2. \A i \in 0 .. 7 : Library!val64[i] = Library!val
  BY EveryByte DEF Library!val64
<1>3. \A a \in Library!Cells(d, 8) : a - d \in 0 .. 7
  BY <1>1 DEF Library!Cells
<1>4. memory' = [a \in Addresses |->
                   IF a \in Library!Cells(d, 8)
                     THEN IF call.f = "memset" THEN Library!val ELSE memory[s + (a - d)]
                     ELSE memory[a]]
  BY <1>2, <1>3 DEF Library!StoreWord, Library!WordByte
<1>5. Progress'
  BY <1>1, <1>4, StoreKeeps DEF Library!StoreWord
<1>6. InStep'
  <2>1. call.f = "memset" => d % 8 = 0
    BY <1>1 DEF InStep, Library!Aligned, Library!StoreWord
  <2>2. d % 8 = 0 => (d + 8) % 8 = 0
    BY <1>1
  <2> QED
    BY <2>1, <2>2, CallTypes DEF Library!StoreWord, InStep, Library!Aligned
<1> QED
  BY <1>5, <1>6

LEMMA LoopStep == Progress /\ InStep /\ Library!NextLoop => Progress' /\ InStep'
BY DEF Library!NextLoop, Progress, InStep, Library!Aligned, Library!Wanted, Library!Arguments, Library!Calls, Library!Allowed

LEMMA Start == Library!Arguments /\ Library!Init => Progress /\ InStep
<1> SUFFICES ASSUME Library!Arguments, Library!Init PROVE Progress /\ InStep
  OBVIOUS
<1>1. call \in Library!Calls /\ Library!Allowed(call)
  BY DEF Library!Init
<1>2. call.dest \in Nat /\ call.count \in Nat
      /\ (call.f = "memcpy" => call.src \in Nat)
  BY <1>1 DEF Library!Calls, Library!Arguments
<1>3. Library!Cells(call.dest, 0) = {}
  BY <1>2 DEF Library!Cells
<1>4. call.count - count = 0
  BY <1>2 DEF Library!Init
<1> QED
  BY <1>1, <1>2, <1>3, <1>4 DEF Library!Init, Progress, InStep

\* Every call of memset and memcpy, of any size and at any address, stores
\* exactly what it should (Kstd.cpp:5-53).
THEOREM StoresAll == Library!Arguments /\ Library!Spec => []Library!StoresExactly
<1>1. Library!Arguments /\ Library!Init => Progress /\ InStep
  BY Start
<1>2. Progress /\ InStep /\ [Library!Next]_Library!vars => Progress' /\ InStep'
  <2>1. Progress /\ InStep /\ UNCHANGED Library!vars => Progress' /\ InStep'
    BY DEF Library!vars, Progress, InStep, Library!Aligned, Library!Wanted, Library!Arguments, Library!Calls, Library!Allowed
  <2> QED
    BY <2>1, ByteStep, WordStep, LoopStep DEF Library!Next
<1>3. Progress => Library!StoresExactly
  <2> SUFFICES ASSUME Progress PROVE Library!StoresExactly
    OBVIOUS
  <2>1. \A a \in Addresses : memory[a] \in {before[a], Library!Wanted(a)}
    BY DEF Progress
  <2>2. ASSUME Library!Returned, NEW a \in Addresses PROVE memory[a] = Library!Wanted(a)
    <3>1. call.count - count = call.count
      BY <2>2, CallTypes DEF Library!Returned
    <3> QED
      BY <3>1 DEF Progress, Library!Wanted
  <2> QED
    BY <2>1, <2>2 DEF Library!StoresExactly
<1> QED
  BY <1>1, <1>2, <1>3, PTL DEF Library!Spec

\* The words of memset are aligned, in every call (Kstd.cpp:9-12).
THEOREM Alignment == Library!Arguments /\ Library!Spec => Library!WordsAligned
<1>1. Library!Arguments /\ Library!Init => Progress /\ InStep
  BY Start
<1>2. Progress /\ InStep /\ [Library!Next]_Library!vars => Progress' /\ InStep'
  <2>1. Progress /\ InStep /\ UNCHANGED Library!vars => Progress' /\ InStep'
    BY DEF Library!vars, Progress, InStep, Library!Aligned, Library!Wanted, Library!Arguments, Library!Calls, Library!Allowed
  <2> QED
    BY <2>1, ByteStep, WordStep, LoopStep DEF Library!Next
<1>3. Progress /\ InStep => (Library!StoreWord /\ call.f = "memset" => d % 8 = 0)
  BY CallTypes DEF InStep, Library!Aligned, Library!StoreWord, Progress
<1>4. Progress /\ InStep /\ [Library!Next]_Library!vars =>
        [Library!StoreWord /\ call.f = "memset" => d % 8 = 0]_Library!vars
  BY <1>3
<1> QED
  BY <1>1, <1>2, <1>4, PTL DEF Library!Spec, Library!WordsAligned

=============================================================================
