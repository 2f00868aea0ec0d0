---------------------------- MODULE ConsoleProofs ----------------------------
(***************************************************************************)
(* Proofs about Console for all fonts and texts: the tables say of every   *)
(* character what the font says, and the screen shows the text.            *)
(*                                                                         *)
(* Two invariants carry this.  Parsed: the tables know of each word the    *)
(* last glyph listed for it before the parser's position, which is in the  *)
(* list the parser counts and behind no sequence of it.  Shown: str is     *)
(* behind the bytes of the characters printed, and what is drawn is their  *)
(* picture.  Between them stands that decodeUtf8 undoes the encoding.      *)
(***************************************************************************)
EXTENDS Console, FiniteSetTheorems, SequenceTheorems, WellFoundedInduction, TLAPS

\* A set of numbers that is not empty has a least one.
LEMMA Least ==
  ASSUME NEW S \in SUBSET Nat, S # {}
  PROVE  \E x \in S : \A y \in S : x <= y
<1> DEFINE Less == {s \in Nat \X Nat : s[1] < s[2]}
<1>1. IsWellFoundedOn(Less, Nat)
  BY NatLessThanWellFounded DEF OpToRel
<1>2. PICK x \in S : \A y \in S : << y, x >> \notin Less
  BY <1>1, WFMin
<1>3. \A y \in S : ~(y < x)
  BY <1>2
<1> QED
  BY <1>3

-----------------------------------------------------------------------------
\* Lists of a font's table

Word16 == 0 .. END_OF_GLYPH

\* There are finitely many ends before a position.
LEMMA EndsFinite ==
  ASSUME NEW table \in Seq(Word16), NEW i \in 1 .. Len(table) + 1
  PROVE  /\ IsFiniteSet({j \in 1 .. i - 1 : table[j] = END_OF_GLYPH})
         /\ EndsBefore(table, i) \in Nat
<1> DEFINE Ends == {j \in 1 .. i - 1 : table[j] = END_OF_GLYPH}
<1>1. IsFiniteSet(1 .. i - 1)
  BY FS_Interval
<1>2. Ends \subseteq 1 .. i - 1
  OBVIOUS
<1>3. IsFiniteSet(Ends) /\ Cardinality(Ends) \in Nat
  BY <1>1, <1>2, FS_Subset, FS_CardinalityType
<1> QED
  BY <1>3 DEF EndsBefore

\* The lists are counted from one position to the next.
LEMMA NextList ==
  ASSUME NEW table \in Seq(Word16)
  PROVE  /\ EndsBefore(table, 1) = 0
         /\ \A i \in 1 .. Len(table) :
              EndsBefore(table, i + 1) =
                IF table[i] = END_OF_GLYPH THEN EndsBefore(table, i) + 1 ELSE EndsBefore(table, i)
<1> DEFINE Ends(k) == {j \in 1 .. k - 1 : table[j] = END_OF_GLYPH}
<1>1. EndsBefore(table, 1) = 0
  <2>1. Ends(1) = {}
    OBVIOUS
  <2> QED
    BY <2>1, FS_EmptySet DEF EndsBefore
<1>2. ASSUME NEW i \in 1 .. Len(table), table[i] = END_OF_GLYPH
      PROVE  EndsBefore(table, i + 1) = EndsBefore(table, i) + 1
  <2>1. Ends(i + 1) = Ends(i) \cup {i} /\ i \notin Ends(i)
    BY <1>2
  <2>2. IsFiniteSet(Ends(i))
    BY EndsFinite
  <2>3. Cardinality(Ends(i + 1)) = Cardinality(Ends(i)) + 1
    BY <2>1, <2>2, FS_AddElement
  <2> QED
    BY <2>3 DEF EndsBefore
<1>3. ASSUME NEW i \in 1 .. Len(table), table[i] # END_OF_GLYPH
      PROVE  EndsBefore(table, i + 1) = EndsBefore(table, i)
  <2>1. Ends(i + 1) = Ends(i)
    BY <1>3
  <2> QED
    BY <2>1 DEF EndsBefore
<1> QED
  BY <1>1, <1>2, <1>3

\* A later position is in the same list or a later one.
LEMMA ListsInOrder ==
  ASSUME NEW table \in Seq(Word16), NEW i \in 1 .. Len(table) + 1, NEW j \in i .. Len(table) + 1
  PROVE  EndsBefore(table, i) <= EndsBefore(table, j)
<1> DEFINE Ends(k) == {m \in 1 .. k - 1 : table[m] = END_OF_GLYPH}
<1>1. Ends(i) \subseteq Ends(j) /\ Ends(j) \subseteq 1 .. j - 1
  OBVIOUS
<1>2. IsFiniteSet(Ends(j))
  BY EndsFinite
<1>3. Cardinality(Ends(i)) <= Cardinality(Ends(j))
  BY <1>1, <1>2, FS_Subset
<1> QED
  BY <1>3 DEF EndsBefore

\* Without an end in between it is the same list.
LEMMA SameList ==
  ASSUME NEW table \in Seq(Word16), NEW i \in 1 .. Len(table) + 1, NEW j \in i .. Len(table) + 1,
         \A k \in i .. j - 1 : table[k] # END_OF_GLYPH
  PROVE  EndsBefore(table, j) = EndsBefore(table, i)
<1>1. {m \in 1 .. i - 1 : table[m] = END_OF_GLYPH} = {m \in 1 .. j - 1 : table[m] = END_OF_GLYPH}
  OBVIOUS
<1> QED
  BY <1>1 DEF EndsBefore

-----------------------------------------------------------------------------
\* What the parser knows

IsCharacter(word) == word \notin {END_OF_GLYPH, SEQUENCE}

\* Position i is behind a SEQUENCE of its list.
Passed(table, i) ==
  \E j \in 1 .. i - 1 : table[j] = SEQUENCE /\ EndsBefore(table, j) = EndsBefore(table, i)

\* Where character c is listed before position p
Listed(table, p, c) == {i \in 1 .. p - 1 : table[i] = c /\ IsCharacter(c) /\ ~Passed(table, i)}

\* What getGlyphIndex finds for a word
Found(tables, c) == IF tables[c \div 256] = NULL THEN NO_GLYPH ELSE tables[c \div 256][c % 256]

\* For character c the tables have the last of the glyphs listed before p.
Knows(tables, table, p, c) ==
  IF Listed(table, p, c) = {} THEN Found(tables, c) = NO_GLYPH
  ELSE /\ \E i \in Listed(table, p, c) : Found(tables, c) = EndsBefore(table, i)
       /\ \A i \in Listed(table, p, c) : EndsBefore(table, i) <= Found(tables, c)

\* Some character with upper byte b is listed before p.
Tabled(table, p, b) == \E c \in Word16 : c \div 256 = b /\ Listed(table, p, c) # {}

\* The parser has come to pos, which is in the list it counts and not behind a
\* SEQUENCE, and knows what is before it; where it stops a list begins.
Parsed ==
  /\ font \in Fonts
  /\ pos \in 1 .. Len(font.unicodeTable) + 1
  /\ currentGlyphIndex \in 0 .. font.glyphCount
  /\ currentGlyphIndex = EndsBefore(font.unicodeTable, pos)
  /\ ~Passed(font.unicodeTable, pos)
  /\ Initialized => pos = 1 \/ font.unicodeTable[pos - 1] = END_OF_GLYPH
  /\ L2 \in [0 .. 255 -> {NULL} \cup [0 .. 255 -> Int]]
  /\ \A c \in Word16 : Knows(L2, font.unicodeTable, pos, c)
  /\ \A b \in 0 .. 255 : L2[b] # NULL <=> Tabled(font.unicodeTable, pos, b)

\* What is assumed of a font.
LEMMA FontType ==
  ASSUME NEW f \in Fonts
  PROVE  /\ f.glyphCount \in Nat /\ f.charsize \in Nat /\ f.unicodeTable \in Seq(Word16)
         /\ f.glyphCount <= EndsBefore(f.unicodeTable, Len(f.unicodeTable) + 1)
         /\ Len(f.unicodeTable) \in Nat
BY ConsoleAssumption DEF Word16

\* The numbers of the invariant.
LEMMA ParsedTypes ==
  ASSUME Parsed
  PROVE  /\ font.unicodeTable \in Seq(Word16) /\ Len(font.unicodeTable) \in Nat
         /\ font.glyphCount \in Nat
         /\ font.glyphCount <= EndsBefore(font.unicodeTable, Len(font.unicodeTable) + 1)
         /\ pos \in Nat /\ 1 <= pos /\ pos <= Len(font.unicodeTable) + 1
         /\ currentGlyphIndex \in Nat /\ currentGlyphIndex <= font.glyphCount
<1>1. /\ font.unicodeTable \in Seq(Word16) /\ Len(font.unicodeTable) \in Nat
      /\ font.glyphCount \in Nat
      /\ font.glyphCount <= EndsBefore(font.unicodeTable, Len(font.unicodeTable) + 1)
  BY FontType DEF Parsed
<1>2. pos \in 1 .. Len(font.unicodeTable) + 1 /\ currentGlyphIndex \in 0 .. font.glyphCount
  BY DEF Parsed
<1> QED
  BY <1>1, <1>2

\* While lists are to be read there is a word.
LEMMA MoreWords ==
  ASSUME Parsed, ~Initialized
  PROVE  pos \in 1 .. Len(font.unicodeTable) /\ Word \in Word16
<1> DEFINE T == font.unicodeTable
<1>1. currentGlyphIndex = EndsBefore(T, pos) /\ currentGlyphIndex # font.glyphCount
  BY DEF Parsed, Initialized
<1>2. font.glyphCount <= EndsBefore(T, Len(T) + 1)
  BY ParsedTypes
<1>3. pos # Len(T) + 1
  BY <1>1, <1>2, ParsedTypes
<1>4. pos \in 1 .. Len(T)
  BY <1>3, ParsedTypes
<1>5. T[pos] \in Word16
  BY <1>4, ParsedTypes
<1> QED
  BY <1>4, <1>5 DEF Word

\* A position behind an end is in a new list, behind no SEQUENCE of it.
LEMMA NewList ==
  ASSUME NEW table \in Seq(Word16), NEW i \in 1 .. Len(table), table[i] = END_OF_GLYPH
  PROVE  ~Passed(table, i + 1)
<1> SUFFICES ASSUME NEW j \in 1 .. i, EndsBefore(table, j) = EndsBefore(table, i + 1)
             PROVE  FALSE
  BY DEF Passed
<1>1. EndsBefore(table, i + 1) = EndsBefore(table, i) + 1
  BY NextList
<1>2. EndsBefore(table, j) <= EndsBefore(table, i)
  BY ListsInOrder
<1>3. EndsBefore(table, i) \in Nat
  <2>1. i \in 1 .. Len(table) + 1
    OBVIOUS
  <2> QED
    BY <2>1, EndsFinite
<1> QED
  BY <1>1, <1>2, <1>3

\* Marks are not listed.
LEMMA NothingListed ==
  ASSUME NEW table \in Seq(Word16), NEW p \in 1 .. Len(table), NEW q \in p + 1 .. Len(table) + 1,
         \A i \in p .. q - 1 : ~IsCharacter(table[i]) \/ Passed(table, i),
         NEW c
  PROVE  Listed(table, q, c) = Listed(table, p, c)
BY DEF Listed

\* If nothing more is listed, the tables need not change.
LEMMA KnowsStill ==
  ASSUME NEW tables, NEW table, NEW p, NEW q,
         \A c \in Word16 : Listed(table, q, c) = Listed(table, p, c)
  PROVE  /\ \A c \in Word16 : Knows(tables, table, p, c) => Knows(tables, table, q, c)
         /\ \A b : Tabled(table, q, b) <=> Tabled(table, p, b)
BY DEF Knows, Tabled

\* END_OF_GLYPH: the next list begins (Psf1Parser.cpp:18-21).
LEMMA NextGlyphStep ==
  ASSUME Parsed, NextGlyph
  PROVE  Parsed'
<1> DEFINE T == font.unicodeTable
<1>1. /\ font' = font /\ L2' = L2 /\ pos' = pos + 1 /\ currentGlyphIndex' = currentGlyphIndex + 1
      /\ currentGlyphIndex # font.glyphCount /\ T[pos] = END_OF_GLYPH
  BY DEF NextGlyph, Initialized, Word, files
<1>2. font \in Fonts /\ T \in Seq(Word16) /\ font.glyphCount \in Nat /\ pos \in 1 .. Len(T)
  BY <1>1, FontType, MoreWords DEF Parsed, NextGlyph
<1>3. currentGlyphIndex' \in 0 .. font.glyphCount /\ pos' \in 1 .. Len(T) + 1
  BY <1>1, <1>2, ParsedTypes
<1>4. currentGlyphIndex' = EndsBefore(T, pos')
  BY <1>1, <1>2, NextList DEF Parsed
<1>5. ~Passed(T, pos')
  BY <1>1, <1>2, NewList
<1>6. T[pos' - 1] = END_OF_GLYPH
  BY <1>1, <1>2
<1>7. ASSUME NEW c \in Word16 PROVE Listed(T, pos', c) = Listed(T, pos, c)
  <2>1. \A i \in pos .. (pos + 1) - 1 : ~IsCharacter(T[i])
    BY <1>1, <1>2 DEF IsCharacter
  <2>2. pos + 1 \in pos + 1 .. Len(T) + 1
    BY <1>2
  <2> QED
    BY <1>1, <1>2, <2>1, <2>2, NothingListed
<1>8. /\ \A c \in Word16 : Knows(L2, T, pos', c)
      /\ \A b \in 0 .. 255 : L2[b] # NULL <=> Tabled(T, pos', b)
  BY <1>7, KnowsStill DEF Parsed
<1> QED
  BY <1>1, <1>2, <1>3, <1>4, <1>5, <1>6, <1>8 DEF Parsed

\* The end of a list that is not the last to be read is in the table, and
\* PastList is behind it.
LEMMA ListEnds ==
  ASSUME Parsed, ~Initialized
  PROVE  /\ PastList(pos) \in pos + 1 .. Len(font.unicodeTable) + 1
         /\ font.unicodeTable[PastList(pos) - 1] = END_OF_GLYPH
         /\ \A r \in pos .. PastList(pos) - 2 : font.unicodeTable[r] # END_OF_GLYPH
<1> DEFINE T == font.unicodeTable
           Ends == {q \in pos + 1 .. Len(T) + 1 : T[q - 1] = END_OF_GLYPH}
<1>1. font \in Fonts /\ T \in Seq(Word16) /\ pos \in 1 .. Len(T) /\ Len(T) \in Nat
  BY FontType, MoreWords DEF Parsed
<1>2. Ends # {}
  <2> SUFFICES ASSUME Ends = {} PROVE FALSE
    OBVIOUS
  <2>1. \A k \in pos .. (Len(T) + 1) - 1 : T[k] # END_OF_GLYPH
    <3> SUFFICES ASSUME NEW k \in pos .. Len(T) PROVE T[k] # END_OF_GLYPH
      BY <1>1
    <3>1. k + 1 \in pos + 1 .. Len(T) + 1 /\ (k + 1) - 1 = k
      BY <1>1
    <3> QED
      BY <3>1
  <2>2. pos \in 1 .. Len(T) + 1 /\ Len(T) + 1 \in pos .. Len(T) + 1
    BY <1>1
  <2> HIDE DEF T
  <2>3. EndsBefore(T, Len(T) + 1) = EndsBefore(T, pos)
    BY <1>1, <2>1, <2>2, SameList
  <2> QED
    <3>1. currentGlyphIndex = EndsBefore(T, pos) /\ currentGlyphIndex # font.glyphCount
      BY DEF Parsed, Initialized, T
    <3>2. font.glyphCount <= EndsBefore(T, Len(T) + 1)
      BY ParsedTypes DEF T
    <3> QED
      BY <2>3, <3>1, <3>2, ParsedTypes
<1>3. PICK q \in Ends : \A x \in Ends : q <= x
  <2>1. Ends \in SUBSET Nat
    BY <1>1
  <2> QED
    BY <1>2, <2>1, Least
<1>4. \A r \in pos .. q - 2 : T[r] # END_OF_GLYPH
  <2> SUFFICES ASSUME NEW r \in pos .. q - 2, T[r] = END_OF_GLYPH PROVE FALSE
    OBVIOUS
  <2>1. r + 1 \in pos + 1 .. Len(T) + 1 /\ (r + 1) - 1 = r /\ r + 1 < q
    BY <1>1
  <2> QED
    BY <1>1, <1>3, <2>1
<1>5. \E x \in pos + 1 .. Len(T) + 1 :
         T[x - 1] = END_OF_GLYPH /\ \A r \in pos .. x - 2 : T[r] # END_OF_GLYPH
  BY <1>3, <1>4
<1> QED
  BY <1>5 DEF PastList

\* A SEQUENCE: the rest of the list is passed over, and its end (Psf1Parser.cpp:22-29).
LEMMA SkipStep ==
  ASSUME Parsed, SkipSequences
  PROVE  Parsed'
<1> DEFINE T == font.unicodeTable
           q == PastList(pos)
<1>1. /\ font' = font /\ L2' = L2 /\ pos' = q /\ currentGlyphIndex' = currentGlyphIndex + 1
      /\ currentGlyphIndex # font.glyphCount /\ T[pos] = SEQUENCE
  BY DEF SkipSequences, Initialized, Word, files
<1>2. font \in Fonts /\ T \in Seq(Word16) /\ font.glyphCount \in Nat /\ pos \in 1 .. Len(T)
  BY <1>1, FontType, MoreWords DEF Parsed, SkipSequences
<1>3. /\ q \in pos + 1 .. Len(T) + 1 /\ T[q - 1] = END_OF_GLYPH
      /\ \A r \in pos .. q - 2 : T[r] # END_OF_GLYPH
  BY ListEnds DEF SkipSequences
<1> HIDE DEF q, T
<1>4. \A r \in pos .. q - 1 : EndsBefore(T, r) = EndsBefore(T, pos)
  <2> SUFFICES ASSUME NEW r \in pos .. q - 1 PROVE EndsBefore(T, r) = EndsBefore(T, pos)
    OBVIOUS
  <2>1. /\ pos \in 1 .. Len(T) + 1 /\ r \in pos .. Len(T) + 1
        /\ \A k \in pos .. r - 1 : T[k] # END_OF_GLYPH
    BY <1>2, <1>3
  <2> QED
    BY <1>2, <2>1, SameList
<1>5. currentGlyphIndex' = EndsBefore(T, pos')
  <2>1. q - 1 \in pos .. q - 1 /\ q - 1 \in 1 .. Len(T) /\ (q - 1) + 1 = q
    BY <1>2, <1>3
  <2>2. EndsBefore(T, q) = EndsBefore(T, q - 1) + 1
    BY <1>2, <1>3, <2>1, NextList
  <2>3. EndsBefore(T, q - 1) = EndsBefore(T, pos)
    BY <1>4, <2>1
  <2> QED
    BY <1>1, <2>2, <2>3 DEF Parsed, T
<1>6. currentGlyphIndex' \in 0 .. font.glyphCount /\ pos' \in 1 .. Len(T) + 1
  <2>1. currentGlyphIndex' \in 0 .. font.glyphCount
    BY <1>1, <1>2, ParsedTypes
  <2>2. pos' \in 1 .. Len(T) + 1
    BY <1>1, <1>2, <1>3
  <2> QED
    BY <2>1, <2>2
<1>7. ~Passed(T, pos')
  <2>1. q - 1 \in 1 .. Len(T) /\ (q - 1) + 1 = q
    BY <1>2, <1>3
  <2> QED
    BY <1>1, <1>2, <1>3, <2>1, NewList
<1>8. ASSUME NEW c \in Word16 PROVE Listed(T, pos', c) = Listed(T, pos, c)
  <2>1. ASSUME NEW i \in pos .. q - 1 PROVE ~IsCharacter(T[i]) \/ Passed(T, i)
    <3>1. CASE i = pos
      BY <1>1, <3>1 DEF IsCharacter, T
    <3>2. CASE i # pos
      <4>1. pos \in 1 .. i - 1
        BY <1>2, <1>3, <3>2
      <4> QED
        BY <1>1, <1>4, <4>1 DEF Passed, T
    <3> QED
      BY <3>1, <3>2
  <2> QED
    BY <1>1, <1>2, <1>3, <2>1, NothingListed
<1>9. /\ \A c \in Word16 : Knows(L2, T, pos', c)
      /\ \A b \in 0 .. 255 : L2[b] # NULL <=> Tabled(T, pos', b)
  BY <1>8, KnowsStill DEF Parsed, T
<1> QED
  BY <1>1, <1>2, <1>3, <1>5, <1>6, <1>7, <1>9 DEF Parsed, T

\* A word of the font has 16 bits ...
LEMMA Words ==
  /\ \A w \in Word16 : w \in Nat /\ w < 256 * 256
  /\ \A w \in Nat : w < 256 * 256 => w \in Word16
<1>1. END_OF_GLYPH \in Nat
  BY SMT DEF END_OF_GLYPH
<1>2. /\ \A w \in Word16 : w \in Nat
      /\ \A w \in Nat : w \in Word16 <=> w <= END_OF_GLYPH
  BY <1>1 DEF Word16
<1>3. \A w \in Nat : w <= END_OF_GLYPH <=> w < 256 * 256
  BY SMT DEF END_OF_GLYPH
<1> QED
  BY <1>2, <1>3

\* ... and its upper and lower byte tell it from others.
LEMMA WordBytes ==
  /\ \A w \in Word16 : w \div 256 \in 0 .. 255 /\ w % 256 \in 0 .. 255
  /\ \A v, w \in Word16 : v \div 256 = w \div 256 /\ v % 256 = w % 256 => v = w
<1>1. \A w \in Nat : /\ w = 256 * (w \div 256) + (w % 256) /\ w % 256 \in 0 .. 255
                     /\ w < 256 * 256 => w \div 256 \in 0 .. 255
  BY SMT
<1>2. \A w \in Word16 : w \div 256 \in 0 .. 255 /\ w % 256 \in 0 .. 255
  <2> SUFFICES ASSUME NEW w \in Word16 PROVE w \div 256 \in 0 .. 255 /\ w % 256 \in 0 .. 255
    OBVIOUS
  <2>1. w \in Nat /\ w < 256 * 256
    BY Words
  <2> QED
    BY <1>1, <2>1
<1>3. ASSUME NEW v \in Word16, NEW w \in Word16, v \div 256 = w \div 256, v % 256 = w % 256
      PROVE  v = w
  <2>1. v = 256 * (v \div 256) + (v % 256) /\ w = 256 * (w \div 256) + (w % 256)
    BY <1>1, Words
  <2> QED
    BY <1>3, <2>1
<1> QED
  BY <1>2, <1>3

\* A number of more bits has an upper part, that of the first table.
LEMMA UpperPart == \A c \in Nat : c \in Word16 <=> c \div (256 * 256) = 0
<1>1. \A c \in Nat : c < 256 * 256 <=> c \div (256 * 256) = 0
  BY SMT
<1> QED
  BY <1>1, Words

\* nullptr is no glyph and no table.
LEMMA NullApart == NULL \notin Int /\ NULL \notin [0 .. 255 -> Int]
BY ConsoleAssumption

\* Putting a glyph into the tables changes what is found for its word alone,
\* and adds no table but for its upper byte.
LEMMA PutGlyph ==
  ASSUME Parsed, MapCharacter
  PROVE  /\ L2' \in [0 .. 255 -> {NULL} \cup [0 .. 255 -> Int]]
         /\ \A c \in Word16 : Found(L2', c) = IF c = Word THEN currentGlyphIndex ELSE Found(L2, c)
         /\ \A b \in 0 .. 255 : L2'[b] # NULL <=> L2[b] # NULL \/ b = Word \div 256
<1>1. Word \in Word16
  BY MoreWords DEF MapCharacter
<1> DEFINE w == Word
           old == TableFor(w \div 256)
           new == [old EXCEPT ![w % 256] = currentGlyphIndex]
<1>2. w \div 256 \in 0 .. 255 /\ w % 256 \in 0 .. 255
  BY <1>1, WordBytes
<1>3. L2 \in [0 .. 255 -> {NULL} \cup [0 .. 255 -> Int]]
  BY DEF Parsed
<1>10. currentGlyphIndex \in Int
  <2>1. font.glyphCount \in Nat
    BY FontType DEF Parsed
  <2>2. currentGlyphIndex \in 0 .. font.glyphCount
    BY DEF Parsed
  <2> QED
    BY <2>1, <2>2
<1>4. /\ old \in [0 .. 255 -> Int]
      /\ \A c \in Word16 : c \div 256 = w \div 256 => old[c % 256] = Found(L2, c)
  <2>1. CASE L2[w \div 256] = NULL
    <3>1. old = [l3_index \in 0 .. 255 |-> NO_GLYPH]
      BY <2>1 DEF TableFor
    <3> HIDE DEF w, old
    <3> QED
      BY <1>2, <2>1, <3>1, WordBytes DEF Found, NO_GLYPH
  <2>2. CASE L2[w \div 256] # NULL
    <3>1. old = L2[w \div 256]
      BY <2>2 DEF TableFor
    <3> HIDE DEF w, old
    <3>2. L2[w \div 256] \in [0 .. 255 -> Int]
      BY <1>2, <1>3, <2>2
    <3>3. ASSUME NEW c \in Word16, c \div 256 = w \div 256
          PROVE  old[c % 256] = Found(L2, c)
      BY <2>2, <3>1, <3>3 DEF Found
    <3> QED
      BY <3>1, <3>2, <3>3
  <2> QED
    BY <2>1, <2>2
<1>5. L2' = [L2 EXCEPT ![w \div 256] = new]
  BY DEF MapCharacter
<1> HIDE DEF w, old
<1>6. new \in [0 .. 255 -> Int] /\ new # NULL
  <2>1. old \in [0 .. 255 -> Int]
    BY <1>4
  <2>2. new \in [0 .. 255 -> Int]
    BY <1>10, <2>1
  <2> HIDE DEF new
  <2> QED
    BY <2>2, NullApart
<1>7. new[w % 256] = currentGlyphIndex /\ \A k \in 0 .. 255 : k # w % 256 => new[k] = old[k]
  BY <1>2, <1>4
<1> HIDE DEF new
<1>8. L2' \in [0 .. 255 -> {NULL} \cup [0 .. 255 -> Int]]
  BY <1>2, <1>3, <1>5, <1>6
<1>9. ASSUME NEW c \in Word16
      PROVE  Found(L2', c) = IF c = w THEN currentGlyphIndex ELSE Found(L2, c)
  <2>1. c \div 256 \in 0 .. 255 /\ c % 256 \in 0 .. 255
    BY WordBytes
  <2>2. CASE c = w
    <3>1. L2'[c \div 256] = new
      BY <1>2, <1>3, <1>5, <2>2
    <3> QED
      BY <1>6, <1>7, <2>2, <3>1 DEF Found
  <2>3. CASE c # w /\ c \div 256 = w \div 256
    <3>1. c % 256 # w % 256
      BY <1>1, <2>3, WordBytes DEF w
    <3>2. Found(L2', c) = new[c % 256]
      <4>1. L2'[c \div 256] = new
        BY <1>2, <1>3, <1>5, <2>3
      <4> QED
        BY <1>6, <4>1 DEF Found
    <3> QED
      BY <1>4, <1>7, <2>1, <2>3, <3>1, <3>2
  <2>4. CASE c \div 256 # w \div 256
    <3>1. L2'[c \div 256] = L2[c \div 256]
      BY <1>3, <1>5, <2>1, <2>4
    <3> QED
      BY <2>4, <3>1 DEF Found
  <2> QED
    BY <2>2, <2>3, <2>4
<1>11. ASSUME NEW b \in 0 .. 255
       PROVE  L2'[b] # NULL <=> L2[b] # NULL \/ b = w \div 256
  BY <1>2, <1>3, <1>5, <1>6
<1> QED
  BY <1>8, <1>9, <1>11 DEF w

\* A character: the glyph is put into its tables (Psf1Parser.cpp:31-54).
LEMMA MapStep ==
  ASSUME Parsed, MapCharacter
  PROVE  Parsed'
<1> DEFINE T == font.unicodeTable
<1>1. /\ font' = font /\ pos' = pos + 1 /\ currentGlyphIndex' = currentGlyphIndex
      /\ currentGlyphIndex # font.glyphCount /\ IsCharacter(T[pos])
  BY DEF MapCharacter, Initialized, Word, PastCharacter, IsCharacter, files
<1>2. font \in Fonts /\ T \in Seq(Word16) /\ font.glyphCount \in Nat /\ pos \in 1 .. Len(T) /\ T[pos] \in Word16
  BY <1>1, FontType, MoreWords DEF Parsed, MapCharacter, Word
<1>3. L2' \in [0 .. 255 -> {NULL} \cup [0 .. 255 -> Int]]
  BY PutGlyph
<1>4. \A c \in Word16 : Found(L2', c) = IF c = T[pos] THEN currentGlyphIndex ELSE Found(L2, c)
  BY PutGlyph DEF Word
<1>11. /\ \A b \in 0 .. 255 : L2'[b] # NULL <=> L2[b] # NULL \/ b = T[pos] \div 256
       /\ \A b \in 0 .. 255 : L2[b] # NULL <=> Tabled(T, pos, b)
  BY PutGlyph DEF Word, Parsed
<1>5. currentGlyphIndex = EndsBefore(T, pos) /\ ~Passed(T, pos) /\ currentGlyphIndex \in Nat
  <2>1. currentGlyphIndex \in 0 .. font.glyphCount
    BY DEF Parsed
  <2>2. currentGlyphIndex \in Nat
    BY <1>2, <2>1
  <2> QED
    BY <2>2 DEF Parsed
<1>6. \A c \in Word16 : Knows(L2, T, pos, c)
  BY DEF Parsed
<1> HIDE DEF T
<1>7. EndsBefore(T, pos + 1) = EndsBefore(T, pos)
  BY <1>1, <1>2, NextList DEF IsCharacter
<1>8. ~Passed(T, pos + 1)
  <2> SUFFICES ASSUME NEW j \in 1 .. pos, T[j] = SEQUENCE, EndsBefore(T, j) = EndsBefore(T, pos + 1)
               PROVE  FALSE
    BY <1>2 DEF Passed
  <2>1. j # pos
    BY <1>1 DEF IsCharacter
  <2>2. j \in 1 .. pos - 1
    BY <1>2, <2>1
  <2> QED
    BY <1>5, <1>7, <2>2 DEF Passed
<1>12. ASSUME NEW c \in Word16
       PROVE  Listed(T, pos + 1, c) = Listed(T, pos, c) \cup {i \in {pos} : T[i] = c}
  BY <1>1, <1>2, <1>5 DEF Listed
<1>9. ASSUME NEW c \in Word16 PROVE Knows(L2', T, pos + 1, c)
  <2>1. CASE c = T[pos]
    <3>1. Listed(T, pos + 1, c) = Listed(T, pos, c) \cup {pos}
      BY <1>12, <2>1
    <3>2. \A i \in Listed(T, pos, c) : EndsBefore(T, i) <= EndsBefore(T, pos)
      <4> SUFFICES ASSUME NEW i \in 1 .. pos - 1 PROVE EndsBefore(T, i) <= EndsBefore(T, pos)
        BY DEF Listed
      <4>1. i \in 1 .. Len(T) + 1 /\ pos \in i .. Len(T) + 1
        BY <1>2
      <4> QED
        BY <1>2, <4>1, ListsInOrder
    <3>3. Found(L2', c) = EndsBefore(T, pos)
      BY <1>4, <1>5, <2>1
    <3> QED
      BY <1>5, <3>1, <3>2, <3>3 DEF Knows
  <2>2. CASE c # T[pos]
    <3>1. Listed(T, pos + 1, c) = Listed(T, pos, c)
      BY <1>12, <2>2
    <3>2. Found(L2', c) = Found(L2, c)
      BY <1>4, <2>2
    <3> QED
      BY <1>6, <3>1, <3>2 DEF Knows
  <2> QED
    BY <2>1, <2>2
<1>10. pos' \in 1 .. Len(T) + 1
  BY <1>1, <1>2
<1>13. ASSUME NEW b \in 0 .. 255
       PROVE  L2'[b] # NULL <=> Tabled(T, pos + 1, b)
  <2>1. Tabled(T, pos + 1, b) <=> Tabled(T, pos, b) \/ b = T[pos] \div 256
    BY <1>2, <1>12 DEF Tabled
  <2> QED
    BY <1>11, <2>1
<1> QED
  BY <1>1, <1>2, <1>3, <1>5, <1>7, <1>8, <1>9, <1>10, <1>13 DEF Parsed, T, Initialized

\* At the beginning nothing is listed, and the tables are null.
LEMMA ParsedInit == Init => Parsed
<1> SUFFICES ASSUME Init PROVE Parsed
  OBVIOUS
<1> DEFINE T == font.unicodeTable
<1>1. /\ font \in Fonts /\ pos = 1 /\ currentGlyphIndex = 0
      /\ L2 = [l2_index \in 0 .. 255 |-> NULL]
  BY DEF Init
<1>2. font.glyphCount \in Nat /\ T \in Seq(Word16) /\ Len(T) \in Nat
  BY <1>1, FontType
<1>3. EndsBefore(T, 1) = 0
  BY <1>2, NextList
<1>4. ASSUME NEW c \in Word16 PROVE Knows(L2, T, 1, c)
  <2>1. Listed(T, 1, c) = {}
    BY DEF Listed
  <2>2. Found(L2, c) = NO_GLYPH
    BY <1>1, WordBytes DEF Found
  <2> QED
    BY <2>1, <2>2 DEF Knows
<1>5. ~Passed(T, 1)
  BY DEF Passed
<1>6. L2 \in [0 .. 255 -> {NULL} \cup [0 .. 255 -> Int]]
  BY <1>1
<1>7. pos \in 1 .. Len(T) + 1 /\ currentGlyphIndex \in 0 .. font.glyphCount
  <2>1. pos = 1 /\ currentGlyphIndex = 0
    BY <1>1
  <2>2. 1 \in 1 .. Len(T) + 1 /\ 0 \in 0 .. font.glyphCount
    BY <1>2
  <2> QED
    BY <2>1, <2>2
<1>8. \A b \in 0 .. 255 : L2[b] # NULL <=> Tabled(T, 1, b)
  BY <1>1 DEF Tabled, Listed
<1> QED
  BY <1>1, <1>3, <1>4, <1>5, <1>6, <1>7, <1>8 DEF Parsed

\* Every step keeps what the parser knows; printing leaves it alone.
LEMMA ParsedStep == Parsed /\ [Next]_vars => Parsed'
<1> SUFFICES ASSUME Parsed, [Next]_vars PROVE Parsed'
  OBVIOUS
<1>1. CASE NextGlyph
  BY <1>1, NextGlyphStep
<1>2. CASE SkipSequences
  BY <1>2, SkipStep
<1>3. CASE MapCharacter
  BY <1>3, MapStep
<1>4. CASE NewLine \/ DrawGlyph \/ Done \/ UNCHANGED vars
  <2>1. UNCHANGED << font, parser >>
    BY <1>4 DEF NewLine, DrawGlyph, Done, vars, files
  <2> QED
    BY <2>1 DEF Parsed, parser, Initialized
<1> QED
  BY <1>1, <1>2, <1>3, <1>4 DEF Next, Step

-----------------------------------------------------------------------------
\* What has been parsed

\* What the parser knows, in every state.
LEMMA Always == Spec => []Parsed
  BY ParsedInit, ParsedStep, PTL DEF Spec

\* Once the parser has stopped, what is listed before pos is all of the font.
LEMMA AllListed ==
  ASSUME Parsed, Initialized, NEW c
  PROVE  GlyphsOf(c) = {EndsBefore(font.unicodeTable, i) : i \in Listed(font.unicodeTable, pos, c)}
<1> DEFINE T == font.unicodeTable
<1>1. /\ font \in Fonts /\ T \in Seq(Word16) /\ font.glyphCount \in Nat /\ Len(T) \in Nat
      /\ pos \in 1 .. Len(T) + 1 /\ font.glyphCount = EndsBefore(T, pos)
      /\ pos = 1 \/ T[pos - 1] = END_OF_GLYPH
  BY FontType DEF Parsed, Initialized
<1> HIDE DEF T
<1>2. ASSUME NEW i \in 1 .. pos - 1 PROVE EndsBefore(T, i) \in 0 .. font.glyphCount - 1
  <2>1. /\ pos - 1 \in 1 .. Len(T) /\ (pos - 1) + 1 = pos /\ T[pos - 1] = END_OF_GLYPH
        /\ i \in 1 .. Len(T) + 1 /\ pos - 1 \in i .. Len(T) + 1
    BY <1>1
  <2>2. EndsBefore(T, pos) = EndsBefore(T, pos - 1) + 1
    BY <1>1, <2>1, NextList
  <2>3. EndsBefore(T, i) <= EndsBefore(T, pos - 1) /\ EndsBefore(T, i) \in Nat /\ EndsBefore(T, pos - 1) \in Nat
    <3>1. i \in 1 .. Len(T) + 1 /\ pos - 1 \in 1 .. Len(T) + 1
      BY <1>1, <2>1
    <3>2. EndsBefore(T, i) \in Nat /\ EndsBefore(T, pos - 1) \in Nat
      BY <1>1, <3>1, EndsFinite
    <3>3. EndsBefore(T, i) <= EndsBefore(T, pos - 1)
      BY <1>1, <2>1, ListsInOrder
    <3> QED
      BY <3>2, <3>3
  <2> QED
    BY <1>1, <2>2, <2>3
<1>3. ASSUME NEW i \in pos .. Len(T) PROVE EndsBefore(T, i) \notin 0 .. font.glyphCount - 1
  <2>1. i \in pos .. Len(T) + 1
    BY <1>1
  <2>2. EndsBefore(T, pos) <= EndsBefore(T, i)
    BY <1>1, <2>1, ListsInOrder
  <2> QED
    BY <1>1, <2>2
<1>4. DOMAIN T = (1 .. pos - 1) \cup (pos .. Len(T)) /\ (1 .. pos - 1) \subseteq DOMAIN T
  <2>1. DOMAIN T = 1 .. Len(T)
    BY <1>1
  <2> QED
    BY <1>1, <2>1
<1>5. GlyphsOf(c) = {EndsBefore(T, i) : i \in {k \in DOMAIN T : T[k] = c /\ IsCharacter(c) /\ ~Passed(T, k)}}
                       \cap 0 .. font.glyphCount - 1
  BY DEF GlyphsOf, ListOf, InSequence, Passed, IsCharacter, T
<1> QED
  BY <1>2, <1>3, <1>4, <1>5 DEF Listed, T

\* GlyphOf is the last of the glyphs.
LEMMA LastGlyph ==
  ASSUME NEW c, NEW g \in GlyphsOf(c), g \in Nat, \A h \in GlyphsOf(c) : h \in Nat /\ h <= g
  PROVE  GlyphOf(c) = g
<1>1. \A x \in GlyphsOf(c) \cup {NO_GLYPH} : (\A h \in GlyphsOf(c) : h <= x) => x = g
  BY DEF NO_GLYPH
<1> QED
  BY <1>1 DEF GlyphOf

\* Once the parser has stopped, the tables are those the font has glyphs for.
LEMMA TableIs ==
  ASSUME Parsed, Initialized, NEW c \in Word16
  PROVE  HasTable(c) <=> L2[c \div 256] # NULL
<1> DEFINE T == font.unicodeTable
<1>1. /\ T \in Seq(Word16) /\ Len(T) \in Nat /\ pos \in 1 .. Len(T) + 1
      /\ L2[c \div 256] # NULL <=> Tabled(T, pos, c \div 256)
  BY FontType, WordBytes DEF Parsed
<1>2. c \div (256 * 256) = 0
  <2>1. c \in Nat
    BY Words
  <2> QED
    BY <2>1, UpperPart
<1>3. \A d : GlyphsOf(d) = {EndsBefore(T, i) : i \in Listed(T, pos, d)}
  BY AllListed
<1>4. \A d : GlyphsOf(d) # {} <=> Listed(T, pos, d) # {}
  BY <1>3
<1> HIDE DEF T
<1>5. ASSUME HasTable(c) PROVE Tabled(T, pos, c \div 256)
  <2>1. PICK i \in DOMAIN T : T[i] \div 256 = c \div 256 /\ GlyphsOf(T[i]) # {}
    BY <1>5 DEF HasTable, T
  <2>2. T[i] \in Word16
    BY <1>1
  <2> QED
    BY <1>4, <2>1, <2>2 DEF Tabled
<1>6. ASSUME Tabled(T, pos, c \div 256) PROVE HasTable(c)
  <2>1. PICK d \in Word16 : d \div 256 = c \div 256 /\ Listed(T, pos, d) # {}
    BY <1>6 DEF Tabled
  <2>2. PICK i \in 1 .. pos - 1 : T[i] = d
    BY <2>1 DEF Listed
  <2>3. i \in DOMAIN T
    BY <1>1
  <2>4. T[i] \div 256 = c \div 256 /\ GlyphsOf(T[i]) # {}
    BY <1>4, <2>1, <2>2
  <2> QED
    BY <1>2, <2>3, <2>4 DEF HasTable, T
<1> QED
  BY <1>1, <1>5, <1>6 DEF T

\* What the tables say, once for every number
LEMMA Lookup ==
  ASSUME Parsed, Initialized, NEW c \in Nat
  PROVE  /\ getGlyphIndex(c) = IF HasTable(c) THEN GlyphOf(c) ELSE NULL
         /\ IF GlyphsOf(c) = {} THEN GlyphOf(c) = NO_GLYPH ELSE GlyphOf(c) \in Nat
<1> DEFINE T == font.unicodeTable
           listed == Listed(T, pos, c)
<1>1. font \in Fonts /\ T \in Seq(Word16) /\ Len(T) \in Nat /\ pos \in 1 .. Len(T) + 1
  BY FontType DEF Parsed
<1>2. GlyphsOf(c) = {EndsBefore(T, i) : i \in listed}
  BY AllListed
<1>5. GlyphsOf(c) = {} => GlyphOf(c) = NO_GLYPH
  BY DEF GlyphOf
<1>3. CASE c \in Word16
  <2>1. Knows(L2, T, pos, c)
    BY <1>3 DEF Parsed
  <2>2. getGlyphIndex(c) = IF L2[c \div 256] = NULL THEN NULL ELSE Found(L2, c)
    <3>1. c \div (256 * 256) = 0
      BY <1>3, UpperPart
    <3> QED
      BY <3>1 DEF getGlyphIndex, Found
  <2>5. HasTable(c) <=> L2[c \div 256] # NULL
    BY <1>3, TableIs
  <2>3. CASE listed = {}
    <3>1. GlyphsOf(c) = {}
      BY <1>2, <2>3
    <3> QED
      BY <1>5, <2>1, <2>2, <2>3, <2>5, <3>1 DEF Knows
  <2>4. CASE listed # {}
    <3>1. PICK i \in listed : Found(L2, c) = EndsBefore(T, i)
      BY <2>1, <2>4 DEF Knows
    <3>2. \A k \in listed : EndsBefore(T, k) \in Nat /\ EndsBefore(T, k) <= Found(L2, c)
      <4>1. \A k \in listed : k \in 1 .. Len(T) + 1
        BY <1>1 DEF Listed
      <4> QED
        BY <1>1, <2>1, <2>4, <4>1, EndsFinite DEF Knows
    <3>3. L2[c \div 256] # NULL
      <4>1. Found(L2, c) \in Nat
        BY <3>1, <3>2
      <4> QED
        BY <4>1 DEF Found, NO_GLYPH
    <3> HIDE DEF listed
    <3>4. EndsBefore(T, i) \in GlyphsOf(c)
      BY <1>2
    <3>5. \A h \in GlyphsOf(c) : h \in Nat /\ h <= EndsBefore(T, i)
      BY <1>2, <3>1, <3>2
    <3>6. GlyphOf(c) = EndsBefore(T, i)
      BY <3>4, <3>5, LastGlyph
    <3> QED
      BY <2>2, <2>5, <3>1, <3>2, <3>3, <3>4, <3>6
  <2> QED
    BY <2>3, <2>4
<1>4. CASE c \notin Word16
  <2>1. c \div (256 * 256) # 0
    BY <1>4, UpperPart
  <2>2. listed = {}
    <3>1. \A i \in 1 .. pos - 1 : T[i] \in Word16
      BY <1>1
    <3> QED
      BY <1>4, <3>1 DEF Listed
  <2> QED
    BY <1>2, <1>5, <2>1, <2>2 DEF getGlyphIndex, HasTable
<1> QED
  BY <1>3, <1>4

\* What is assumed of a text.
LEMMA TextType ==
  ASSUME NEW cs \in Texts
  PROVE  /\ Len(cs) \in Nat /\ DOMAIN cs = 1 .. Len(cs)
         /\ \A n \in 1 .. Len(cs) : cs[n] \in CodePoints /\ cs[n] \in Nat
<1>1. \A c \in CodePoints : c \in Nat
  <2>1. LastCodePoint \in Nat
    BY SMT DEF LastCodePoint
  <2> QED
    BY <2>1 DEF CodePoints
<1>2. cs \in Seq(CodePoints)
  BY ConsoleAssumption
<1>3. Len(cs) \in Nat /\ DOMAIN cs = 1 .. Len(cs) /\ \A n \in 1 .. Len(cs) : cs[n] \in CodePoints
  BY <1>2
<1> QED
  BY <1>1, <1>3

\* For every font, what getGlyphIndex finds for a character is the last glyph
\* the font lists for it outside its sequences; it finds 0xFFFFFFFF if there is
\* none, and a null table if there is none for any character with its upper
\* byte (Psf1Parser.cpp:17-56, 80-89).
THEOREM FontIsRead == Spec => []LookupIsFont
<1>1. Parsed /\ text \in Texts => LookupIsFont
  <2> SUFFICES ASSUME Parsed, Initialized, text \in Texts, NEW c \in Characters
               PROVE  getGlyphIndex(c) = IF HasTable(c) THEN GlyphOf(c) ELSE NULL
    BY DEF LookupIsFont
  <2>1. c \in Nat
    <3>1. \A n \in DOMAIN text : text[n] \in Nat
      BY TextType
    <3>2. \A i \in DOMAIN font.unicodeTable : font.unicodeTable[i] \in Nat
      <4>1. font.unicodeTable \in Seq(Word16)
        BY FontType DEF Parsed
      <4>2. \A w \in Word16 : w \in Nat
        BY Words
      <4> QED
        BY <4>1, <4>2
    <3> QED
      BY <3>1, <3>2 DEF Characters
  <2> QED
    BY <2>1, Lookup
<1>2. Init => text \in Texts
  BY DEF Init
<1>3. text \in Texts /\ [Next]_vars => (text \in Texts)'
  BY DEF Next, Step, NextGlyph, SkipSequences, MapCharacter, NewLine, DrawGlyph, Done, vars, files
<1> QED
  BY <1>1, <1>2, <1>3, Always, PTL DEF Spec

-----------------------------------------------------------------------------
\* UTF-8

\* Code points are numbers up to the last one.
LEMMA CodePointType ==
  ASSUME NEW c \in CodePoints
  PROVE  c \in Nat /\ 1 <= c /\ c <= 17 * 256 * 256 - 1
<1>1. LastCodePoint \in Nat
  BY SMT DEF LastCodePoint
<1>2. c \in Nat /\ 1 <= c /\ c <= LastCodePoint
  BY <1>1 DEF CodePoints
<1> QED
  BY <1>2, SMT DEF LastCodePoint

\* The number of bytes is in the upper bits of the first.
LEMMA FirstBits ==
  ASSUME NEW q \in Nat
  PROVE  /\ q < 32 => charSize(192 + q) = 2
         /\ q < 16 => charSize(224 + q) = 3
         /\ q < 8 => charSize(240 + q) = 4
<1>1. q < 32 => ~(192 + q < 128) /\ (192 + q) \div 32 = 6
  BY SMT
<1>2. q < 16 => ~(224 + q < 128) /\ (224 + q) \div 32 = 7 /\ (224 + q) \div 16 = 14
  BY SMT
<1>3. q < 8 => /\ ~(240 + q < 128) /\ (240 + q) \div 32 = 7
               /\ (240 + q) \div 16 = 15 /\ (240 + q) \div 8 = 30
  BY SMT
<1> QED
  BY <1>1, <1>2, <1>3 DEF charSize

\* What the first byte says is so; and it is 10 for the line feed alone.
LEMMA FirstByte ==
  ASSUME NEW c \in CodePoints
  PROVE  /\ Utf8(c) \in Seq(Nat) /\ Len(Utf8(c)) \in 1 .. 4
         /\ charSize(Utf8(c)[1]) = Len(Utf8(c))
         /\ Utf8(c)[1] = 10 <=> c = 10
         /\ c = 10 => Len(Utf8(c)) = 1
<1>1. c \in Nat /\ 1 <= c /\ c <= 17 * 256 * 256 - 1
  BY CodePointType
<1> DEFINE u == Utf8(c)
<1>2. CASE c < 128
  <2>1. u = << c >>
    BY <1>2 DEF Utf8
  <2> QED
    BY <1>1, <1>2, <2>1, SMT DEF charSize
<1>3. CASE 128 <= c /\ c < 32 * 64
  <2>1. u = << 192 + c \div 64, 128 + (c % 64) >>
    BY <1>1, <1>3, SMT DEF Utf8
  <2>2. c \div 64 \in Nat /\ c \div 64 < 32 /\ c % 64 \in Nat
    BY <1>1, <1>3, SMT
  <2>3. /\ u \in Seq(Nat) /\ Len(u) = 2 /\ u[1] = 192 + c \div 64
    BY <2>1, <2>2, SMT
  <2>4. charSize(u[1]) = 2
    BY <2>2, <2>3, FirstBits
  <2> QED
    BY <1>1, <1>3, <2>2, <2>3, <2>4, SMT
<1>4. CASE 32 * 64 <= c /\ c < 16 * 64 * 64
  <2>1. u = << 224 + c \div (64 * 64), 128 + ((c \div 64) % 64), 128 + (c % 64) >>
    BY <1>1, <1>4, SMT DEF Utf8
  <2>2. c \div (64 * 64) \in Nat /\ c \div (64 * 64) < 16 /\ c % 64 \in Nat /\ (c \div 64) % 64 \in Nat
    BY <1>1, <1>4, SMT
  <2>3. /\ u \in Seq(Nat) /\ Len(u) = 3 /\ u[1] = 224 + c \div (64 * 64)
    BY <2>1, <2>2, SMT
  <2>4. charSize(u[1]) = 3
    BY <2>2, <2>3, FirstBits
  <2> QED
    BY <1>1, <1>4, <2>2, <2>3, <2>4, SMT
<1>5. CASE 16 * 64 * 64 <= c
  <2>1. u = << 240 + c \div (64 * 64 * 64), 128 + ((c \div (64 * 64)) % 64), 128 + ((c \div 64) % 64), 128 + (c % 64) >>
    BY <1>1, <1>5, SMT DEF Utf8
  <2>2. /\ c \div (64 * 64 * 64) \in Nat /\ c \div (64 * 64 * 64) < 8 /\ c % 64 \in Nat
        /\ (c \div 64) % 64 \in Nat /\ (c \div (64 * 64)) % 64 \in Nat
    BY <1>1, <1>5, SMT
  <2>3. /\ u \in Seq(Nat) /\ Len(u) = 4 /\ u[1] = 240 + c \div (64 * 64 * 64)
    BY <2>1, <2>2, SMT
  <2>4. charSize(u[1]) = 4
    BY <2>2, <2>3, FirstBits
  <2> QED
    BY <1>1, <1>5, <2>2, <2>3, <2>4, SMT
<1> QED
  BY <1>1, <1>2, <1>3, <1>4, <1>5, SMT

\* What is encoded is decoded.
LEMMA DecodesBack ==
  ASSUME NEW c \in CodePoints, NEW s,
         \A k \in 1 .. Len(Utf8(c)) : s[k] = Utf8(c)[k]
  PROVE  decodeUtf8(s, Len(Utf8(c))) = c
<1>1. c \in Nat /\ 1 <= c /\ c <= 17 * 256 * 256 - 1
  BY CodePointType
<1> DEFINE u == Utf8(c)
<1>2. CASE c < 128
  <2>1. u = << c >>
    BY <1>2 DEF Utf8
  <2>2. Len(u) = 1 /\ s[1] = c
    BY <2>1, SMT
  <2> QED
    BY <2>2, SMT DEF decodeUtf8
<1>3. CASE 128 <= c /\ c < 32 * 64
  <2>1. u = << 192 + c \div 64, 128 + (c % 64) >>
    BY <1>1, <1>3, SMT DEF Utf8
  <2>2. Len(u) = 2 /\ s[1] = 192 + c \div 64 /\ s[2] = 128 + (c % 64)
    BY <2>1, SMT
  <2>3. (192 + c \div 64) % 32 = c \div 64 /\ (128 + (c % 64)) % 64 = c % 64
    BY <1>1, <1>3, SMT
  <2>4. (c \div 64) * 64 + (c % 64) = c
    BY <1>1, SMT
  <2>5. decodeUtf8(s, 2) = (s[1] % 32) * 64 + (s[2] % 64)
    BY SMT DEF decodeUtf8
  <2> QED
    BY <2>2, <2>3, <2>4, <2>5
<1>4. CASE 32 * 64 <= c /\ c < 16 * 64 * 64
  <2>1. u = << 224 + c \div (64 * 64), 128 + ((c \div 64) % 64), 128 + (c % 64) >>
    BY <1>1, <1>4, SMT DEF Utf8
  <2>2. /\ Len(u) = 3 /\ s[1] = 224 + c \div (64 * 64) /\ s[2] = 128 + ((c \div 64) % 64)
        /\ s[3] = 128 + (c % 64)
    BY <2>1, SMT
  <2>3. /\ (224 + c \div (64 * 64)) % 16 = c \div (64 * 64) /\ (128 + (c % 64)) % 64 = c % 64
        /\ (128 + ((c \div 64) % 64)) % 64 = (c \div 64) % 64
    BY <1>1, <1>4, SMT
  <2>4. (c \div (64 * 64)) * (64 * 64) + ((c \div 64) % 64) * 64 + (c % 64) = c
    BY <1>1, SMT
  <2>5. decodeUtf8(s, 3) = (s[1] % 16) * (64 * 64) + (s[2] % 64) * 64 + (s[3] % 64)
    BY SMT DEF decodeUtf8
  <2> QED
    BY <2>2, <2>3, <2>4, <2>5
<1>5. CASE 16 * 64 * 64 <= c
  <2>1. u = << 240 + c \div (64 * 64 * 64), 128 + ((c \div (64 * 64)) % 64), 128 + ((c \div 64) % 64), 128 + (c % 64) >>
    BY <1>1, <1>5, SMT DEF Utf8
  <2>2. /\ Len(u) = 4 /\ s[1] = 240 + c \div (64 * 64 * 64) /\ s[2] = 128 + ((c \div (64 * 64)) % 64)
        /\ s[3] = 128 + ((c \div 64) % 64) /\ s[4] = 128 + (c % 64)
    BY <2>1, SMT
  <2>3. /\ (240 + c \div (64 * 64 * 64)) % 8 = c \div (64 * 64 * 64) /\ (128 + (c % 64)) % 64 = c % 64
        /\ (128 + ((c \div 64) % 64)) % 64 = (c \div 64) % 64
        /\ (128 + ((c \div (64 * 64)) % 64)) % 64 = (c \div (64 * 64)) % 64
    BY <1>1, <1>5, SMT
  <2>4. (c \div (64 * 64 * 64)) * (64 * 64 * 64) + ((c \div (64 * 64)) % 64) * (64 * 64) + ((c \div 64) % 64) * 64 + (c % 64) = c
    BY <1>1, SMT
  <2>5. decodeUtf8(s, 4) = (s[1] % 8) * (64 * 64 * 64) + (s[2] % 64) * (64 * 64) + (s[3] % 64) * 64 + (s[4] % 64)
    BY SMT DEF decodeUtf8
  <2> QED
    BY <2>2, <2>3, <2>4, <2>5
<1> QED
  BY <1>1, <1>2, <1>3, <1>4, <1>5, SMT

-----------------------------------------------------------------------------
\* The bytes of a text

IsEncoding(f, cs, m) ==
  f = [n \in 0 .. m |-> IF n = 0 THEN << >> ELSE f[n - 1] \o Utf8(cs[n])]

\* The function that encodes a text exists.
LEMMA EncodingExists ==
  ASSUME NEW cs, NEW m \in Nat
  PROVE  \E f : IsEncoding(f, cs, m)
<1> DEFINE S == {k \in Nat : ~\E f : IsEncoding(f, cs, k)}
<1> SUFFICES ASSUME S # {} PROVE FALSE
  OBVIOUS
<1>1. PICK k \in S : \A y \in S : k <= y
  BY Least
<1>2. CASE k = 0
  <2> DEFINE f == [n \in 0 .. 0 |-> << >>]
  <2>1. f = [n \in 0 .. 0 |-> IF n = 0 THEN << >> ELSE f[n - 1] \o Utf8(cs[n])]
    OBVIOUS
  <2> QED
    BY <1>1, <1>2, <2>1 DEF IsEncoding
<1>3. CASE k # 0
  <2>1. k \in Nat /\ k - 1 \in Nat /\ k - 1 \notin S
    BY <1>1, <1>3
  <2>2. PICK g : IsEncoding(g, cs, k - 1)
    BY <2>1
  <2> DEFINE f == [n \in 0 .. k |-> IF n = k THEN g[k - 1] \o Utf8(cs[k]) ELSE g[n]]
  <2>3. \A n \in 0 .. k - 1 : g[n] = IF n = 0 THEN << >> ELSE g[n - 1] \o Utf8(cs[n])
    BY <2>2 DEF IsEncoding
  <2>4. \A n \in 0 .. k : f[n] = IF n = 0 THEN << >> ELSE f[n - 1] \o Utf8(cs[n])
    BY <1>3, <2>1, <2>3
  <2>5. f = [n \in 0 .. k |-> IF n = 0 THEN << >> ELSE f[n - 1] \o Utf8(cs[n])]
    BY <2>4
  <2> QED
    BY <1>1, <2>5 DEF IsEncoding
<1> QED
  BY <1>2, <1>3

\* The bytes of the first n characters
Beginning(cs) ==
  CHOOSE f : f = [n \in 0 .. Len(cs) |-> IF n = 0 THEN << >> ELSE f[n - 1] \o Utf8(cs[n])]

\* What a character adds to the bytes of a text.
LEMMA BeginningIs ==
  ASSUME NEW cs \in Texts
  PROVE  /\ Encoded(cs) = Beginning(cs)[Len(cs)]
         /\ Beginning(cs)[0] = << >>
         /\ \A n \in 1 .. Len(cs) : Beginning(cs)[n] = Beginning(cs)[n - 1] \o Utf8(cs[n])
         /\ \A n \in 0 .. Len(cs) : Beginning(cs)[n] \in Seq(Nat)
<1> DEFINE B == Beginning(cs)
<1>1. Len(cs) \in Nat /\ \A n \in 1 .. Len(cs) : cs[n] \in CodePoints
  BY TextType
<1>2. PICK f : IsEncoding(f, cs, Len(cs))
  BY <1>1, EncodingExists
<1>3. B = [n \in 0 .. Len(cs) |-> IF n = 0 THEN << >> ELSE B[n - 1] \o Utf8(cs[n])]
  BY <1>2 DEF IsEncoding, Beginning
<1>4. Encoded(cs) = B[Len(cs)]
  BY DEF Encoded, Beginning
<1> HIDE DEF B
<1>5. B[0] = << >> /\ \A n \in 1 .. Len(cs) : B[n] = B[n - 1] \o Utf8(cs[n])
  <2>1. \A n \in 0 .. Len(cs) : B[n] = IF n = 0 THEN << >> ELSE B[n - 1] \o Utf8(cs[n])
    BY <1>3
  <2>2. 0 \in 0 .. Len(cs) /\ \A n \in 1 .. Len(cs) : n \in 0 .. Len(cs) /\ n # 0
    BY <1>1
  <2> QED
    BY <2>1, <2>2
<1> DEFINE S == {n \in Nat : n <= Len(cs) /\ B[n] \notin Seq(Nat)}
<1>6. S = {}
  <2> SUFFICES ASSUME S # {} PROVE FALSE
    OBVIOUS
  <2>1. PICK n \in S : \A y \in S : n <= y
    BY Least
  <2>2. n # 0
    <3>1. << >> \in Seq(Nat)
      OBVIOUS
    <3>2. B[n] \notin Seq(Nat)
      BY <2>1
    <3> QED
      BY <1>5, <3>1, <3>2
  <2>3. n \in 1 .. Len(cs) /\ n - 1 \in Nat /\ n - 1 \notin S
    BY <1>1, <2>1, <2>2
  <2>4. B[n - 1] \in Seq(Nat)
    BY <1>1, <2>3
  <2>5. Utf8(cs[n]) \in Seq(Nat)
    BY <1>1, <2>3, FirstByte
  <2>6. B[n] \in Seq(Nat)
    <3>1. B[n] = B[n - 1] \o Utf8(cs[n])
      BY <1>5, <2>3
    <3>2. B[n - 1] \o Utf8(cs[n]) \in Seq(Nat)
      BY <2>4, <2>5
    <3> QED
      BY <3>1, <3>2
  <2> QED
    BY <2>1, <2>6
<1>7. \A n \in 0 .. Len(cs) : B[n] \in Seq(Nat)
  <2> SUFFICES ASSUME NEW n \in 0 .. Len(cs) PROVE B[n] \in Seq(Nat)
    OBVIOUS
  <2>1. n \in Nat /\ n <= Len(cs)
    BY <1>1
  <2> QED
    BY <1>6, <2>1
<1> QED
  BY <1>4, <1>5, <1>7 DEF B

\* A text begins with the bytes of its first characters.
LEMMA Prefixes ==
  ASSUME NEW cs \in Texts, NEW n \in 0 .. Len(cs)
  PROVE  \A m \in n .. Len(cs) :
           /\ Len(Beginning(cs)[n]) + (m - n) <= Len(Beginning(cs)[m])
           /\ \A i \in 1 .. Len(Beginning(cs)[n]) : Beginning(cs)[m][i] = Beginning(cs)[n][i]
<1> DEFINE B(m) == Beginning(cs)[m]
           Holds(m) == /\ Len(B(n)) + (m - n) <= Len(B(m))
                       /\ \A i \in 1 .. Len(B(n)) : B(m)[i] = B(n)[i]
           S == {m \in Nat : n <= m /\ m <= Len(cs) /\ ~Holds(m)}
<1>1. Len(cs) \in Nat /\ \A m \in 1 .. Len(cs) : cs[m] \in CodePoints
  BY TextType
<1>2. /\ \A m \in 1 .. Len(cs) : B(m) = B(m - 1) \o Utf8(cs[m])
      /\ \A m \in 0 .. Len(cs) : B(m) \in Seq(Nat)
  BY BeginningIs
<1> HIDE DEF B
<1>3. S = {}
  <2> SUFFICES ASSUME S # {} PROVE FALSE
    OBVIOUS
  <2>1. PICK m \in S : \A y \in S : m <= y
    BY Least
  <2>2. m # n
    <3>1. Len(B(n)) \in Nat
      BY <1>2
    <3>2. Holds(n)
      BY <1>1, <3>1
    <3> QED
      BY <2>1, <3>2
  <2>3. m \in 1 .. Len(cs) /\ m - 1 \in Nat /\ n <= m - 1 /\ m - 1 \in 0 .. Len(cs)
    BY <1>1, <2>1, <2>2
  <2>4. Holds(m - 1)
    <3> HIDE DEF Holds
    <3>1. m - 1 \notin S
      <4> HIDE DEF S
      <4>1. m \in Nat /\ ~(m <= m - 1)
        BY <1>1, <2>3
      <4> QED
        BY <2>1, <4>1
    <3> QED
      BY <2>3, <3>1
  <2> DEFINE p == B(m - 1)
             u == Utf8(cs[m])
             b == B(n)
  <2>5. /\ p \in Seq(Nat) /\ u \in Seq(Nat) /\ Len(u) \in 1 .. 4 /\ b \in Seq(Nat)
        /\ B(m) = p \o u
    BY <1>1, <1>2, <2>3, FirstByte
  <2>6. Len(b) + (m - 1 - n) <= Len(p) /\ \A i \in 1 .. Len(b) : p[i] = b[i]
    BY <2>4
  <2> HIDE DEF p, u, b
  <2>7. Len(p \o u) = Len(p) + Len(u) /\ \A i \in 1 .. Len(p) : (p \o u)[i] = p[i]
    BY <2>5
  <2>8. Len(p) \in Nat /\ Len(u) \in Nat /\ Len(u) >= 1 /\ Len(b) \in Nat /\ m \in Nat /\ n \in Nat
    <3>1. Len(p) \in Nat /\ Len(b) \in Nat
      BY <2>5
    <3>2. Len(u) \in Nat /\ Len(u) >= 1
      <4>1. \A k \in 1 .. 4 : k \in Nat /\ k >= 1
        OBVIOUS
      <4>2. Len(u) \in 1 .. 4
        BY <2>5
      <4> QED
        BY <4>1, <4>2
    <3>3. m \in Nat /\ n \in Nat
      BY <2>1
    <3> QED
      BY <3>1, <3>2, <3>3
  <2>9. Len(b) + (m - n) <= Len(B(m))
    BY <2>5, <2>6, <2>7, <2>8
  <2>10. \A i \in 1 .. Len(b) : B(m)[i] = b[i]
    <3> SUFFICES ASSUME NEW i \in 1 .. Len(b) PROVE B(m)[i] = b[i]
      OBVIOUS
    <3>1. i \in 1 .. Len(p)
      BY <2>3, <2>6, <2>8
    <3> QED
      BY <2>5, <2>6, <2>7, <3>1
  <2> QED
    BY <2>1, <2>9, <2>10 DEF b
<1>4. \A m \in n .. Len(cs) : Holds(m)
  <2> SUFFICES ASSUME NEW m \in n .. Len(cs) PROVE Holds(m)
    OBVIOUS
  <2>1. m \in Nat /\ n <= m /\ m <= Len(cs)
    BY <1>1
  <2> HIDE DEF Holds
  <2> QED
    BY <1>3, <2>1
<1> QED
  BY <1>4 DEF B

\* Behind the bytes of the first n characters are those of the next.
LEMMA NextBytes ==
  ASSUME NEW cs \in Texts, NEW n \in 0 .. Len(cs) - 1
  PROVE  LET before == Len(Beginning(cs)[n])
             u == Utf8(cs[n + 1])
         IN  /\ before \in Nat /\ Len(Beginning(cs)[n + 1]) = before + Len(u)
             /\ Encoded(cs) \in Seq(Nat)
             /\ before + Len(u) <= Len(Encoded(cs))
             /\ \A k \in 1 .. Len(u) : Encoded(cs)[before + k] = u[k]
<1> DEFINE B(m) == Beginning(cs)[m]
           u == Utf8(cs[n + 1])
<1>1. Len(cs) \in Nat /\ n + 1 \in 1 .. Len(cs) /\ n \in 0 .. Len(cs) /\ (n + 1) - 1 = n /\ Len(cs) \in n + 1 .. Len(cs)
      /\ n + 1 \in 0 .. Len(cs) /\ Len(cs) \in 0 .. Len(cs)
  BY TextType
<1>2. u \in Seq(Nat) /\ Len(u) \in 1 .. 4
  <2>1. cs[n + 1] \in CodePoints
    BY <1>1, TextType
  <2> QED
    BY <2>1, FirstByte
<1>3. /\ B(n + 1) = B(n) \o u /\ B(n) \in Seq(Nat) /\ Encoded(cs) = B(Len(cs)) /\ B(Len(cs)) \in Seq(Nat)
      /\ B(n + 1) \in Seq(Nat)
  BY <1>1, BeginningIs
<1>4. /\ Len(B(n + 1)) + (Len(cs) - (n + 1)) <= Len(B(Len(cs)))
      /\ \A i \in 1 .. Len(B(n + 1)) : B(Len(cs))[i] = B(n + 1)[i]
  BY <1>1, Prefixes
<1> HIDE DEF B, u
<1>5. /\ Len(B(n + 1)) = Len(B(n)) + Len(u)
      /\ \A k \in 1 .. Len(u) : B(n + 1)[Len(B(n)) + k] = u[k]
  BY <1>2, <1>3
<1>6. Len(B(n)) \in Nat /\ Len(u) \in Nat /\ Len(B(Len(cs))) \in Nat
  BY <1>2, <1>3
<1>7. Len(B(n)) + Len(u) <= Len(B(Len(cs)))
  BY <1>1, <1>4, <1>5, <1>6
<1>8. ASSUME NEW k \in 1 .. Len(u) PROVE B(Len(cs))[Len(B(n)) + k] = u[k]
  <2>1. Len(B(n)) + k \in 1 .. Len(B(n + 1))
    BY <1>5, <1>6
  <2> QED
    BY <1>4, <1>5, <2>1
<1> QED
  BY <1>3, <1>5, <1>6, <1>7, <1>8 DEF B, u

-----------------------------------------------------------------------------
\* Lines and columns

\* The first character is at the left of the first line.
LEMMA FirstPlace == Line(1) = 0 /\ Column(1) = 0
<1>1. LineFeeds(1) = {} /\ {m \in 1 .. 1 - 1 : \A k \in LineFeeds(1) : k < m} = {}
  BY DEF LineFeeds
<1> QED
  BY <1>1, FS_EmptySet DEF Line, Column

\* Lines and columns are numbers.
LEMMA PlaceTypes ==
  ASSUME NEW n \in Nat
  PROVE  Line(n) \in Nat /\ Column(n) \in Nat /\ IsFiniteSet(LineFeeds(n))
         /\ IsFiniteSet({m \in 1 .. n - 1 : \A k \in LineFeeds(n) : k < m})
<1>1. IsFiniteSet(1 .. n - 1)
  BY FS_Interval
<1>2. LineFeeds(n) \subseteq 1 .. n - 1
  BY DEF LineFeeds
<1>3. {m \in 1 .. n - 1 : \A k \in LineFeeds(n) : k < m} \subseteq 1 .. n - 1
  OBVIOUS
<1> QED
  BY <1>1, <1>2, <1>3, FS_Subset, FS_CardinalityType DEF Line, Column

\* Behind a line feed is the beginning of the next line.
LEMMA BehindLineFeed ==
  ASSUME NEW n \in Nat, n >= 1, text[n] = 10
  PROVE  Line(n + 1) = Line(n) + 1 /\ Column(n + 1) = 0
<1>1. LineFeeds(n + 1) = LineFeeds(n) \cup {n} /\ n \notin LineFeeds(n)
  BY DEF LineFeeds
<1>2. Cardinality(LineFeeds(n + 1)) = Cardinality(LineFeeds(n)) + 1
  BY <1>1, PlaceTypes, FS_AddElement
<1>3. {m \in 1 .. (n + 1) - 1 : \A k \in LineFeeds(n + 1) : k < m} = {}
  <2> SUFFICES ASSUME NEW m \in 1 .. n, \A k \in LineFeeds(n + 1) : k < m PROVE FALSE
    OBVIOUS
  <2>1. n < m
    BY <1>1
  <2> QED
    BY <2>1
<1> QED
  BY <1>2, <1>3, FS_EmptySet DEF Line, Column

\* Behind another character is the next column.
LEMMA BehindGlyph ==
  ASSUME NEW n \in Nat, n >= 1, text[n] # 10
  PROVE  Line(n + 1) = Line(n) /\ Column(n + 1) = Column(n) + 1
<1> DEFINE Here(i) == {m \in 1 .. i - 1 : \A k \in LineFeeds(i) : k < m}
<1>1. LineFeeds(n + 1) = LineFeeds(n)
  BY DEF LineFeeds
<1>2. \A k \in LineFeeds(n) : k < n
  BY DEF LineFeeds
<1>3. Here(n + 1) = Here(n) \cup {n} /\ n \notin Here(n)
  BY <1>1, <1>2
<1>4. IsFiniteSet(Here(n))
  BY PlaceTypes
<1>5. Cardinality(Here(n + 1)) = Cardinality(Here(n)) + 1
  BY <1>3, <1>4, FS_AddElement
<1> QED
  BY <1>1, <1>5 DEF Line, Column

-----------------------------------------------------------------------------
\* The picture of a text

Glyph(n) == [glyph |-> GlyphOf(text[n]), x |-> scale * 8 * Column(n),
             y |-> scale * font.charsize * Line(n)]

IsPicture(f, m) ==
  f = [n \in 0 .. m |-> IF n = 0 THEN << >> ELSE IF text[n] = 10 THEN f[n - 1]
                        ELSE Append(f[n - 1], Glyph(n))]

\* The function that draws a text exists.
LEMMA PictureExists ==
  ASSUME NEW m \in Nat
  PROVE  \E f : IsPicture(f, m)
<1> DEFINE S == {k \in Nat : ~\E f : IsPicture(f, k)}
<1> SUFFICES ASSUME S # {} PROVE FALSE
  OBVIOUS
<1>1. PICK k \in S : \A y \in S : k <= y
  BY Least
<1>2. CASE k = 0
  <2> DEFINE f == [n \in 0 .. 0 |-> << >>]
  <2>1. f = [n \in 0 .. 0 |-> IF n = 0 THEN << >> ELSE IF text[n] = 10 THEN f[n - 1]
                              ELSE Append(f[n - 1], Glyph(n))]
    OBVIOUS
  <2> QED
    BY <1>1, <1>2, <2>1 DEF IsPicture
<1>3. CASE k # 0
  <2>1. k \in Nat /\ k - 1 \in Nat /\ k - 1 \notin S
    BY <1>1, <1>3
  <2>2. PICK g : IsPicture(g, k - 1)
    BY <2>1
  <2> DEFINE next(h, n) == IF text[n] = 10 THEN h[n - 1] ELSE Append(h[n - 1], Glyph(n))
             f == [n \in 0 .. k |-> IF n = k THEN next(g, k) ELSE g[n]]
  <2>3. \A n \in 0 .. k - 1 : g[n] = IF n = 0 THEN << >> ELSE next(g, n)
    BY <2>2 DEF IsPicture
  <2>4. ASSUME NEW n \in 0 .. k PROVE f[n] = IF n = 0 THEN << >> ELSE next(f, n)
    <3>1. CASE n = k
      <4>1. f[k] = next(g, k) /\ f[k - 1] = g[k - 1]
        BY <2>1
      <4> QED
        BY <1>3, <3>1, <4>1
    <3>2. CASE n # k /\ n # 0
      <4>1. n \in 0 .. k - 1 /\ n - 1 \in 0 .. k /\ n - 1 # k
        BY <2>1, <3>2
      <4>2. f[n] = g[n] /\ f[n - 1] = g[n - 1]
        BY <3>2, <4>1
      <4> QED
        BY <2>3, <3>2, <4>1, <4>2
    <3>3. CASE n = 0
      <4>1. 0 \in 0 .. k - 1 /\ 0 # k
        BY <1>3, <2>1
      <4> QED
        BY <2>3, <3>3, <4>1
    <3> QED
      BY <3>1, <3>2, <3>3
  <2>5. f = [n \in 0 .. k |-> IF n = 0 THEN << >> ELSE next(f, n)]
    BY <2>4
  <2> QED
    BY <1>1, <2>5 DEF IsPicture
<1> QED
  BY <1>2, <1>3

\* What a character adds to the picture.
LEMMA PictureIs ==
  ASSUME text \in Texts
  PROVE  /\ Picture[0] = << >>
         /\ \A n \in 1 .. Len(text) :
              Picture[n] = IF text[n] = 10 THEN Picture[n - 1] ELSE Append(Picture[n - 1], Glyph(n))
<1> DEFINE P == Picture
<1>1. Len(text) \in Nat
  BY TextType
<1>2. PICK f : IsPicture(f, Len(text))
  BY <1>1, PictureExists
<1>3. P = CHOOSE g : IsPicture(g, Len(text))
  BY DEF Picture, IsPicture, Glyph
<1>4. IsPicture(P, Len(text))
  BY <1>2, <1>3
<1> HIDE DEF P
<1>5. \A n \in 0 .. Len(text) :
        P[n] = IF n = 0 THEN << >> ELSE IF text[n] = 10 THEN P[n - 1] ELSE Append(P[n - 1], Glyph(n))
  BY <1>4 DEF IsPicture
<1>6. 0 \in 0 .. Len(text) /\ \A n \in 1 .. Len(text) : n \in 0 .. Len(text) /\ n # 0
  BY <1>1
<1> QED
  BY <1>5, <1>6 DEF P

-----------------------------------------------------------------------------
\* What is on the screen

\* The first n characters are printed.  Where it has stopped it has met the
\* next one, and it halts the kernel.
Printed(n) ==
  /\ str = Len(Beginning(text)[n]) + 1
  /\ drawn = Picture[n]
  /\ posX = scale * 8 * Column(n + 1) /\ posY = scale * font.charsize * Line(n + 1)
  /\ \A m \in 1 .. n : text[m] = 10 \/ Drawable(text[m])
  /\ fault => n < Len(text) /\ text[n + 1] # 10 /\ ~Drawable(text[n + 1])
  /\ ~Initialized => n = 0 /\ ~fault

Shown ==
  /\ text \in Texts
  /\ fault \in BOOLEAN
  /\ \E n \in 0 .. Len(text) : Printed(n)

IInv == Parsed /\ Shown

\* What is said of font and text does not change with the rest.
LEMMA FontAndText ==
  ASSUME UNCHANGED files
  PROVE  /\ Picture' = Picture
         /\ \A n : Column(n)' = Column(n) /\ Line(n)' = Line(n)
         /\ \A c : Drawable(c)' <=> Drawable(c)
<1> USE DEF files
<1>1. \A n : LineFeeds(n)' = LineFeeds(n)
  BY DEF LineFeeds
<1>2. \A n : Column(n)' = Column(n) /\ Line(n)' = Line(n)
  BY <1>1 DEF Column, Line
<1>3. \A c : GlyphsOf(c)' = GlyphsOf(c)
  BY DEF GlyphsOf, ListOf, InSequence
<1>4. \A c : GlyphOf(c)' = GlyphOf(c)
  BY <1>3 DEF GlyphOf
<1>5. Picture' = Picture
  <2>1. \A n : Glyph(n)' = Glyph(n)
    BY <1>2, <1>4 DEF Glyph
  <2>2. Picture = CHOOSE f : IsPicture(f, Len(text))
    BY DEF Picture, IsPicture, Glyph
  <2>3. Picture' = CHOOSE f : IsPicture(f, Len(text))'
    BY DEF Picture, IsPicture, Glyph
  <2>4. \A f : IsPicture(f, Len(text))' <=> IsPicture(f, Len(text))
    BY <2>1 DEF IsPicture
  <2> QED
    BY <2>2, <2>3, <2>4
<1>6. \A c : Drawable(c)' <=> Drawable(c)
  <2>1. \A c : HasTable(c)' <=> HasTable(c)
    BY <1>3 DEF HasTable
  <2> QED
    BY <1>3, <2>1 DEF Drawable
<1> QED
  BY <1>2, <1>5, <1>6

\* At the beginning nothing is printed.
LEMMA ShownInit == Init => Shown
<1> SUFFICES ASSUME Init PROVE Shown
  OBVIOUS
<1>1. /\ text \in Texts /\ str = 1 /\ posX = 0 /\ posY = 0 /\ drawn = << >> /\ fault = FALSE
      /\ font \in Fonts
  BY DEF Init
<1>2. Beginning(text)[0] = << >> /\ Picture[0] = << >> /\ 0 \in 0 .. Len(text)
  <2>1. Beginning(text)[0] = << >>
    BY <1>1, BeginningIs
  <2>2. Picture[0] = << >>
    BY <1>1, PictureIs
  <2>3. Len(text) \in Nat
    BY <1>1, TextType
  <2>4. 0 \in 0 .. Len(text)
    BY <2>3
  <2> QED
    BY <2>1, <2>2, <2>4
<1>3. Column(0 + 1) = 0 /\ Line(0 + 1) = 0
  BY FirstPlace
<1>4. font.charsize \in Nat
  BY <1>1, FontType
<1>5. str = Len(Beginning(text)[0]) + 1
  BY <1>1, <1>2
<1>6. posX = scale * 8 * Column(0 + 1) /\ posY = scale * font.charsize * Line(0 + 1)
  BY <1>1, <1>3, <1>4 DEF scale
<1>7. Printed(0)
  BY <1>1, <1>2, <1>5, <1>6 DEF Printed
<1> QED
  BY <1>1, <1>2, <1>7 DEF Shown

\* As the parser goes on nothing is printed.
LEMMA ParserShows ==
  ASSUME Shown, ~Initialized, UNCHANGED << files, screen >>
  PROVE  Shown'
<1>1. PICK n \in 0 .. Len(text) : Printed(n)
  BY DEF Shown
<1>2. n = 0 /\ ~fault
  BY <1>1 DEF Printed
<1>3. UNCHANGED << files, font, text, str, drawn, posX, posY, fault >>
  BY DEF screen, files
<1>4. Printed(0)'
  BY <1>1, <1>2, <1>3, FontAndText DEF Printed
<1> QED
  BY <1>1, <1>2, <1>3, <1>4 DEF Shown

\* What is left of a string.
LEMMA Rest ==
  ASSUME NEW b \in Seq(Nat), NEW i \in 1 .. Len(b), NEW k \in 1 .. Len(b) - i + 1
  PROVE  SubSeq(b, i, Len(b))[k] = b[i + k - 1]
<1>1. Len(b) \in Nat /\ \A j \in i .. Len(b) : b[j] \in Nat
  OBVIOUS
<1>2. i \in Int /\ Len(b) \in Int
  BY <1>1
<1> DEFINE n == Len(b)
<1>3. Len(SubSeq(b, i, n)) = n - i + 1 /\ \A j \in 1 .. n - i + 1 : SubSeq(b, i, n)[j] = b[i + j - 1]
  BY <1>1, <1>2, SubSeqProperties
<1> QED
  BY <1>3

\* While it prints, the next byte is the first of the next character.
LEMMA NextCharacter ==
  ASSUME Shown, Printing
  PROVE  \E n \in 0 .. Len(text) - 1 :
           LET u == Utf8(text[n + 1]) IN
           /\ Printed(n)
           /\ text[n + 1] \in CodePoints
           /\ Len(bytes) \in Nat /\ str \in 1 .. Len(bytes)
           /\ bytes[str] = 10 <=> text[n + 1] = 10
           /\ charSize(bytes[str]) = Len(u)
           /\ decodeUtf8(SubSeq(bytes, str, Len(bytes)), Len(u)) = text[n + 1]
           /\ Len(Beginning(text)[n + 1]) + 1 = str + Len(u)
<1>1. text \in Texts /\ str <= Len(bytes)
  BY DEF Shown, Printing
<1>2. PICK n \in 0 .. Len(text) : Printed(n)
  BY DEF Shown
<1>3. /\ Len(text) \in Nat /\ bytes = Beginning(text)[Len(text)]
      /\ bytes \in Seq(Nat)
  <2>1. Len(text) \in Nat /\ bytes = Beginning(text)[Len(text)]
    BY <1>1, TextType, BeginningIs DEF bytes
  <2>2. Len(text) \in 0 .. Len(text)
    BY <2>1
  <2> QED
    BY <1>1, <2>1, <2>2, BeginningIs
<1>4. str = Len(Beginning(text)[n]) + 1
  BY <1>2 DEF Printed
<1>5. n # Len(text)
  <2> SUFFICES ASSUME n = Len(text) PROVE FALSE
    OBVIOUS
  <2>1. str = Len(bytes) + 1 /\ Len(bytes) \in Nat
    BY <1>3, <1>4
  <2> QED
    BY <1>1, <2>1
<1>6. n \in 0 .. Len(text) - 1 /\ n + 1 \in 1 .. Len(text)
  BY <1>3, <1>5
<1> DEFINE u == Utf8(text[n + 1])
           before == Len(Beginning(text)[n])
           rest == SubSeq(bytes, str, Len(bytes))
<1>7. text[n + 1] \in CodePoints
  BY <1>1, <1>6, TextType
<1>8. /\ u \in Seq(Nat) /\ Len(u) \in 1 .. 4 /\ charSize(u[1]) = Len(u)
      /\ u[1] = 10 <=> text[n + 1] = 10
  BY <1>7, FirstByte
<1>9. /\ before \in Nat /\ Len(Beginning(text)[n + 1]) = before + Len(u)
      /\ before + Len(u) <= Len(bytes)
      /\ \A k \in 1 .. Len(u) : bytes[before + k] = u[k]
  BY <1>1, <1>6, NextBytes DEF bytes
<1> HIDE DEF u, before
<1>10. str = before + 1 /\ Len(u) \in Nat /\ 1 <= Len(u) /\ Len(bytes) \in Nat
  <2>1. \A k \in 1 .. 4 : k \in Nat /\ 1 <= k
    OBVIOUS
  <2>2. Len(bytes) \in Nat
    BY <1>3
  <2> QED
    BY <1>4, <1>8, <2>1, <2>2 DEF before
<1>11. bytes[str] = u[1] /\ str \in 1 .. Len(bytes)
  BY <1>9, <1>10
<1>12. \A k \in 1 .. Len(u) : rest[k] = u[k]
  <2> SUFFICES ASSUME NEW k \in 1 .. Len(u) PROVE rest[k] = u[k]
    OBVIOUS
  <2>1. k \in 1 .. Len(bytes) - str + 1 /\ str + k - 1 = before + k
    BY <1>9, <1>10
  <2>2. rest[k] = bytes[str + k - 1]
    BY <1>3, <1>11, <2>1, Rest
  <2> QED
    BY <1>9, <2>1, <2>2
<1>13. decodeUtf8(rest, Len(u)) = text[n + 1]
  BY <1>7, <1>12, DecodesBack DEF u
<1>14. Len(Beginning(text)[n + 1]) + 1 = str + Len(u)
  BY <1>9, <1>10
<1> QED
  BY <1>2, <1>6, <1>7, <1>8, <1>10, <1>11, <1>13, <1>14 DEF u

\* A line feed (Log.cpp:23-28).
LEMMA NewLineShows ==
  ASSUME Parsed, Shown, NewLine
  PROVE  Shown'
<1>1. /\ Printing /\ bytes[str] = 10 /\ posX' = 0 /\ posY' = posY + scale * font.charsize
      /\ str' = str + 1 /\ UNCHANGED << files, font, text, currentGlyphIndex, drawn, fault >>
  BY DEF NewLine, CarriageReturn, parser, files
<1>2. PICK n \in 0 .. Len(text) - 1 :
        LET u == Utf8(text[n + 1]) IN
        /\ Printed(n) /\ text[n + 1] \in CodePoints
        /\ bytes[str] = 10 <=> text[n + 1] = 10
        /\ Len(Beginning(text)[n + 1]) + 1 = str + Len(u)
  BY <1>1, NextCharacter
<1>3. text \in Texts /\ Len(text) \in Nat /\ fault \in BOOLEAN
  BY TextType DEF Shown
<1>4. n + 1 \in 1 .. Len(text) /\ n + 1 \in 0 .. Len(text) /\ (n + 1) - 1 = n /\ n + 1 \in Nat /\ n + 1 >= 1
  BY <1>3
<1>5. text[n + 1] = 10 /\ Len(Utf8(text[n + 1])) = 1
  BY <1>1, <1>2, FirstByte
<1>6. Picture[n + 1] = Picture[n]
  BY <1>3, <1>4, <1>5, PictureIs
<1>7. Column(n + 1 + 1) = 0 /\ Line(n + 1 + 1) = Line(n + 1) + 1 /\ Line(n + 1) \in Nat
  BY <1>4, <1>5, BehindLineFeed, PlaceTypes
<1>8. font.charsize \in Nat
  BY FontType DEF Parsed
<1>9. posX' = scale * 8 * Column(n + 1 + 1) /\ posY' = scale * font.charsize * Line(n + 1 + 1)
  <2>1. posY = scale * font.charsize * Line(n + 1)
    BY <1>2 DEF Printed
  <2>2. posX' = scale * 8 * Column(n + 1 + 1)
    BY <1>1, <1>7 DEF scale
  <2>3. \A a, l \in Nat : a * l + a = a * (l + 1)
    OBVIOUS
  <2>4. scale * font.charsize \in Nat
    BY <1>8 DEF scale
  <2> QED
    BY <1>1, <1>7, <2>1, <2>2, <2>3, <2>4
<1>10. \A m \in 1 .. n + 1 : text[m] = 10 \/ Drawable(text[m])
  <2>1. \A m \in 1 .. n : text[m] = 10 \/ Drawable(text[m])
    BY <1>2 DEF Printed
  <2> QED
    BY <1>4, <1>5, <2>1
<1>11. Initialized' /\ ~fault'
  BY <1>1 DEF Printing, Initialized
<1>12. drawn' = Picture[n + 1] /\ str' = Len(Beginning(text)[n + 1]) + 1
  BY <1>1, <1>2, <1>5, <1>6 DEF Printed
<1>13. Printed(n + 1)'
  BY <1>1, <1>9, <1>10, <1>11, <1>12, FontAndText DEF Printed
<1> QED
  BY <1>1, <1>3, <1>4, <1>13 DEF Shown

\* Another character, which is drawn or halts the kernel (Log.cpp:30-49).
LEMMA DrawGlyphShows ==
  ASSUME Parsed, Shown, DrawGlyph
  PROVE  Shown'
<1>1. Printing /\ bytes[str] # 10 /\ UNCHANGED << files, font, text, currentGlyphIndex, posY >>
  BY DEF DrawGlyph, parser, files
<1>2. PICK n \in 0 .. Len(text) - 1 :
        LET u == Utf8(text[n + 1]) IN
        /\ Printed(n) /\ text[n + 1] \in CodePoints
        /\ bytes[str] = 10 <=> text[n + 1] = 10
        /\ charSize(bytes[str]) = Len(u)
        /\ decodeUtf8(SubSeq(bytes, str, Len(bytes)), Len(u)) = text[n + 1]
        /\ Len(Beginning(text)[n + 1]) + 1 = str + Len(u)
  BY <1>1, NextCharacter
<1> DEFINE c == text[n + 1]
           glyph == getGlyphIndex(c)
<1>3. text \in Texts /\ Len(text) \in Nat /\ fault \in BOOLEAN
  BY TextType DEF Shown
<1>4. n + 1 \in 1 .. Len(text) /\ n + 1 \in 0 .. Len(text) /\ (n + 1) - 1 = n /\ n + 1 \in Nat /\ n + 1 >= 1
      /\ n \in 0 .. Len(text) /\ n < Len(text)
  BY <1>3
<1>5. c # 10 /\ c \in Nat
  BY <1>1, <1>2, CodePointType
<1>6. IF Faults(glyph)
      THEN fault' = TRUE /\ UNCHANGED << str, posX, drawn >>
      ELSE /\ drawn' = Append(drawn, [glyph |-> glyph, x |-> posX, y |-> posY])
           /\ posX' = posX + scale * 8
           /\ str' = str + Len(Utf8(c))
           /\ UNCHANGED fault
  BY <1>2 DEF DrawGlyph
<1>7. Initialized /\ ~fault /\ Initialized'
  BY <1>1 DEF Printing, Initialized
<1>8. /\ Faults(glyph) <=> ~Drawable(c)
      /\ Drawable(c) => glyph = GlyphOf(c)
  <2>1. /\ glyph = IF HasTable(c) THEN GlyphOf(c) ELSE NULL
        /\ IF GlyphsOf(c) = {} THEN GlyphOf(c) = NO_GLYPH ELSE GlyphOf(c) \in Nat
    BY <1>5, <1>7, Lookup
  <2>2. NULL \notin Int /\ NO_GLYPH \in Int /\ NO_GLYPH \notin Nat
    BY NullApart DEF NO_GLYPH
  <2> QED
    BY <2>1, <2>2 DEF Faults, Drawable
<1> HIDE DEF glyph
<1>9. CASE ~Drawable(c)
  <2>1. fault' = TRUE /\ UNCHANGED << str, posX, drawn >>
    BY <1>6, <1>8, <1>9
  <2>2. /\ str = Len(Beginning(text)[n]) + 1 /\ drawn = Picture[n]
        /\ posX = scale * 8 * Column(n + 1) /\ posY = scale * font.charsize * Line(n + 1)
        /\ \A m \in 1 .. n : text[m] = 10 \/ Drawable(text[m])
    BY <1>2 DEF Printed
  <2>3. Printed(n)'
    BY <1>1, <1>4, <1>5, <1>7, <1>9, <2>1, <2>2, FontAndText DEF Printed
  <2> QED
    BY <1>1, <1>3, <1>4, <2>1, <2>3 DEF Shown
<1>10. CASE Drawable(c)
  <2>1. glyph = GlyphOf(c) /\ ~Faults(glyph)
    BY <1>8, <1>10
  <2>2. /\ drawn' = Append(drawn, [glyph |-> GlyphOf(c), x |-> posX, y |-> posY])
        /\ posX' = posX + scale * 8 /\ str' = str + Len(Utf8(c)) /\ UNCHANGED fault
    BY <1>6, <2>1
  <2>3. /\ drawn = Picture[n]
        /\ posX = scale * 8 * Column(n + 1) /\ posY = scale * font.charsize * Line(n + 1)
        /\ \A m \in 1 .. n : text[m] = 10 \/ Drawable(text[m])
    BY <1>2 DEF Printed
  <2>4. Picture[n + 1] = Append(Picture[n], Glyph(n + 1))
    BY <1>3, <1>4, <1>5, PictureIs
  <2>5. drawn' = Picture[n + 1]
    BY <2>2, <2>3, <2>4 DEF Glyph
  <2>6. Column(n + 1 + 1) = Column(n + 1) + 1 /\ Line(n + 1 + 1) = Line(n + 1) /\ Column(n + 1) \in Nat
    BY <1>4, <1>5, BehindGlyph, PlaceTypes
  <2>7. posX' = scale * 8 * Column(n + 1 + 1) /\ posY' = scale * font.charsize * Line(n + 1 + 1)
    <3>1. \A l \in Nat : 2 * 8 * l + 2 * 8 = 2 * 8 * (l + 1)
      OBVIOUS
    <3> QED
      BY <1>1, <2>2, <2>3, <2>6, <3>1 DEF scale
  <2>8. str' = Len(Beginning(text)[n + 1]) + 1
    BY <1>2, <2>2
  <2>9. \A m \in 1 .. n + 1 : text[m] = 10 \/ Drawable(text[m])
    BY <1>4, <1>10, <2>3
  <2>10. Printed(n + 1)'
    BY <1>1, <1>7, <2>2, <2>5, <2>7, <2>8, <2>9, FontAndText DEF Printed
  <2> QED
    BY <1>1, <1>3, <1>4, <2>2, <2>10 DEF Shown
<1> QED
  BY <1>9, <1>10

\* Every step keeps the screen what it should be.
LEMMA ShownStep == IInv /\ [Next]_vars => Shown'
<1> SUFFICES ASSUME Parsed, Shown, [Next]_vars PROVE Shown'
  BY DEF IInv
<1>1. CASE NextGlyph \/ SkipSequences \/ MapCharacter
  <2>1. ~Initialized /\ UNCHANGED << files, screen >>
    BY <1>1 DEF NextGlyph, SkipSequences, MapCharacter
  <2> QED
    BY <2>1, ParserShows
<1>2. CASE NewLine
  BY <1>2, NewLineShows
<1>3. CASE DrawGlyph
  BY <1>3, DrawGlyphShows
<1>4. CASE Done \/ UNCHANGED vars
  <2>1. UNCHANGED << files, font, text, currentGlyphIndex, str, posX, posY, drawn, fault >>
    BY <1>4 DEF Done, vars, files, parser, screen
  <2>2. PICK n \in 0 .. Len(text) : Printed(n)
    BY DEF Shown
  <2>3. Printed(n)'
    BY <2>1, <2>2, FontAndText DEF Printed, Initialized
  <2> QED
    BY <2>1, <2>2, <2>3 DEF Shown
<1> QED
  BY <1>1, <1>2, <1>3, <1>4 DEF Next, Step

\* What the parser knows and what is on the screen, always, with any font and
\* any text (Psf1Parser.cpp:17-89, Log.cpp:20-51).
THEOREM Inductive == Spec => []IInv
<1>1. Init => IInv
  BY ParsedInit, ShownInit DEF IInv
<1>2. IInv /\ [Next]_vars => IInv'
  BY ParsedStep, ShownStep DEF IInv
<1> QED
  BY <1>1, <1>2, PTL DEF Spec

\* What is printed where it ends is all that can be read.
LEMMA InvDraws == IInv => DrawsText
<1> SUFFICES ASSUME Parsed, Shown PROVE DrawsText
  BY DEF IInv
<1>1. text \in Texts /\ fault \in BOOLEAN /\ Len(text) \in Nat
  BY TextType DEF Shown
<1>2. PICK n \in 0 .. Len(text) : Printed(n)
  BY DEF Shown
<1>3. drawn = Picture[n]
  BY <1>2 DEF Printed
<1>4. ASSUME Finished PROVE drawn = Picture[Readable] /\ fault = (Readable < Len(text))
  <2> DEFINE Ends(k) == /\ \A m \in 1 .. k : text[m] = 10 \/ Drawable(text[m])
                        /\ k < Len(text) => text[k + 1] # 10 /\ ~Drawable(text[k + 1])
  <2>1. fault => n < Len(text) /\ text[n + 1] # 10 /\ ~Drawable(text[n + 1])
    BY <1>2 DEF Printed
  <2>2. ~fault => n = Len(text)
    <3> SUFFICES ASSUME ~fault, n # Len(text) PROVE FALSE
      OBVIOUS
    <3>1. ~(str <= Len(bytes))
      BY <1>4 DEF Finished, Printing
    <3>2. n \in 0 .. Len(text) - 1 /\ n + 1 \in 1 .. Len(text)
      BY <1>1
    <3> DEFINE u == Utf8(text[n + 1])
               before == Len(Beginning(text)[n])
    <3>3. before \in Nat /\ before + Len(u) <= Len(bytes) /\ bytes \in Seq(Nat)
      BY <1>1, <3>2, NextBytes DEF bytes
    <3>4. Len(u) \in 1 .. 4
      BY <1>1, <3>2, TextType, FirstByte
    <3>5. str = before + 1
      BY <1>2 DEF Printed
    <3> HIDE DEF u, before
    <3>6. Len(bytes) \in Nat
      BY <3>3
    <3>7. \A k \in 1 .. 4 : k \in Nat /\ 1 <= k
      OBVIOUS
    <3>8. Len(u) \in Nat /\ 1 <= Len(u)
      BY <3>4, <3>7
    <3>9. str <= Len(bytes)
      BY <3>3, <3>5, <3>6, <3>8
    <3> QED
      BY <3>1, <3>9
  <2>3. Ends(n)
    BY <1>1, <1>2, <2>1, <2>2 DEF Printed
  <2>4. \A k \in 0 .. Len(text) : Ends(k) => k = n
    <3> SUFFICES ASSUME NEW k \in 0 .. Len(text), Ends(k), k # n PROVE FALSE
      OBVIOUS
    <3>1. CASE k < n
      <4>1. k + 1 \in 1 .. n /\ k < Len(text)
        BY <1>1, <3>1
      <4> QED
        BY <2>3, <4>1
    <3>2. CASE n < k
      <4>1. n + 1 \in 1 .. k /\ n < Len(text)
        BY <1>1, <3>2
      <4> QED
        BY <2>3, <4>1
    <3> QED
      BY <1>1, <3>1, <3>2
  <2>5. Readable = n
    <3>1. Readable = CHOOSE k \in 0 .. Len(text) : Ends(k)
      BY DEF Readable
    <3> HIDE DEF Ends
    <3> QED
      BY <2>3, <2>4, <3>1
  <2> QED
    BY <1>1, <1>3, <2>1, <2>2, <2>5
<1> QED
  BY <1>2, <1>3, <1>4 DEF DrawsText

\* For every font and text, Log::print draws each character at its line and
\* column, and halts at the first that has no table, or no glyph and nothing
\* mapped where glyph 0xFFFFFFFF would be, and nowhere else
\* (Psf1Parser.cpp:59-96, Log.cpp:20-51).
THEOREM TextIsDrawn == Spec => []DrawsText
  BY Inductive, InvDraws, PTL

=============================================================================
