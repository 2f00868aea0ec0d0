------------------------------ MODULE Console ------------------------------
(***************************************************************************)
(* Psf1Parser.cpp and Log.cpp: Log::init reads which glyph of the font     *)
(* each character has into a table of tables, Log::print decodes UTF-8 and *)
(* draws glyph after glyph.                                                *)
(*                                                                         *)
(* Abstracted: pixels, and the first of the three levels of tables, which  *)
(* has one entry in use, 0 (a word of the font has 16 bits).  The number   *)
(* of glyphs, 256 or 512 by the font's mode, is a parameter of the font.   *)
(* Texts are valid UTF-8: the kernel's are literals.                       *)
(***************************************************************************)
EXTENDS Integers, Sequences, FiniteSets

CONSTANTS
  NULL,      \* nullptr, in the tables
  Fonts,     \* fonts: [glyphCount, charsize, unicodeTable], sequences of words
  Texts      \* texts to print, sequences of code points

END_OF_GLYPH == 256 * 256 - 1    \* 0xFFFF
SEQUENCE == 256 * 256 - 2        \* 0xFFFE
NO_GLYPH == -1           \* 0xFFFFFFFF
scale == 2
LastCodePoint == 17 * 256 * 256 - 1
CodePoints == 1 .. LastCodePoint   \* 0 ends a string

\* How many lists of a font's table end before position i.
EndsBefore(table, i) == Cardinality({j \in 1 .. i - 1 : table[j] = END_OF_GLYPH})

\* A font has a list for each of its glyphs: the parser reads until it has met
\* that many ends.
ASSUME ConsoleAssumption ==
  /\ NULL \notin Int /\ NULL \notin [0 .. 255 -> Int]
  /\ \A f \in Fonts :
       /\ f.glyphCount \in Nat /\ f.charsize \in Nat \ {0}
       /\ f.unicodeTable \in Seq(0 .. END_OF_GLYPH)
       /\ f.glyphCount <= EndsBefore(f.unicodeTable, Len(f.unicodeTable) + 1)
  /\ \A cs \in Texts : cs \in Seq(CodePoints)

VARIABLES
  font,                \* the file
  pos,                 \* unicodeTableStart, an index from 1
  currentGlyphIndex,
  L2,                  \* per upper byte: NULL, or per lower byte the glyph
  text,                \* its code points; Log::print has its bytes
  mapped,              \* whether memory is mapped where glyph 0xFFFFFFFF would be
  str,                 \* index from 1 of the next byte
  posX, posY,
  drawn,               \* history: the glyphs drawn, and where
  fault                \* a page fault: the kernel has halted

parser == << pos, currentGlyphIndex, L2 >>
screen == << str, posX, posY, drawn, fault >>
files == << font, text, mapped >>
vars == << files, parser, screen >>

-----------------------------------------------------------------------------
\* UTF-8, by its definition.
Utf8(c) ==
  IF c < 128 THEN << c >>
  ELSE IF c < 32 * 64 THEN << 192 + c \div 64, 128 + (c % 64) >>
  ELSE IF c < 16 * 64 * 64
    THEN << 224 + c \div (64 * 64), 128 + ((c \div 64) % 64), 128 + (c % 64) >>
    ELSE << 240 + c \div (64 * 64 * 64), 128 + ((c \div (64 * 64)) % 64),
            128 + ((c \div 64) % 64), 128 + (c % 64) >>

Encoded(cs) ==
  LET upTo[n \in 0 .. Len(cs)] ==
        IF n = 0 THEN << >> ELSE upTo[n - 1] \o Utf8(cs[n])
  IN  upTo[Len(cs)]

bytes == Encoded(text)

-----------------------------------------------------------------------------
Initialized == currentGlyphIndex = font.glyphCount
Word == font.unicodeTable[pos]

\* Psf1Parser(): a word that ends the list of a glyph.
NextGlyph ==
  /\ ~Initialized
  /\ Word = END_OF_GLYPH
  /\ currentGlyphIndex' = currentGlyphIndex + 1
  /\ pos' = pos + 1
  /\ UNCHANGED << files, L2, screen >>

\* Slip: the pointer is left where it is.
Stay(p) == p
PastCharacter(p) == p + 1

\* Slip: only the mark is skipped, not the sequence.
PastMark(p) == p + 1

\* The first word after the list that position p is in.
PastList(p) ==
  CHOOSE q \in p + 1 .. Len(font.unicodeTable) + 1 :
    /\ font.unicodeTable[q - 1] = END_OF_GLYPH
    /\ \A r \in p .. q - 2 : font.unicodeTable[r] # END_OF_GLYPH

\* Sequences of characters are passed over.
SkipSequences ==
  /\ ~Initialized
  /\ Word = SEQUENCE
  /\ currentGlyphIndex' = currentGlyphIndex + 1
  /\ pos' = PastList(pos)
  /\ UNCHANGED << files, L2, screen >>

\* The table for an upper byte, a new one if there is none.
TableFor(l2_index) ==
  IF L2[l2_index] # NULL THEN L2[l2_index]
                         ELSE [l3_index \in 0 .. 255 |-> NO_GLYPH]

MapCharacter ==
  /\ ~Initialized
  /\ Word \notin {END_OF_GLYPH, SEQUENCE}
  /\ L2' = [L2 EXCEPT ![Word \div 256] =
             [TableFor(Word \div 256) EXCEPT ![Word % 256] = currentGlyphIndex]]
  /\ pos' = PastCharacter(pos)
  /\ UNCHANGED << files, currentGlyphIndex, screen >>

-----------------------------------------------------------------------------
\* decodeUtf8: charSize by the first byte, the code point by all.
charSize(b) ==
  IF b < 128 THEN 1 ELSE IF b \div 32 = 6 THEN 2
  ELSE IF b \div 16 = 14 THEN 3 ELSE IF b \div 8 = 30 THEN 4 ELSE 0

decodeUtf8(s, size) ==
  CASE size = 1 -> s[1]
    [] size = 2 -> (s[1] % 32) * 64 + (s[2] % 64)
    [] size = 3 -> (s[1] % 16) * (64 * 64) + (s[2] % 64) * 64 + (s[3] % 64)
    [] size = 4 -> (s[1] % 8) * (64 * 64 * 64) + (s[2] % 64) * (64 * 64)
                     + (s[3] % 64) * 64 + (s[4] % 64)
    [] OTHER    -> -1

\* getGlyphIndex: NULL when it reads through a null table.
getGlyphIndex(codepoint) ==
  IF codepoint \div (256 * 256) # 0 \/ L2[codepoint \div 256] = NULL THEN NULL
  ELSE L2[codepoint \div 256][codepoint % 256]

Printing == Initialized /\ ~fault /\ str <= Len(bytes)

\* Slip: only down, not back to the left.
LineFeed(x) == x
CarriageReturn(x) == 0

NewLine ==
  /\ Printing
  /\ bytes[str] = 10
  /\ posX' = CarriageReturn(posX)
  /\ posY' = posY + scale * font.charsize
  /\ str' = str + 1
  /\ UNCHANGED << files, parser, drawn, fault >>

\* Without a table nothing is mapped where it would be.  The glyph of no index
\* is looked for 4 GiB behind the font, and drawn if there is memory.
Faults(glyph) == glyph = NULL \/ (glyph = NO_GLYPH /\ ~mapped)

DrawGlyph ==
  /\ Printing
  /\ bytes[str] # 10
  /\ LET size  == charSize(bytes[str])
         glyph == getGlyphIndex(decodeUtf8(SubSeq(bytes, str, Len(bytes)), size))
     IN  IF Faults(glyph)
           THEN fault' = TRUE /\ UNCHANGED << str, posX, drawn >>
           ELSE /\ drawn' = Append(drawn, [glyph |-> glyph, x |-> posX, y |-> posY])
                /\ posX' = posX + scale * 8
                /\ str' = str + size
                /\ UNCHANGED fault
  /\ UNCHANGED << files, parser, posY >>

-----------------------------------------------------------------------------
Init ==
  /\ font \in Fonts
  /\ pos = 1
  /\ currentGlyphIndex = 0
  /\ L2 = [l2_index \in 0 .. 255 |-> NULL]
  /\ text \in Texts
  /\ mapped \in BOOLEAN
  /\ str = 1
  /\ posX = 0 /\ posY = 0
  /\ drawn = << >>
  /\ fault = FALSE

Step == NextGlyph \/ SkipSequences \/ MapCharacter \/ NewLine \/ DrawGlyph

\* Log::print has returned, or the kernel has halted.
Finished == Initialized /\ ~Printing
Done == Finished /\ UNCHANGED vars

Next == Step \/ Done

\* Both loops run on.
Spec == Init /\ [][Next]_vars /\ WF_vars(Step)

-----------------------------------------------------------------------------
\* By the format of the font: the list of a glyph ends at the glyph's
\* END_OF_GLYPH, and what follows a SEQUENCE in it are no characters.
ListOf(i) == EndsBefore(font.unicodeTable, i)
InSequence(i) ==
  \E j \in 1 .. i - 1 : /\ font.unicodeTable[j] = SEQUENCE
                        /\ ListOf(j) = ListOf(i)

GlyphsOf(c) ==
  { ListOf(i) : i \in {k \in DOMAIN font.unicodeTable :
                         /\ font.unicodeTable[k] = c
                         /\ c \notin {END_OF_GLYPH, SEQUENCE}
                         /\ ~InSequence(k)} } \cap 0 .. font.glyphCount - 1

\* Of several glyphs for a character the last is taken.
GlyphOf(c) == CHOOSE g \in GlyphsOf(c) \cup {NO_GLYPH} :
                \A h \in GlyphsOf(c) : h <= g

Characters == {text[n] : n \in DOMAIN text}
                \cup {font.unicodeTable[i] : i \in DOMAIN font.unicodeTable}

\* Line and column of character n.
LineFeeds(n) == {m \in 1 .. n - 1 : text[m] = 10}
Line(n) == Cardinality(LineFeeds(n))
Column(n) == Cardinality({m \in 1 .. n - 1 : \A k \in LineFeeds(n) : k < m})

\* What the text, up to each of its characters, looks like.
Picture ==
  LET upTo[n \in 0 .. Len(text)] ==
        IF n = 0 THEN << >>
        ELSE IF text[n] = 10 THEN upTo[n - 1]
        ELSE Append(upTo[n - 1],
                    [glyph |-> GlyphOf(text[n]),
                     x |-> scale * 8 * Column(n),
                     y |-> scale * font.charsize * Line(n)])
  IN  upTo

\* There is a table for the upper byte of a character if the font has a glyph
\* for one with that byte.
HasTable(c) ==
  /\ c \div (256 * 256) = 0
  /\ \E i \in DOMAIN font.unicodeTable :
       /\ font.unicodeTable[i] \div 256 = c \div 256
       /\ GlyphsOf(font.unicodeTable[i]) # {}

\* The tables built by Psf1Parser() say of each character what the font says,
\* and that there is no glyph for those of sequences only; where the font has
\* nothing for an upper byte there is no table (lines 17-56).
LookupIsFont ==
  Initialized =>
    \A c \in Characters : getGlyphIndex(c) = IF HasTable(c) THEN GlyphOf(c) ELSE NULL

\* Whether print goes on behind a character.
Drawable(c) == HasTable(c) /\ (GlyphsOf(c) # {} \/ mapped)

\* How many characters come before the first that is not drawn.
Readable ==
  CHOOSE n \in 0 .. Len(text) :
    /\ \A m \in 1 .. n : text[m] = 10 \/ Drawable(text[m])
    /\ n < Len(text) => text[n + 1] # 10 /\ ~Drawable(text[n + 1])

\* What is on the screen is always the picture of a beginning of the text; at
\* the end it is the whole picture, or that of what precedes the first
\* character that halts the kernel.  One halts it only if the font has no glyph
\* for it; with neighbours that have one it is instead drawn from behind the
\* font if anything is mapped there (Psf1Parser.cpp:80-96, Log.cpp:20-51).
DrawsText ==
  /\ \E n \in 0 .. Len(text) : drawn = Picture[n]
  /\ Finished => drawn = Picture[Readable] /\ fault = (Readable < Len(text))

\* Log::init, and Log::print after it, come to an end.
PrintReturns == <>Finished

=============================================================================
