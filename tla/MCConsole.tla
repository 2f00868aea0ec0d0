----------------------------- MODULE MCConsole -----------------------------
(* Fonts of three glyphs, and texts of up to three characters.             *)
EXTENDS Console

Font(table) == [glyphCount |-> 3, charsize |-> 16, unicodeTable |-> table]

\* The lists of three glyphs; 769, the combining acute, only in sequences.
Plain == << 65, 66, END_OF_GLYPH, 233, 65, END_OF_GLYPH, 8364, END_OF_GLYPH >>
Sequences1 == << 65, SEQUENCE, 66, 769, SEQUENCE, 69, 769, END_OF_GLYPH,
                 SEQUENCE, 8364, 769, END_OF_GLYPH, 233, 66, END_OF_GLYPH, 65 >>
Bounds == << 127, 128, END_OF_GLYPH, 2047, 2048, END_OF_GLYPH, 255, 256, 65533,
             END_OF_GLYPH >>
Unlisted == << END_OF_GLYPH, END_OF_GLYPH, END_OF_GLYPH >>

MCFonts == {Font(Plain), Font(Sequences1), Font(Bounds), Font(Unlisted)}

\* Characters of one to four bytes, those next to where their number changes,
\* and the line feed.
UpTo(n, cs) == UNION {[1 .. k -> cs] : k \in 0 .. n}
MCTexts == UpTo(3, {10, 65, 233, 8364}) \cup UpTo(2, {10, 127, 128, 2047, 2048,
                                                     255, 256, 769, 65533})
             \cup {<< 65, 65536 >>, << 1114111 >>, << 65535 >>}

=============================================================================
