-------------------------- MODULE MCPhysicalMemory --------------------------
(* Memory maps for the physical memory manager.                             *)
EXTENDS PhysicalMemory

page(n) == PAGE_SIZE * n
entry(base, length, usable) ==
  [base |-> base, length |-> length, usable |-> usable]

\* Frame 2 (the entry starts and ends inside frames), and six frames across
\* the border of the first two words of the bitmap.
TwoRegions ==
  << entry(0, page(1), FALSE), entry(page(1) + 100, page(2), TRUE),
     entry(page(5), page(56), FALSE), entry(page(61), page(6), TRUE) >>

\* A usable entry that holds no whole frame, out of order, and a map whose
\* last frame is the last one of a word.
FullWord ==
  << entry(page(61), page(3), TRUE), entry(page(1) + 1, page(1), TRUE),
     entry(page(3) + 1, 1, TRUE) >>

\* More than 2^15 frames: the bitmap takes two frames, and the first usable
\* region is too small for it.
LargeBitmap ==
  << entry(page(1), page(1), TRUE), entry(page(32768), page(5), TRUE) >>

\* No region holds the bitmap.
NoPlace == << entry(page(1), page(1), TRUE), entry(page(32769), page(1), TRUE) >>

\* Nothing usable.
NoMemory == << entry(0, page(100), FALSE) >>

MCMaps == {TwoRegions, FullWord, LargeBitmap, NoPlace, NoMemory}

=============================================================================
