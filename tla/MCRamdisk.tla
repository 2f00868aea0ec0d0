----------------------------- MODULE MCRamdisk -----------------------------
(* Archives of up to three files, of sizes around a block's.                *)
EXTENDS Ramdisk

\* The ramdisk of this kernel holds a directory and a font; contents that
\* look like the end of the archive, like a header, and like neither.
Looks == {Zeros, Header([name |-> "font", size |-> 8]),
          [name |-> "text", size |-> << 5, 9, 0 >>]}
File == [name : {"fonts", "font"}, size : {0, 1, 512, 1025}, looks : Looks]
MCFiles == {<< >>} \cup [{1} -> File]
             \cup [1 .. 2 -> [name : {"fonts", "font"}, size : {0, 1, 512, 1025},
                              looks : {Zeros, Header([name |-> "font", size |-> 8])}]]
             \cup {<< f, g, h >> : f \in [name : {"fonts"}, size : {0, 513},
                                          looks : {Zeros}],
                                   g, h \in [name : {"font", "other"},
                                             size : {511, 1024}, looks : Looks]}

=============================================================================
