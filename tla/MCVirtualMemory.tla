-------------------------- MODULE MCVirtualMemory --------------------------
(* Pages for the virtual memory manager, and tables of six entries: 0 to 2  *)
(* the lower half, 3 the direct map, 4 the kernel heap.                     *)
EXTENDS VirtualMemory

\* Two pages of the heap on both sides of the border of a table, with one
\* more before it, and two pages of the lower half in one table.
HeapPages == {<< 4, 0, 0, 4 >>, << 4, 0, 0, 5 >>, << 4, 0, 1, 0 >>}
UserPages == {<< 0, 0, 0, 0 >>, << 0, 0, 0, 5 >>}
MCPages == HeapPages \cup UserPages

=============================================================================
