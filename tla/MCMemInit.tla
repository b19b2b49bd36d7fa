----------------------------- MODULE MCMemInit -----------------------------
(* A machine for TLC with 24 entries per table, so that entry_pgdir maps 24
   pages, of 16 bytes each, and 48 pages fit above KERNBASE.  Base memory is
   4 pages, the hole is page 4, 1MB is at page 5 and 16MB at page 30.  The
   kernel's image takes the pages 5, 6, 7 and a part of 8.                 *)
EXTENDS MemInit

Indices == 0 .. 23
Pages48 == 0 .. 47

\* Machines from 4 to 48 pages, which is all that fits, and all ways of reporting their size.
NvramAll == [base : {16}, ext : {0} \cup {4 * k : k \in 1 .. 25}, ext16 : {0}]
       \cup [base : {16, 18}, ext : {100}, ext16 : {4 * k : k \in 1 .. 18}]
=============================================================================
