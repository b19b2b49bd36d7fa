------------------------------ MODULE Bootload ------------------------------
(***************************************************************************)
(* boot/main.c: the kernel's segments from the disk to memory, a sector at *)
(* a time, up to what the disk's controller does.  A byte of the           *)
(* kernel's file is its offset, and 0 is a byte of value zero.  The file's *)
(* header is in place, and valid.                                          *)
(***************************************************************************)
EXTENDS Integers, Sequences

CONSTANT SECTSIZE

ASSUME BootloadAssumption == SECTSIZE \in Nat \ {0}

Sector(a) == a - (a % SECTSIZE)

\* readsect: the sector that holds the byte offset of the file, at pa.
readsect(m, pa, offset) ==
  [a \in DOMAIN m |-> IF a \in pa .. pa + SECTSIZE - 1 THEN Sector(offset) + a - pa ELSE m[a]]

\* The sectors from pa up to end_pa.
sectors(m, pa, end_pa, offset) ==
  LET n == (end_pa - pa + SECTSIZE - 1) \div SECTSIZE
      after[k \in 0 .. n] ==
        IF k = 0 THEN m
        ELSE readsect(after[k - 1], pa + (k - 1) * SECTSIZE, offset + (k - 1) * SECTSIZE)
  IN  IF pa < end_pa THEN after[n] ELSE m

readseg_short(m, pa, count, offset) == sectors(m, Sector(pa), Sector(pa) + count, offset)

readseg(m, pa, count, offset) == sectors(m, Sector(pa), pa + count, offset)

\* bootmain reads the whole of a segment's memory, its BSS included, from the
\* file: what the file has there is the start of something else.
bootmain(m, ph) ==
  LET after[k \in 0 .. Len(ph)] ==
        IF k = 0 THEN m ELSE readseg(after[k - 1], ph[k].p_pa, ph[k].p_memsz, ph[k].p_offset)
  IN  after[Len(ph)]
=============================================================================
