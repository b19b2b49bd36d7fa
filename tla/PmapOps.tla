------------------------------ MODULE PmapOps ------------------------------
(***************************************************************************)
(* The operations of kern/pmap.c as operators on a record of the machine's *)
(* memory state, so that the modules above (Pmap, Env) can sequence them   *)
(* inside one atomic kernel step.  The kernel runs with interrupts off on  *)
(* one processor: no operation here is ever interleaved with another.      *)
(*                                                                         *)
(* A physical page is a frame.  Its contents are viewed as the NPTENTRIES  *)
(* entries it would hold if it were used as a page table or directory;     *)
(* what a data page holds matters only because page_alloc hands pages out  *)
(* again with their old contents.                                          *)
(***************************************************************************)
EXTENDS Integers, FiniteSets, Sequences

CONSTANTS
  Frame,    \* physical pages: the indices of the array pages[]
  Root,     \* the frames boot_alloc took before page_init (kern_pgdir, ...)
  Ix,       \* indices into a page directory and into a page table
  RefMod,   \* pp_ref is a uint16_t: it counts modulo RefMod
  Null      \* NULL, and an entry whose PTE_P bit is clear

Page   == Frame \ Root               \* what page_init gives the allocator
Perm   == {"W", "U"}                 \* PTE_W and PTE_U
Va     == Ix \X Ix                   \* <<PDX(va), PTX(va)>>
Entry  == [pg : Frame, perm : SUBSET Perm]
Table  == [Ix -> Entry \cup {Null}]
Blank  == [i \in Ix |-> Null]

ASSUME PmapAssumption ==
  /\ IsFiniteSet(Frame) /\ Root \subseteq Frame
  /\ IsFiniteSet(Ix)
  /\ RefMod \in Nat /\ RefMod > 1
  /\ Null \notin Frame /\ Null \notin Entry

(***************************************************************************)
(* The state the operations work on: the array pages[], the head of the    *)
(* free list, the contents of memory, the directory in %cr3 and the        *)
(* translations the processor has cached since the last flush.             *)
(***************************************************************************)
Mem == [pp_ref         : [Frame -> 0 .. RefMod - 1],
        pp_link        : [Frame -> Frame \cup {Null}],
        page_free_list : Frame \cup {Null},
        tab            : [Frame -> Table],
        cr3            : Frame,
        tlb            : [Va -> Entry \cup {Null}]]

----------------------------------------------------------------------------
(* page_init pushes pages on the free list in the order s: the last one pushed
   is the head.                                                            *)

page_init(s) ==
  LET n == Len(s)
  IN  [head |-> IF n = 0 THEN Null ELSE s[n],
       link |-> [f \in Frame |->
                   IF f \notin {s[i] : i \in 1 .. n} \/ f = s[1] THEN Null
                   ELSE s[(CHOOSE i \in 1 .. n : s[i] = f) - 1]]]

\* What a page that was never cleared, or that a program has written, holds
\* when it is read as a table.  check_page_free_list fills the free pages with
\* 0x97, which as an entry is present, writable and open to the user.
Junk(q) == [i \in Ix |-> [pg |-> q, perm |-> Perm]]

\* The list from page_free_list along pp_link visits each page of F once, and
\* nothing else, and ends in NULL.
IsFreeList(m, F) ==
  LET n == Cardinality(F)
  IN  \E s \in [1 .. n -> F] :
        /\ \A i, j \in 1 .. n : s[i] = s[j] => i = j
        /\ F = {s[i] : i \in 1 .. n}
        /\ m.page_free_list = IF n = 0 THEN Null ELSE s[1]
        /\ \A i \in 1 .. n : m.pp_link[s[i]] = IF i = n THEN Null ELSE s[i + 1]

\* The same, by following the list as many steps as F has pages.
FollowFreeList(m, n) ==
  LET page[i \in 0 .. n] == IF i = 0 THEN m.page_free_list
                            ELSE LET p == page[i - 1]
                                 IN  IF p = Null THEN Null ELSE m.pp_link[p]
  IN  page

IsFreeChain(m, F) ==
  LET n    == Cardinality(F)
      page == FollowFreeList(m, n)
  IN  F = {page[i] : i \in 0 .. n - 1} /\ page[n] = Null

----------------------------------------------------------------------------
(* The page allocator.  Operators whose names end in a bug (..._peek, ..._dirty)
   are what the next definition could have been; the runs' properties are
   tried against them.                                                     *)

page_alloc_peek(m, zero) ==
  [pg  |-> m.page_free_list,
   mem |-> IF zero /\ m.page_free_list # Null
           THEN [m EXCEPT !.tab[m.page_free_list] = Blank] ELSE m]

page_alloc_dirty(m, zero) ==
  LET p == m.page_free_list
  IN  IF p = Null
      THEN [pg |-> Null, mem |-> m]
      ELSE [pg |-> p, mem |-> [m EXCEPT !.page_free_list = m.pp_link[p],
                                        !.pp_link[p] = Null]]

\* page_alloc: the page (or Null) and the memory after the call.
page_alloc(m, zero) ==
  LET p == m.page_free_list
  IN  IF p = Null
      THEN [pg |-> Null, mem |-> m]
      ELSE [pg |-> p,
            mem |-> [m EXCEPT !.page_free_list = m.pp_link[p],
                              !.pp_link[p] = Null,
                              !.tab[p] = IF zero THEN Blank ELSE @]]

page_free_unlinked(m, p) == [m EXCEPT !.page_free_list = p]

page_free(m, p) ==
  [m EXCEPT !.pp_link[p] = m.page_free_list, !.page_free_list = p]

\* pp->pp_ref++ on the 16-bit counter.
pp_ref_incr(m, p) == [m EXCEPT !.pp_ref[p] = (@ + 1) % RefMod]

page_decref_leak(m, p) == [m EXCEPT !.pp_ref[p] = (@ + RefMod - 1) % RefMod]

page_decref(m, p) ==
  LET n == [m EXCEPT !.pp_ref[p] = (@ + RefMod - 1) % RefMod]
  IN  IF n.pp_ref[p] = 0 THEN page_free(n, p) ELSE n

----------------------------------------------------------------------------
(* The processor *)

\* invlpg(va)
tlb_invalidate(m, va) == [m EXCEPT !.tlb[va] = Null]

\* Loading %cr3 flushes the TLB (no entry is global here).
lcr3(m, d) == [m EXCEPT !.cr3 = d, !.tlb = [va \in Va |-> Null]]

\* The entry the MMU finds for va under directory d: the page, with the
\* permissions that both levels grant.
translate(m, d, va) ==
  LET pde == m.tab[d][va[1]]
      pte == m.tab[pde.pg][va[2]]
  IN  IF pde = Null THEN Null
      ELSE IF pte = Null THEN Null
      ELSE [pte EXCEPT !.perm = @ \cap pde.perm]

\* The processor may cache a translation whenever it pleases.
tlb_fill(m, va) == [m EXCEPT !.tlb[va] = translate(m, m.cr3, va)]

----------------------------------------------------------------------------
(* Page tables *)

\* A new page table is counted and entered in the directory, open to the user
\* and writable: the entries of the table restrict further.
enter_table(m, d, j, pt) ==
  [pp_ref_incr(m, pt) EXCEPT !.tab[d][j] = [pg |-> pt, perm |-> Perm]]

\* pgdir_walk: the page table that holds va's entry (or Null) and the memory
\* after the call.
pgdir_walk(m, d, va, create) ==
  LET pde == m.tab[d][va[1]]
      new == page_alloc(m, TRUE)
  IN  IF pde # Null THEN [pt |-> pde.pg, mem |-> m]
      ELSE IF ~create \/ new.pg = Null THEN [pt |-> Null, mem |-> m]
      ELSE [pt |-> new.pg, mem |-> enter_table(new.mem, d, va[1], new.pg)]

page_lookup(m, d, va) ==
  LET pt == pgdir_walk(m, d, va, FALSE).pt
  IN  IF pt = Null THEN Null
      ELSE IF m.tab[pt][va[2]] = Null THEN Null
      ELSE m.tab[pt][va[2]].pg

page_remove_stale(m, d, va) ==
  LET p  == page_lookup(m, d, va)
      pt == m.tab[d][va[1]].pg
  IN  IF p = Null THEN m
      ELSE [page_decref(m, p) EXCEPT !.tab[pt][va[2]] = Null]

page_remove(m, d, va) ==
  LET p  == page_lookup(m, d, va)
      pt == m.tab[d][va[1]].pg
  IN  IF p = Null THEN m
      ELSE tlb_invalidate([page_decref(m, p) EXCEPT !.tab[pt][va[2]] = Null], va)

page_insert_late(m, d, p, va, perm) ==
  LET walk    == pgdir_walk(m, d, va, TRUE)
      pt      == walk.pt
      removed == IF walk.mem.tab[pt][va[2]] = Null THEN walk.mem
                 ELSE page_remove(walk.mem, d, va)
  IN  IF pt = Null THEN [ok |-> FALSE, mem |-> m]
      ELSE [ok |-> TRUE,
            mem |-> [pp_ref_incr(removed, p)
                       EXCEPT !.tab[pt][va[2]] = [pg |-> p, perm |-> perm],
                              !.tab[d][va[1]].perm = @ \cup perm]]

\* page_insert: whether it succeeded, and the memory after the call.  The
\* count of p is raised before whatever is mapped at va is removed.
page_insert(m, d, p, va, perm) ==
  LET walk    == pgdir_walk(m, d, va, TRUE)
      pt      == walk.pt
      counted == pp_ref_incr(walk.mem, p)
      removed == IF counted.tab[pt][va[2]] = Null THEN counted
                 ELSE page_remove(counted, d, va)
  IN  IF pt = Null THEN [ok |-> FALSE, mem |-> m]
      ELSE [ok |-> TRUE,
            mem |-> [removed EXCEPT !.tab[pt][va[2]] = [pg |-> p, perm |-> perm],
                                    !.tab[d][va[1]].perm = @ \cup perm]]

=============================================================================
