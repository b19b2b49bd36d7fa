--------------------------- MODULE MemInitProofs ---------------------------
(***************************************************************************)
(* Proofs about MemInit, for any size of memory and any layout that        *)
(* MemInitAssumption allows: throughout mem_init, every one of its checks  *)
(* included, the free list is exact, and when mem_init returns the         *)
(* directory in %cr3 is the map of inc/memlayout.h.                        *)
(***************************************************************************)
EXTENDS MemInit, PmapLemmas

USE PmapAssumption

----------------------------------------------------------------------------
(* The inductive invariant.  d is the kernel's directory, S the set of the
   pages that page_init frees.                                             *)

\* The memory of MemInit.  An entry may name a page there is no frame for: the
\* windows on pages[] and envs[] are a whole page table long.
Cell == [pg : Nat, perm : SUBSET Perm] \cup {Null}

Memory == [pp_ref         : [Frame -> Nat],
           pp_link        : [Frame -> Frame \cup {Null}],
           page_free_list : Frame \cup {Null},
           tab            : [Frame -> [Ix -> Cell]],
           cr3            : Frame,
           tlb            : [Va -> Cell]]

\* An entry of the directory that names the page table t.
Pde(t) == [pg |-> t, perm |-> Perm]

\* The entries of the directory for the user's and the kernel's memory.
Below == Ix \ {UVPT}

\* What is left of the pages S when the page tables of d are taken away.
Unused(m, d, S) == {p \in S : \A i \in Below : m.tab[d][i] # Pde(p)}

\* The entry for va of the page table that d names.
Pte(m, d, va) == IF m.tab[d][va[1]] = Null THEN Null
                 ELSE m.tab[m.tab[d][va[1]].pg][va[2]]

\* Between two statements of mem_init: every page table of d is a page of S of
\* its own, the free list holds the others, and the entries are those of c.
Kept(m, d, S, c) ==
  /\ m \in Memory /\ d \in Frame /\ S \subseteq Frame \ {d}
  /\ m.tab[d][UVPT] = [pg |-> d, perm |-> {"U"}]
  /\ m.tab[d][0] = Null /\ m.tab[d][1] = Null
  /\ \A i \in Below : m.tab[d][i] = Null \/ \E t \in S : m.tab[d][i] = Pde(t)
  /\ \A i, j \in Below : m.tab[d][i] = m.tab[d][j] => i = j \/ m.tab[d][i] = Null
  /\ \A va \in Va : va[1] \in Below => Pte(m, d, va) = c[va]
  /\ \A va \in Va : m.tlb[va] = Null
  /\ IsFreeList(m, Unused(m, d, S))

\* The pages that nothing of the machine's or of boot_alloc's lies in.
Freeable == {p \in 1 .. npages - 1 : /\ p \notin IOPAGE .. EXTPAGE - 1
                                     /\ p \notin EXTPAGE .. (nextfree \div PGSIZE) - 1}

\* The stages after each of the four mappings.
Last      == {"check_kern", "lcr3", "check_free", "check_installed", "done"}
Past(i)   == CASE i = UPAGES -> {"map_envs", "map_stack", "map_all"} \cup Last
               [] i = UENVS  -> {"map_stack", "map_all"} \cup Last
               [] i = KSTACK -> {"map_all"} \cup Last
               [] OTHER      -> Last

\* The entries that boot_map_region has written so far.
Entries == [va \in Va |-> IF stage \in Past(va[1]) THEN Layout(va) ELSE Null]

Checked == {"check_free_low", "check_alloc", "check_page", "map_pages", "map_envs",
            "map_stack", "map_all"} \cup Last

Sizes == /\ npages \in Nat /\ npages <= NPT * NPT
         /\ nextfree \in Nat /\ EXTPAGE <= nextfree \div PGSIZE

Allotted == /\ npages < MaxPages
            /\ kern_pgdir \in EXTPAGE .. (nextfree \div PGSIZE) - 1
            /\ kern_pgdir \in Frame

IInv ==
  /\ stage \in {"detect", "kern_pgdir", "pages", "envs", "page_init", "panic"} \cup Checked
  /\ stage # "panic" => mem \in Memory /\ Sizes
  /\ stage \notin {"detect", "kern_pgdir", "panic"} => Allotted
  /\ stage \notin {"detect", "kern_pgdir", "pages", "panic"} => pages \in Nat
  /\ stage \in {"page_init"} \cup Checked => envs \in Nat
  /\ stage \notin {"panic"} \cup Checked => \A va \in Va : mem.tlb[va] = Null
  /\ stage \in {"pages", "envs", "page_init"} =>
       \A i \in Ix : mem.tab[kern_pgdir][i] = IF i = UVPT THEN [pg |-> kern_pgdir, perm |-> {"U"}]
                                              ELSE Null
  /\ stage \in Checked => Kept(mem, kern_pgdir, Freeable, Entries)
  /\ stage \in {"check_free", "check_installed", "done"} => mem.cr3 = kern_pgdir

\* The parts of MemInitAssumption that the proofs use most.
LEMMA Constants ==
  /\ NPT \in Nat \ {0} /\ PGSIZE \in Nat \ {0} /\ PAGEINFO \in Nat /\ ENVBYTES \in Nat
  /\ Ix = 0 .. NPT - 1 /\ Frame = 0 .. MaxPages - 1
  /\ KB \in Ix /\ UVPT \in 2 .. KB - 1 /\ EXTPAGE \in Nat
  /\ \A n \in Nvram : Total(n) \div PGKB \in 0 .. NPT * NPT
BY Zenon, MemInitAssumption

\* The number of frames, and what the index of a directory entry is.
LEMMA Numbers ==
  KB \in Nat /\ KB < NPT /\ UVPT \in Ix /\ NPT * NPT \in Int /\ MaxPages \in Int
<1>1. NPT \in Nat \ {0} /\ KB \in 0 .. NPT - 1 /\ UVPT \in 2 .. KB - 1 /\ Ix = 0 .. NPT - 1
  BY Zenon, Constants
<1> QED
  BY <1>1 DEF MaxPages

----------------------------------------------------------------------------
(* What the operations of PmapOps do to a memory. *)

\* The fields of a memory.
LEMMA Fields ==
  ASSUME NEW m \in Memory
  PROVE  /\ m.pp_ref \in [Frame -> Nat]
         /\ m.pp_link \in [Frame -> Frame \cup {Null}]
         /\ m.page_free_list \in Frame \cup {Null}
         /\ m.tab \in [Frame -> [Ix -> Cell]]
         /\ m.cr3 \in Frame
         /\ m.tlb \in [Va -> Cell]
BY DEF Memory

\* n is m but for the free list, the link of p and what p holds.
Relinked(m, n, p) ==
  /\ n \in Memory
  /\ n.pp_ref = m.pp_ref /\ n.cr3 = m.cr3 /\ n.tlb = m.tlb
  /\ \A f \in Frame \ {p} : n.tab[f] = m.tab[f] /\ n.pp_link[f] = m.pp_link[f]

\* page_alloc takes the head of the list.
LEMMA AllocEff ==
  ASSUME NEW m \in Memory, NEW L \in SUBSET Frame, IsFreeList(m, L),
         NEW zero \in BOOLEAN, NEW p, p = m.page_free_list, p # Null,
         NEW n, n = page_alloc(m, zero).mem
  PROVE  /\ page_alloc(m, zero).pg = p
         /\ p \in L /\ Relinked(m, n, p) /\ IsFreeList(n, L \ {p})
         /\ n.tab[p] = IF zero THEN Blank ELSE m.tab[p]
<1> USE Fields
<1>1. p \in Frame
  OBVIOUS
<1>2. Blank \in [Ix -> Cell] /\ m.tab[p] \in [Ix -> Cell]
  BY <1>1 DEF Blank, Cell
<1>3. PICK e : e = IF zero THEN Blank ELSE m.tab[p]
  OBVIOUS
<1> DEFINE link == [m.pp_link EXCEPT ![p] = Null]
           tab  == [m.tab EXCEPT ![p] = e]
<1>4. link \in [Frame -> Frame \cup {Null}] /\ m.pp_link[p] \in Frame \cup {Null}
  BY <1>1
<1>5. e \in [Ix -> Cell]
  BY <1>3, <1>2
<1>6. tab \in [Frame -> [Ix -> Cell]]
  BY <1>1, <1>5
<1>7. n = [pp_ref |-> m.pp_ref, pp_link |-> link, page_free_list |-> m.pp_link[p],
           tab |-> tab, cr3 |-> m.cr3, tlb |-> m.tlb]
  BY <1>3, <1>1 DEF page_alloc, Memory
<1>8. /\ n \in Memory
      /\ n.pp_ref = m.pp_ref /\ n.pp_link = link /\ n.page_free_list = m.pp_link[p]
      /\ n.tab = tab /\ n.cr3 = m.cr3 /\ n.tlb = m.tlb
  <2> HIDE DEF link, tab
  <2> QED BY <1>4, <1>6, <1>7 DEF Memory
<1>9. Relinked(m, n, p)
  BY <1>1, <1>8 DEF Relinked
<1>10. n.tab[p] = IF zero THEN Blank ELSE m.tab[p]
  BY <1>3, <1>1, <1>8
<1>11. p \in L /\ IsFreeList(n, L \ {p})
  BY <1>8, FreeListPop
<1> QED
  BY <1>9, <1>10, <1>11 DEF page_alloc

\* page_free puts p on the list.
LEMMA FreeEff ==
  ASSUME NEW m \in Memory, NEW L \in SUBSET Frame, IsFreeList(m, L),
         NEW p \in Frame \ L, NEW n, n = page_free(m, p)
  PROVE  /\ Relinked(m, n, p) /\ IsFreeList(n, L \cup {p})
         /\ n.tab = m.tab /\ n.page_free_list = p
<1> USE Fields
<1> DEFINE link == [m.pp_link EXCEPT ![p] = m.page_free_list]
<1>1. link \in [Frame -> Frame \cup {Null}]
  OBVIOUS
<1>2. n = [pp_ref |-> m.pp_ref, pp_link |-> link, page_free_list |-> p,
           tab |-> m.tab, cr3 |-> m.cr3, tlb |-> m.tlb]
  BY DEF page_free, Memory
<1>3. /\ n \in Memory
      /\ n.pp_ref = m.pp_ref /\ n.pp_link = link /\ n.page_free_list = p
      /\ n.tab = m.tab /\ n.cr3 = m.cr3 /\ n.tlb = m.tlb
  <2> HIDE DEF link
  <2> QED BY <1>1, <1>2 DEF Memory
<1>4. Relinked(m, n, p)
  BY <1>3 DEF Relinked
<1>5. IsFreeList(n, L \cup {p})
  BY <1>3, FreeListPush
<1> QED
  BY <1>3, <1>4, <1>5

\* An entry that is present is a record of a page and its permissions.
LEMMA CellFields ==
  ASSUME NEW e \in Cell, e # Null
  PROVE  e.pg \in Nat /\ e.perm \in SUBSET Perm /\ e = [pg |-> e.pg, perm |-> e.perm]
BY DEF Cell

\* A directory entry for a frame is present, and names that frame.
LEMMA PdeFields ==
  ASSUME NEW t \in Frame
  PROVE  /\ t \in Nat /\ Pde(t) \in Cell /\ Pde(t) # Null
         /\ Pde(t).pg = t /\ Pde(t).perm = Perm
<1>1. t \in Nat
  BY MemInitAssumption
<1> QED
  BY <1>1, MemInitAssumption DEF Pde, Cell

\* n is m with the cleared page p entered in d as the page table i.
TableAdded(m, n, d, i, p) ==
  /\ n \in Memory
  /\ n.tab[p] = Blank /\ n.tab[d] = [m.tab[d] EXCEPT ![i] = Pde(p)]
  /\ \A f \in Frame : f # d /\ f # p => n.tab[f] = m.tab[f]
  /\ \A f \in Frame \ {p} : n.pp_link[f] = m.pp_link[f]
  /\ n.cr3 = m.cr3 /\ n.tlb = m.tlb

\* pgdir_walk that creates the page table if it must.
Walk(m, d, va) == pgdir_walk(m, d, va, TRUE)

\* pgdir_walk of an address whose page table is missing takes a page for it.
LEMMA WalkEff ==
  ASSUME NEW m \in Memory, NEW L \in SUBSET Frame, IsFreeList(m, L),
         NEW d \in Frame \ L, NEW va, NEW i \in Ix, va[1] = i,
         m.tab[d][i] = Null,
         NEW p, p = m.page_free_list, p # Null,
         NEW w, w = Walk(m, d, va), NEW n, n = w.mem
  PROVE  /\ w.pt = p
         /\ p \in L /\ TableAdded(m, n, d, i, p) /\ IsFreeList(n, L \ {p})
<1>1. PICK a : a = page_alloc(m, TRUE).mem
  OBVIOUS
<1>2. /\ page_alloc(m, TRUE).pg = p
      /\ p \in L /\ Relinked(m, a, p) /\ IsFreeList(a, L \ {p})
      /\ a.tab[p] = Blank
  <2>1. PICK zero \in BOOLEAN : zero = TRUE
    OBVIOUS
  <2>2. a = page_alloc(m, zero).mem
    BY <1>1, <2>1
  <2>3. /\ page_alloc(m, zero).pg = p
        /\ p \in L /\ Relinked(m, a, p) /\ IsFreeList(a, L \ {p})
        /\ a.tab[p] = IF zero THEN Blank ELSE m.tab[p]
    BY <2>2, AllocEff
  <2> QED BY <2>1, <2>3
<1>3. p \in Frame /\ p # d /\ a \in Memory /\ a.tab[d] = m.tab[d]
  BY <1>2 DEF Relinked
<1>4. w.pt = p /\ n = enter_table(a, d, i, p)
  BY <1>1, <1>2 DEF Walk, pgdir_walk
<1>5. Pde(p) \in Cell
  BY <1>3, PdeFields
<1> DEFINE ref == [a.pp_ref EXCEPT ![p] = (a.pp_ref[p] + 1) % RefMod]
           tab == [a.tab EXCEPT ![d][i] = Pde(p)]
<1>6. ref \in [Frame -> Nat]
  <2>1. a.pp_ref \in [Frame -> Nat]
    BY <1>3, Fields
  <2>2. (a.pp_ref[p] + 1) % RefMod \in Nat
    BY <1>3, <2>1
  <2> QED BY <2>1, <2>2
<1>7. /\ tab \in [Frame -> [Ix -> Cell]]
      /\ tab[d] = [m.tab[d] EXCEPT ![i] = Pde(p)]
      /\ \A f \in Frame \ {d} : tab[f] = a.tab[f]
  <2>1. a.tab \in [Frame -> [Ix -> Cell]]
    BY <1>3, Fields
  <2> QED BY <1>3, <1>5, <2>1
<1>8. n = [a EXCEPT !.pp_ref = ref, !.tab = tab]
  <2>1. a = [pp_ref |-> a.pp_ref, pp_link |-> a.pp_link, page_free_list |-> a.page_free_list,
             tab |-> a.tab, cr3 |-> a.cr3, tlb |-> a.tlb]
    BY <1>3 DEF Memory
  <2> QED BY <1>4, <2>1 DEF enter_table, pp_ref_incr, Pde
<1>9. /\ n \in Memory /\ n.pp_link = a.pp_link /\ n.page_free_list = a.page_free_list
      /\ n.tab = tab /\ n.cr3 = a.cr3 /\ n.tlb = a.tlb
  <2> HIDE DEF ref, tab
  <2> QED BY <1>3, <1>6, <1>7, <1>8 DEF Memory
<1> HIDE DEF tab
<1>10. TableAdded(m, n, d, i, p)
  <2>1. n.tab[p] = Blank
    BY <1>2, <1>3, <1>7, <1>9
  <2>2. n.tab[d] = [m.tab[d] EXCEPT ![i] = Pde(p)]
    BY <1>7, <1>9
  <2>3. \A f \in Frame : f # d /\ f # p => n.tab[f] = m.tab[f]
    <3>1. \A f \in Frame : f # p => a.tab[f] = m.tab[f]
      BY <1>2 DEF Relinked
    <3> QED BY <1>7, <1>9, <3>1
  <2>4. \A f \in Frame \ {p} : n.pp_link[f] = m.pp_link[f]
    BY <1>2, <1>9 DEF Relinked
  <2>5. n.cr3 = m.cr3 /\ n.tlb = m.tlb
    BY <1>2, <1>9 DEF Relinked
  <2> QED BY <1>9, <2>1, <2>2, <2>3, <2>4, <2>5 DEF TableAdded
<1>11. IsFreeList(n, L \ {p})
  BY <1>2, <1>9, FreeListSame
<1> QED
  BY <1>2, <1>4, <1>10, <1>11

\* Without a free page, it changes nothing.
LEMMA WalkFails ==
  ASSUME NEW m, NEW d, NEW va, m.tab[d][va[1]] = Null, m.page_free_list = Null
  PROVE  Walk(m, d, va).pt = Null /\ Walk(m, d, va).mem = m
BY DEF Walk, pgdir_walk, page_alloc

\* Where the page table is present, it changes nothing either.
LEMMA WalkFinds ==
  ASSUME NEW m, NEW d, NEW va, m.tab[d][va[1]] # Null
  PROVE  Walk(m, d, va).pt = m.tab[d][va[1]].pg /\ Walk(m, d, va).mem = m
BY DEF Walk, pgdir_walk

\* The page table for va is t.
Names(m, d, va, t) == m.tab[d][va[1]] = Pde(t)

\* The page that page_lookup finds, or Null.
LEMMA LookupFinds ==
  ASSUME NEW m, NEW d, NEW va, NEW t \in Frame, Names(m, d, va, t)
  PROVE  page_lookup(m, d, va) = IF m.tab[t][va[2]] = Null THEN Null ELSE m.tab[t][va[2]].pg
<1>1. Pde(t) # Null /\ Pde(t).pg = t /\ t # Null
  BY PdeFields
<1> QED
  BY <1>1 DEF page_lookup, pgdir_walk, Names

\* Without a page table page_lookup finds nothing.
LEMMA LookupMisses ==
  ASSUME NEW m, NEW d, NEW va, m.tab[d][va[1]] = Null
  PROVE  page_lookup(m, d, va) = Null
BY DEF page_lookup, pgdir_walk

\* q is on the free list of n when its count is 0, and otherwise the list is m's.
Freed(m, n, q) ==
  IF n.pp_ref[q] = 0
  THEN n.page_free_list = q /\ n.pp_link = [m.pp_link EXCEPT ![q] = m.page_free_list]
  ELSE n.page_free_list = m.page_free_list /\ n.pp_link = m.pp_link

\* The counts, with that of p raised and that of q lowered.
Raised(ref, p)  == [ref EXCEPT ![p] = (ref[p] + 1) % RefMod]
Lowered(ref, q) == [ref EXCEPT ![q] = (ref[q] + RefMod - 1) % RefMod]

\* page_decref frees the page when its count has become 0.
LEMMA DecrefEff ==
  ASSUME NEW m \in Memory, NEW q \in Frame, NEW n, n = page_decref(m, q)
  PROVE  /\ n \in Memory /\ n.tab = m.tab /\ n.cr3 = m.cr3 /\ n.tlb = m.tlb
         /\ Freed(m, n, q) /\ n.pp_ref = Lowered(m.pp_ref, q)
<1> USE Fields
<1> DEFINE ref  == [m.pp_ref EXCEPT ![q] = (m.pp_ref[q] + RefMod - 1) % RefMod]
           link == [m.pp_link EXCEPT ![q] = m.page_free_list]
<1>1. PICK c : c = [m EXCEPT !.pp_ref = ref]
  OBVIOUS
<1>2. ref \in [Frame -> Nat]
  <2>1. (m.pp_ref[q] + RefMod - 1) % RefMod \in Nat
    OBVIOUS
  <2> QED BY <2>1
<1>3. link \in [Frame -> Frame \cup {Null}]
  OBVIOUS
<1>4. n = IF ref[q] = 0 THEN page_free(c, q) ELSE c
  <2>1. c = [m EXCEPT !.pp_ref[q] = (@ + RefMod - 1) % RefMod]
    BY <1>1 DEF Memory
  <2>2. c.pp_ref = ref
    BY <1>1 DEF Memory
  <2> QED BY <2>1, <2>2 DEF page_decref
<1> HIDE DEF ref
<1>5. /\ c \in Memory /\ c.pp_ref = ref /\ c.pp_link = m.pp_link
      /\ c.page_free_list = m.page_free_list /\ c.tab = m.tab /\ c.cr3 = m.cr3 /\ c.tlb = m.tlb
  BY <1>1, <1>2 DEF Memory
<1>6. CASE ref[q] = 0
  <2>1. n = [c EXCEPT !.pp_link[q] = c.page_free_list, !.page_free_list = q]
    BY <1>4, <1>6 DEF page_free
  <2>2. n = [c EXCEPT !.pp_link = link, !.page_free_list = q]
    BY <1>5, <2>1 DEF Memory
  <2> HIDE DEF link
  <2>3. /\ n \in Memory /\ n.pp_ref = ref /\ n.pp_link = link /\ n.page_free_list = q
        /\ n.tab = m.tab /\ n.cr3 = m.cr3 /\ n.tlb = m.tlb
    BY <1>3, <1>5, <2>2 DEF Memory
  <2>4. Freed(m, n, q)
    BY <1>6, <2>3 DEF Freed, link
  <2>5. n.pp_ref = Lowered(m.pp_ref, q)
    BY <2>3 DEF Lowered, ref
  <2> QED BY <2>3, <2>4, <2>5
<1>7. CASE ref[q] # 0
  <2>1. n = c
    BY <1>4, <1>7
  <2>2. Freed(m, n, q)
    BY <1>5, <1>7, <2>1 DEF Freed
  <2>3. n.pp_ref = Lowered(m.pp_ref, q)
    BY <1>5, <2>1 DEF Lowered, ref
  <2> QED BY <1>5, <2>1, <2>2, <2>3
<1> QED
  BY <1>6, <1>7

\* n is m with e as entry j of the page table t.
EntrySet(m, n, t, j, e) == n \in Memory /\ n.tab = [m.tab EXCEPT ![t][j] = e] /\ n.cr3 = m.cr3

\* Entry j of the page table t maps the page q.
Shows(m, t, j, q) == m.tab[t][j] # Null /\ m.tab[t][j].pg = q

\* The translation of va is gone from the TLB.
Flushed(m, n, va) == n.tlb = [m.tlb EXCEPT ![va] = Null]

\* page_remove of an address where the page q is mapped.
LEMMA RemoveEff ==
  ASSUME NEW m \in Memory, NEW d \in Frame, NEW t \in Frame, t # d, NEW va \in Va,
         Names(m, d, va, t), NEW j \in Ix, j = va[2],
         NEW q \in Frame, Shows(m, t, j, q),
         NEW n, n = page_remove(m, d, va)
  PROVE  /\ EntrySet(m, n, t, j, Null) /\ Flushed(m, n, va) /\ Freed(m, n, q)
         /\ n.pp_ref = Lowered(m.pp_ref, q)
<1> USE Fields
<1>1. m.tab[t][j] # Null /\ m.tab[t][j].pg = q
  BY DEF Shows
<1>2. page_lookup(m, d, va) = q /\ q # Null
  <2>1. page_lookup(m, d, va) = IF m.tab[t][va[2]] = Null THEN Null ELSE m.tab[t][va[2]].pg
    BY LookupFinds
  <2> QED BY <1>1, <2>1
<1>3. m.tab[d][va[1]].pg = t
  BY PdeFields DEF Names
<1>4. PICK c : c = page_decref(m, q)
  OBVIOUS
<1>5. /\ c \in Memory /\ c.tab = m.tab /\ c.cr3 = m.cr3 /\ c.tlb = m.tlb
      /\ Freed(m, c, q) /\ c.pp_ref = Lowered(m.pp_ref, q)
  BY <1>4, DecrefEff
<1> DEFINE tab == [m.tab EXCEPT ![t][j] = Null]
           tlb == [m.tlb EXCEPT ![va] = Null]
<1>6. tab \in [Frame -> [Ix -> Cell]] /\ tlb \in [Va -> Cell]
  BY DEF Cell
<1>7. n = tlb_invalidate([c EXCEPT !.tab[t][j] = Null], va)
  BY <1>2, <1>3, <1>4 DEF page_remove
<1>8. n = [c EXCEPT !.tab = tab, !.tlb = tlb]
  BY <1>5, <1>7 DEF tlb_invalidate, Memory
<1> HIDE DEF tab, tlb
<1>9. /\ n \in Memory /\ n.tab = tab /\ n.tlb = tlb /\ n.cr3 = c.cr3
      /\ n.pp_ref = c.pp_ref /\ n.pp_link = c.pp_link /\ n.page_free_list = c.page_free_list
  BY <1>5, <1>6, <1>8 DEF Memory
<1>10. Freed(m, n, q)
  BY <1>5, <1>9 DEF Freed
<1> QED
  BY <1>5, <1>9, <1>10 DEF tab, tlb, EntrySet, Flushed

\* The entry that page_insert writes.
Pointer(p, perm) == [pg |-> p, perm |-> perm]

\* What page_insert does once it has the page table that w, the result of
\* pgdir_walk, names.
Inserted(w, d, p, va, perm) ==
  LET counted == pp_ref_incr(w.mem, p)
      removed == IF counted.tab[w.pt][va[2]] = Null THEN counted ELSE page_remove(counted, d, va)
  IN  [removed EXCEPT !.tab[w.pt][va[2]] = Pointer(p, perm), !.tab[d][va[1]].perm = @ \cup perm]

\* page_insert fails when pgdir_walk does, and then has changed nothing.
LEMMA InsertSteps ==
  ASSUME NEW m, NEW d, NEW p, NEW va, NEW perm, NEW w, w = Walk(m, d, va),
         NEW r, r = page_insert(m, d, p, va, perm)
  PROVE  /\ w.pt # Null => r.ok /\ r.mem = Inserted(w, d, p, va, perm)
         /\ w.pt = Null => ~r.ok /\ r.mem = m
BY DEF page_insert, Inserted, Pointer, Walk

\* page_insert at an address whose page table t is present: where nothing was
\* mapped, and where the page q was.
LEMMA PlaceEff ==
  ASSUME NEW m \in Memory, NEW d \in Frame, NEW t \in Frame, t # d, NEW va \in Va,
         Names(m, d, va, t), NEW j \in Ix, j = va[2],
         NEW p \in Frame, NEW perm \in SUBSET Perm, NEW r, r = page_insert(m, d, p, va, perm),
         NEW n, n = r.mem,
         m.tab[t][j] # Null => m.tab[t][j].pg \in Frame
  PROVE  /\ r.ok /\ EntrySet(m, n, t, j, Pointer(p, perm))
         /\ m.tab[t][j] = Null =>
              n.pp_link = m.pp_link /\ n.page_free_list = m.page_free_list /\ n.tlb = m.tlb
         /\ \A q \in Frame : Shows(m, t, j, q) =>
              Flushed(m, n, va) /\ Freed(m, n, q) /\ n.pp_ref = Lowered(Raised(m.pp_ref, p), q)
<1> USE Fields
<1>1. PICK i \in Ix : i = va[1]
  BY DEF Va
<1>2. PICK c : c = pp_ref_incr(m, p)
  OBVIOUS
<1>3. /\ c \in Memory /\ c.pp_link = m.pp_link /\ c.page_free_list = m.page_free_list
      /\ c.tab = m.tab /\ c.cr3 = m.cr3 /\ c.tlb = m.tlb /\ c.pp_ref = Raised(m.pp_ref, p)
  <2> DEFINE ref == [m.pp_ref EXCEPT ![p] = (m.pp_ref[p] + 1) % RefMod]
  <2>1. (m.pp_ref[p] + 1) % RefMod \in Nat
    OBVIOUS
  <2>2. ref \in [Frame -> Nat]
    BY <2>1
  <2>3. c = [m EXCEPT !.pp_ref = ref]
    BY <1>2 DEF pp_ref_incr, Memory
  <2>4. ref = Raised(m.pp_ref, p)
    BY DEF Raised
  <2> HIDE DEF ref
  <2> QED BY <2>2, <2>3, <2>4 DEF Memory
<1>4. PICK x : x = IF m.tab[t][j] = Null THEN c ELSE page_remove(c, d, va)
  OBVIOUS
<1>5. /\ Pde(t) # Null /\ Pde(t).pg = t /\ t # Null /\ Pde(t).perm = Perm
      /\ m.tab[d][va[1]] = Pde(t)
  BY PdeFields DEF Names
<1>6. /\ r.ok
      /\ n = [x EXCEPT !.tab[t][j] = Pointer(p, perm), !.tab[d][i].perm = @ \cup perm]
  <2>1. PICK w : w = Walk(m, d, va)
    OBVIOUS
  <2>2. w.pt = t /\ w.mem = m
    BY <1>5, <2>1, WalkFinds
  <2>3. r.ok /\ n = Inserted(w, d, p, va, perm)
    BY <1>5, <2>1, <2>2, InsertSteps
  <2> QED BY <1>1, <1>2, <1>3, <1>4, <2>2, <2>3 DEF Inserted
<1>7. Pointer(p, perm) \in Cell
  BY MemInitAssumption DEF Pointer, Cell
<1>8. ASSUME x \in Memory, NEW e \in Cell, x.tab = [m.tab EXCEPT ![t][j] = e], x.cr3 = m.cr3
      PROVE  /\ EntrySet(m, n, t, j, Pointer(p, perm))
             /\ n.pp_ref = x.pp_ref /\ n.pp_link = x.pp_link
             /\ n.page_free_list = x.page_free_list /\ n.tlb = x.tlb
  <2> DEFINE tab == [m.tab EXCEPT ![t][j] = Pointer(p, perm)]
  <2>1. tab \in [Frame -> [Ix -> Cell]]
    BY <1>7
  <2>2. [x.tab EXCEPT ![t][j] = Pointer(p, perm)] = tab
    <3>1. [[m.tab EXCEPT ![t][j] = e] EXCEPT ![t][j] = Pointer(p, perm)] = tab
      <4>1. PICK g \in [Ix -> Cell] : g = m.tab[t]
        OBVIOUS
      <4>2. [[g EXCEPT ![j] = e] EXCEPT ![j] = Pointer(p, perm)] = [g EXCEPT ![j] = Pointer(p, perm)]
        OBVIOUS
      <4> QED BY <4>1, <4>2
    <3> QED BY <1>8, <3>1
  <2>3. tab[d][i] = Pde(t)
    BY <1>1, <1>5
  <2>4. [tab EXCEPT ![d][i].perm = @ \cup perm] = tab
    <3>1. [Pde(t) EXCEPT !.perm = @ \cup perm] = Pde(t)
      <4>1. PICK all : all = Perm /\ all \cup perm = all
        OBVIOUS
      <4>2. Pde(t) = [pg |-> t, perm |-> all]
        BY <4>1 DEF Pde
      <4>3. Pde(t).perm \cup perm = all
        BY <4>1, <4>2
      <4>4. [[pg |-> t, perm |-> all] EXCEPT !.perm = all] = [pg |-> t, perm |-> all]
        OBVIOUS
      <4> QED BY <4>2, <4>3, <4>4
    <3>2. [tab EXCEPT ![d][i].perm = @ \cup perm] = [tab EXCEPT ![d][i] = Pde(t)]
      BY <2>1, <2>3, <3>1
    <3> HIDE DEF tab
    <3> QED BY <2>1, <2>3, <3>2
  <2>5. n = [x EXCEPT !.tab = tab]
    <3>1. n = [x EXCEPT !.tab = [[x.tab EXCEPT ![t][j] = Pointer(p, perm)]
                                   EXCEPT ![d][i].perm = @ \cup perm]]
      BY <1>6, <1>8 DEF Memory
    <3> HIDE DEF tab
    <3> QED BY <2>2, <2>4, <3>1
  <2> HIDE DEF tab
  <2>6. /\ n \in Memory /\ n.tab = tab /\ n.cr3 = x.cr3 /\ n.tlb = x.tlb
        /\ n.pp_ref = x.pp_ref /\ n.pp_link = x.pp_link /\ n.page_free_list = x.page_free_list
    BY <1>8, <2>1, <2>5 DEF Memory
  <2> QED BY <1>8, <2>6 DEF EntrySet, tab
<1>9. CASE m.tab[t][j] = Null
  <2>1. x = c /\ Null \in Cell
    BY <1>4, <1>9 DEF Cell
  <2>2. x.tab = [m.tab EXCEPT ![t][j] = Null]
    BY <1>3, <1>9, <2>1
  <2>3. \A q \in Frame : ~Shows(m, t, j, q)
    BY <1>9 DEF Shows
  <2> QED BY <1>3, <1>6, <1>8, <1>9, <2>1, <2>2, <2>3
<1>10. ASSUME NEW q \in Frame, Shows(m, t, j, q)
       PROVE  /\ EntrySet(m, n, t, j, Pointer(p, perm)) /\ Flushed(m, n, va) /\ Freed(m, n, q)
              /\ n.pp_ref = Lowered(Raised(m.pp_ref, p), q)
  <2>1. x = page_remove(c, d, va)
    BY <1>4, <1>10 DEF Shows
  <2>2. Names(c, d, va, t) /\ Shows(c, t, j, q)
    BY <1>3, <1>10 DEF Names, Shows
  <2>3. /\ EntrySet(c, x, t, j, Null) /\ Flushed(c, x, va) /\ Freed(c, x, q)
        /\ x.pp_ref = Lowered(c.pp_ref, q)
    BY <1>3, <2>1, <2>2, RemoveEff
  <2>4. x \in Memory /\ x.tab = [m.tab EXCEPT ![t][j] = Null] /\ x.cr3 = m.cr3
    BY <1>3, <2>3 DEF EntrySet
  <2>5. Null \in Cell
    BY DEF Cell
  <2>6. /\ EntrySet(m, n, t, j, Pointer(p, perm))
        /\ n.pp_ref = x.pp_ref /\ n.pp_link = x.pp_link
        /\ n.page_free_list = x.page_free_list /\ n.tlb = x.tlb
    BY <1>8, <2>4, <2>5
  <2>7. Freed(m, n, q)
    BY <1>3, <2>3, <2>6 DEF Freed
  <2>8. Flushed(m, n, va)
    BY <1>3, <2>3, <2>6 DEF Flushed
  <2> QED BY <1>3, <2>3, <2>6, <2>7, <2>8
<1>11. CASE m.tab[t][j] # Null
  <2>1. PICK q \in Frame : q = m.tab[t][j].pg
    BY <1>11
  <2>2. Shows(m, t, j, q)
    BY <1>11, <2>1 DEF Shows
  <2> QED BY <1>6, <1>10, <1>11, <2>2
<1> QED
  BY <1>9, <1>11

----------------------------------------------------------------------------
(* The checks play with a few pages, and with the first two entries of the
   directory.  k says what they play with: k.play are the pages, k.mem is the
   memory they found, k.d the directory.                                   *)

\* What is not played with is as it was.
Untouched(m, k) ==
  /\ \A f \in Frame \ k.play : m.pp_link[f] = k.mem.pp_link[f]
  /\ \A f \in Frame \ k.play : f # k.d => m.tab[f] = k.mem.tab[f]
  /\ \A i \in Ix : i # 0 /\ i # 1 => m.tab[k.d][i] = k.mem.tab[k.d][i]
  /\ m.cr3 = k.mem.cr3

\* Entry i of d names the page table t, or none when t is Null.
Dir(m, d, i, t) == m.tab[d][i] = IF t = Null THEN Null ELSE Pde(t)

\* The page that entry j of the page table t maps.
Mapped_by(m, t, j) == IF t = Null THEN Null ELSE IF m.tab[t][j] = Null THEN Null ELSE m.tab[t][j].pg

\* L is the free list, t and u are the page tables of the first two directory
\* entries, x and y are the pages at V0 and V1, W are the addresses whose
\* translations may be cached.
Scene(m, k, L, t, u, x, y, W) ==
  /\ m \in Memory /\ k.d \in Frame /\ k.play \subseteq Frame /\ k.d \notin k.play
  /\ L \subseteq k.play /\ IsFreeList(m, L)
  /\ {t, u, x, y} \subseteq (k.play \ L) \cup {Null}
  /\ t # Null => t # x /\ t # y /\ u = Null
  /\ Dir(m, k.d, 0, t) /\ Dir(m, k.d, 1, u)
  /\ x = Mapped_by(m, t, 0) /\ y = Mapped_by(m, t, 1)
  /\ \A va \in Va \ W : m.tlb[va] = Null
  /\ Untouched(m, k)

\* A page is not one of those in use.
Spare(p, t, u, x, y) == p # t /\ p # u /\ p # x /\ p # y

\* The directory has a first and a second entry.
LEMMA Indices2 == 0 \in Ix /\ 1 \in Ix /\ UVPT \in Ix /\ UVPT # 0 /\ UVPT # 1
<1>1. NPT \in Nat /\ KB \in 0 .. NPT - 1 /\ UVPT \in 2 .. KB - 1 /\ Ix = 0 .. NPT - 1
  BY MemInitAssumption
<1> QED
  BY <1>1

\* A change of the free list and of pages that nothing names.
LEMMA SceneSame ==
  ASSUME NEW m, NEW k, NEW L, NEW t, NEW u, NEW x, NEW y, NEW W, Scene(m, k, L, t, u, x, y, W),
         NEW n \in Memory, n.cr3 = m.cr3, n.tlb = m.tlb,
         \A f \in Frame \ k.play : n.tab[f] = m.tab[f] /\ n.pp_link[f] = m.pp_link[f],
         t # Null => n.tab[t] = m.tab[t],
         NEW L2, L2 \subseteq k.play, IsFreeList(n, L2), \A p \in L2 : Spare(p, t, u, x, y)
  PROVE  Scene(n, k, L2, t, u, x, y, W)
<1>1. n.tab[k.d] = m.tab[k.d]
  BY DEF Scene
<1>2. Dir(n, k.d, 0, t) /\ Dir(n, k.d, 1, u)
  BY <1>1 DEF Scene, Dir
<1>3. x = Mapped_by(n, t, 0) /\ y = Mapped_by(n, t, 1)
  BY DEF Scene, Mapped_by
<1>4. Untouched(n, k)
  BY <1>1 DEF Scene, Untouched
<1>5. {t, u, x, y} \subseteq (k.play \ L2) \cup {Null}
  BY DEF Scene, Spare
<1>6. \A va \in Va \ W : n.tlb[va] = Null
  BY DEF Scene
<1> QED
  BY <1>2, <1>3, <1>4, <1>5, <1>6 DEF Scene

\* page_free of a page that nothing names.
LEMMA SceneFree ==
  ASSUME NEW m, NEW k, NEW L, NEW t, NEW u, NEW x, NEW y, NEW W, Scene(m, k, L, t, u, x, y, W),
         NEW p, p \in k.play, p \notin L, Spare(p, t, u, x, y),
         NEW n, n = page_free(m, p), NEW L2, L2 = L \cup {p}
  PROVE  Scene(n, k, L2, t, u, x, y, W) /\ n.page_free_list = p
<1>1. m \in Memory /\ L \in SUBSET Frame /\ p \in Frame \ L /\ k.play \subseteq Frame /\ L2 \subseteq k.play
  BY DEF Scene
<1>2. /\ Relinked(m, n, p) /\ IsFreeList(n, L2)
      /\ n.tab = m.tab /\ n.page_free_list = p
  BY <1>1, FreeEff DEF Scene
<1>3. \A q \in L2 : Spare(q, t, u, x, y)
  BY <1>1 DEF Scene, Spare
<1>4. \A f \in Frame \ k.play : n.tab[f] = m.tab[f] /\ n.pp_link[f] = m.pp_link[f]
  BY <1>2 DEF Relinked
<1>5. n \in Memory /\ n.cr3 = m.cr3 /\ n.tlb = m.tlb
  BY <1>2 DEF Relinked
<1> QED
  BY <1>1, <1>2, <1>3, <1>4, <1>5, SceneSame

\* page_alloc.
LEMMA SceneAlloc ==
  ASSUME NEW m, NEW k, NEW L, NEW t, NEW u, NEW x, NEW y, NEW W, Scene(m, k, L, t, u, x, y, W),
         NEW p, p = m.page_free_list, p # Null, NEW zero \in BOOLEAN,
         NEW n, n = page_alloc(m, zero).mem, NEW L2, L2 = L \ {p}
  PROVE  Scene(n, k, L2, t, u, x, y, W) /\ p \in L
<1>1. m \in Memory /\ L \in SUBSET Frame /\ IsFreeList(m, L)
  BY DEF Scene
<1>2. p \in L /\ Relinked(m, n, p) /\ IsFreeList(n, L2)
  BY <1>1, AllocEff
<1>3. L2 \subseteq k.play /\ p \in k.play /\ p # t
  BY <1>2 DEF Scene
<1>4. \A q \in L2 : Spare(q, t, u, x, y)
  BY DEF Scene, Spare
<1>5. \A f \in Frame \ k.play : n.tab[f] = m.tab[f] /\ n.pp_link[f] = m.pp_link[f]
  BY <1>2, <1>3 DEF Relinked
<1>6. t # Null => n.tab[t] = m.tab[t]
  BY <1>2, <1>3 DEF Relinked, Scene
<1>7. n \in Memory /\ n.cr3 = m.cr3 /\ n.tlb = m.tlb
  BY <1>2 DEF Relinked
<1> QED
  BY <1>2, <1>3, <1>4, <1>5, <1>6, <1>7, SceneSame

\* pgdir_walk takes the head of the list as the first page table.
LEMMA SceneWalk0 ==
  ASSUME NEW m, NEW k, NEW L, NEW W, Scene(m, k, L, Null, Null, Null, Null, W),
         NEW va \in Va, va[1] = 0,
         NEW p, p = m.page_free_list, p # Null,
         NEW w, w = Walk(m, k.d, va), NEW n, n = w.mem, NEW L2, L2 = L \ {p}
  PROVE  /\ Scene(n, k, L2, p, Null, Null, Null, W) /\ w.pt = p
         /\ p \in L /\ n.tab[p] = Blank
<1>1. PICK d \in Frame \ L : d = k.d
  BY DEF Scene
<1>2. PICK i \in Ix : i = 0
  BY Indices2
<1>3. /\ m \in Memory /\ L \in SUBSET Frame /\ IsFreeList(m, L) /\ m.tab[d][i] = Null
      /\ va[1] = i /\ w = Walk(m, d, va)
  BY <1>1, <1>2 DEF Scene, Dir
<1>4. w.pt = p /\ p \in L /\ TableAdded(m, n, d, i, p) /\ IsFreeList(n, L2)
  BY <1>3, WalkEff
<1>5. p \in k.play /\ p \in Frame /\ L2 \subseteq k.play /\ m.tab[d] \in [Ix -> Cell]
  BY <1>1, <1>3, <1>4, Fields DEF Scene
<1>6. n.tab[d][0] = Pde(p) /\ \A j \in Ix : j # 0 => n.tab[d][j] = m.tab[d][j]
  BY <1>2, <1>4, <1>5 DEF TableAdded
<1>7. Dir(n, k.d, 0, p) /\ Dir(n, k.d, 1, Null)
  BY <1>1, <1>4, <1>5, <1>6, Indices2 DEF Dir, Scene
<1>8. Mapped_by(n, p, 0) = Null /\ Mapped_by(n, p, 1) = Null /\ n.tab[p] = Blank
  BY <1>4, Indices2 DEF Mapped_by, TableAdded, Blank
<1>9. Untouched(n, k)
  BY <1>1, <1>4, <1>5, <1>6 DEF Untouched, Scene, TableAdded
<1>10. n \in Memory /\ \A va2 \in Va \ W : n.tlb[va2] = Null
  BY <1>4 DEF Scene, TableAdded
<1>11. {p, Null, Null, Null} \subseteq (k.play \ L2) \cup {Null}
  BY <1>5
<1> QED
  BY <1>4, <1>5, <1>7, <1>8, <1>9, <1>10, <1>11 DEF Scene

\* And as the second.
LEMMA SceneWalk1 ==
  ASSUME NEW m, NEW k, NEW L, NEW W, Scene(m, k, L, Null, Null, Null, Null, W),
         NEW va \in Va, va[1] = 1,
         NEW p, p = m.page_free_list, p # Null,
         NEW w, w = Walk(m, k.d, va), NEW n, n = w.mem, NEW L2, L2 = L \ {p}
  PROVE  Scene(n, k, L2, Null, p, Null, Null, W) /\ p \in L
<1>1. PICK d \in Frame \ L : d = k.d
  BY DEF Scene
<1>2. PICK i \in Ix : i = 1
  BY Indices2
<1>3. /\ m \in Memory /\ L \in SUBSET Frame /\ IsFreeList(m, L) /\ m.tab[d][i] = Null
      /\ va[1] = i /\ w = Walk(m, d, va)
  BY <1>1, <1>2 DEF Scene, Dir
<1>4. w.pt = p /\ p \in L /\ TableAdded(m, n, d, i, p) /\ IsFreeList(n, L2)
  BY <1>3, WalkEff
<1>5. p \in k.play /\ p \in Frame /\ L2 \subseteq k.play /\ m.tab[d] \in [Ix -> Cell]
  BY <1>1, <1>3, <1>4, Fields DEF Scene
<1>6. n.tab[d][1] = Pde(p) /\ \A j \in Ix : j # 1 => n.tab[d][j] = m.tab[d][j]
  BY <1>2, <1>4, <1>5 DEF TableAdded
<1>7. Dir(n, k.d, 0, Null) /\ Dir(n, k.d, 1, p)
  BY <1>1, <1>4, <1>5, <1>6, Indices2 DEF Dir, Scene
<1>8. Mapped_by(n, Null, 0) = Null /\ Mapped_by(n, Null, 1) = Null
  BY DEF Mapped_by
<1>9. Untouched(n, k)
  BY <1>1, <1>4, <1>5, <1>6 DEF Untouched, Scene, TableAdded
<1>10. n \in Memory /\ \A va2 \in Va \ W : n.tlb[va2] = Null
  BY <1>4 DEF Scene, TableAdded
<1>11. {Null, p, Null, Null} \subseteq (k.play \ L2) \cup {Null}
  BY <1>5
<1> QED
  BY <1>4, <1>5, <1>7, <1>8, <1>9, <1>10, <1>11 DEF Scene

\* The page that a new entry maps, or none where the entry is cleared.
Target(e) == IF e = Null THEN Null ELSE e.pg

\* What is at V0 (i = 0) or V1 (i = 1) when entry j has been set.
Instead(j, i, new, old) == IF j = i THEN new ELSE old

\* n is m with the entry e set, and L2, x2, y2 and W2 are what it shows.
Sets(m, k, t, x, y, n, j, e, L2, x2, y2, W2) ==
  /\ t # Null /\ j \in Ix /\ e \in Cell /\ EntrySet(m, n, t, j, e)
  /\ x2 = Instead(j, 0, Target(e), x) /\ y2 = Instead(j, 1, Target(e), y)
  /\ L2 \subseteq k.play /\ IsFreeList(n, L2) /\ t \notin L2
  /\ x2 = Null \/ (x2 \in k.play \ L2 /\ x2 # t)
  /\ y2 = Null \/ (y2 \in k.play \ L2 /\ y2 # t)
  /\ \A f \in Frame \ k.play : n.pp_link[f] = m.pp_link[f]
  /\ \A va \in Va \ W2 : n.tlb[va] = Null

\* An entry of the first page table is set.
LEMMA SceneSet ==
  ASSUME NEW m, NEW k, NEW L, NEW t, NEW x, NEW y, NEW W, Scene(m, k, L, t, Null, x, y, W),
         NEW n, NEW j, NEW e, NEW L2, NEW x2, NEW y2, NEW W2,
         Sets(m, k, t, x, y, n, j, e, L2, x2, y2, W2)
  PROVE  Scene(n, k, L2, t, Null, x2, y2, W2)
<1>1. t # Null /\ j \in Ix /\ e \in Cell /\ EntrySet(m, n, t, j, e)
  BY DEF Sets
<1>2. /\ t \in Frame /\ t \in k.play /\ k.d \in Frame /\ t # k.d /\ m \in Memory
      /\ k.play \subseteq Frame /\ k.d \notin k.play
  BY <1>1 DEF Scene
<1>3. /\ n \in Memory /\ n.cr3 = m.cr3 /\ n.tab[t] = [m.tab[t] EXCEPT ![j] = e]
      /\ \A f \in Frame : f # t => n.tab[f] = m.tab[f]
  BY <1>1, <1>2, Fields DEF EntrySet
<1>4. n.tab[t][j] = e /\ \A i \in Ix : i # j => n.tab[t][i] = m.tab[t][i]
  BY <1>1, <1>2, <1>3, Fields
<1>5. x2 = Mapped_by(n, t, 0)
  BY <1>1, <1>2, <1>4, Indices2 DEF Sets, Scene, Mapped_by, Target, Instead
<1>6. y2 = Mapped_by(n, t, 1)
  BY <1>1, <1>2, <1>4, Indices2 DEF Sets, Scene, Mapped_by, Target, Instead
<1>7. Dir(n, k.d, 0, t) /\ Dir(n, k.d, 1, Null)
  BY <1>2, <1>3 DEF Scene, Dir
<1>8. Untouched(n, k)
  BY <1>2, <1>3 DEF Sets, Scene, Untouched
<1>9. {t, Null, x2, y2} \subseteq (k.play \ L2) \cup {Null}
  BY <1>2 DEF Sets
<1> QED
  BY <1>1, <1>2, <1>3, <1>5, <1>6, <1>7, <1>8, <1>9 DEF Sets, Scene

\* The list after the last mapping of q, if it was one, has been removed.
Dropped(n, L, q, L2) ==
  \/ (q = Null \/ n.pp_ref[q] # 0) /\ L2 = L
  \/ q # Null /\ n.pp_ref[q] = 0 /\ L2 = L \cup {q}

\* Where q was mapped at va, the TLB no longer holds va.
Flushable(q, va, W, W2) == W2 = W \/ (q # Null /\ W2 = W \ {va})

\* What the entries that a scene shows say of its memory.
LEMMA SceneEntry ==
  ASSUME NEW m, NEW k, NEW L, NEW t, NEW x, NEW y, NEW W, Scene(m, k, L, t, Null, x, y, W), t # Null,
         NEW j \in {0, 1}, NEW q, q = IF j = 0 THEN x ELSE y
  PROVE  /\ q = Null => m.tab[t][j] = Null
         /\ q # Null => q \in Frame /\ q \in k.play /\ q \notin L /\ q # t /\ Shows(m, t, j, q)
         /\ t \in Frame /\ t # k.d /\ j \in Ix /\ m.tab[t][j] \in Cell
<1>1. t \in Frame /\ t # k.d /\ j \in Ix /\ m.tab \in [Frame -> [Ix -> Cell]]
  BY Indices2, Fields DEF Scene
<1>2. m.tab[t][j] \in Cell
  BY <1>1
<1>3. q = Mapped_by(m, t, j)
  BY DEF Scene
<1>4. q = IF m.tab[t][j] = Null THEN Null ELSE m.tab[t][j].pg
  BY <1>3 DEF Mapped_by
<1>5. m.tab[t][j] # Null => m.tab[t][j].pg \in Nat
  BY <1>2, CellFields
<1>6. q \in {x, y}
  OBVIOUS
<1>7. q # Null => q \in Frame /\ q \in k.play /\ q \notin L /\ q # t
  BY <1>6 DEF Scene
<1>8. CASE q = Null
  <2>1. m.tab[t][j] = Null
    <3> SUFFICES ASSUME m.tab[t][j] # Null PROVE FALSE
      OBVIOUS
    <3>1. m.tab[t][j] = [pg |-> m.tab[t][j].pg, perm |-> m.tab[t][j].perm] /\ m.tab[t][j].pg = Null
      BY <1>2, <1>4, <1>8, CellFields
    <3>2. m.tab[t][j].pg \in Nat
      BY <1>5
    <3> QED BY <3>1, <3>2, MemInitAssumption
  <2> QED BY <1>1, <1>2, <1>8, <2>1
<1>9. CASE q # Null
  BY <1>1, <1>2, <1>4, <1>7, <1>9 DEF Shows
<1> QED
  BY <1>8, <1>9

\* The list after a page may have been freed.
LEMMA DroppedList ==
  ASSUME NEW m \in Memory, NEW L \in SUBSET Frame, IsFreeList(m, L),
         NEW n, NEW q \in Frame \ L, Freed(m, n, q), NEW L2, Dropped(n, L, q, L2)
  PROVE  /\ IsFreeList(n, L2)
         /\ \A f \in Frame \ {q} : n.pp_link[f] = m.pp_link[f]
<1> USE Fields
<1>1. CASE n.pp_ref[q] = 0
  <2>1. n.page_free_list = q /\ n.pp_link = [m.pp_link EXCEPT ![q] = m.page_free_list]
    BY <1>1 DEF Freed
  <2>2. L2 = L \cup {q}
    BY <1>1 DEF Dropped
  <2>3. IsFreeList(n, L \cup {q})
    BY <2>1, FreeListPush
  <2> QED BY <2>1, <2>2, <2>3
<1>2. CASE n.pp_ref[q] # 0
  <2>1. n.page_free_list = m.page_free_list /\ n.pp_link = m.pp_link
    BY <1>2 DEF Freed
  <2>2. L2 = L
    BY <1>2 DEF Dropped
  <2> QED BY <2>1, <2>2, FreeListSame
<1> QED
  BY <1>1, <1>2

\* n is what page_insert of p at va, where q was mapped, makes of m; L2, x2, y2
\* and W2 are what its scene shows.  The page that is mapped now, and the one at
\* the other address, are not freed.
Placing(m, k, L, t, x, y, W, va, p, perm, n, q, L2, x2, y2, W2) ==
  /\ n = page_insert(m, k.d, p, va, perm).mem /\ perm \in SUBSET Perm
  /\ va \in Va /\ va[1] = 0 /\ va[2] \in {0, 1} /\ q = IF va[2] = 0 THEN x ELSE y
  /\ p \in k.play /\ p \notin L /\ p # t
  /\ Dropped(n, L, q, L2) /\ Flushable(q, va, W, W2)
  /\ x2 = Instead(va[2], 0, p, x) /\ y2 = Instead(va[2], 1, p, y)
  /\ x2 \notin L2 /\ y2 \notin L2

\* page_insert where the page table is there.
LEMMA SceneInsert ==
  ASSUME NEW m, NEW k, NEW L, NEW t, NEW x, NEW y, NEW W, Scene(m, k, L, t, Null, x, y, W), t # Null,
         NEW va, NEW p, NEW perm, NEW n, NEW q, NEW L2, NEW x2, NEW y2, NEW W2,
         Placing(m, k, L, t, x, y, W, va, p, perm, n, q, L2, x2, y2, W2)
  PROVE  Scene(n, k, L2, t, Null, x2, y2, W2)
<1> DEFINE j == va[2]
           r == page_insert(m, k.d, p, va, perm)
<1>1. /\ va \in Va /\ va[1] = 0 /\ j \in {0, 1} /\ va[2] = j
      /\ q = IF j = 0 THEN x ELSE y
      /\ p \in k.play /\ p \notin L /\ p # t /\ perm \in SUBSET Perm
      /\ r = page_insert(m, k.d, p, va, perm) /\ n = r.mem
      /\ Dropped(n, L, q, L2) /\ Flushable(q, va, W, W2)
      /\ x2 = Instead(j, 0, p, x) /\ y2 = Instead(j, 1, p, y)
      /\ x2 \notin L2 /\ y2 \notin L2
  BY DEF Placing
<1> USE <1>1
<1> HIDE DEF j, r
<1>2. PICK d \in Frame : d = k.d
  BY DEF Scene
<1>3. /\ q = Null => m.tab[t][j] = Null
      /\ q # Null => q \in Frame /\ q \in k.play /\ q \notin L /\ q # t /\ Shows(m, t, j, q)
      /\ t \in Frame /\ t # d /\ j \in Ix
  BY <1>2, SceneEntry
<1>4. /\ m \in Memory /\ L \in SUBSET Frame /\ IsFreeList(m, L) /\ p \in Frame
      /\ Names(m, d, va, t) /\ L \subseteq k.play /\ t \in k.play /\ t \notin L
  BY <1>2, <1>3 DEF Scene, Dir, Names
<1>5. m.tab[t][j] # Null => m.tab[t][j].pg \in Frame
  BY <1>3 DEF Shows
<1>6. PICK e : e = Pointer(p, perm)
  OBVIOUS
<1>7. e \in Cell /\ Target(e) = p
  <2>1. p \in Nat
    BY <1>4, MemInitAssumption
  <2>2. e \in [pg : Nat, perm : SUBSET Perm] /\ e.pg = p
    BY <1>6, <2>1 DEF Pointer
  <2> QED BY <2>2, MemInitAssumption DEF Cell, Target
<1>8. /\ EntrySet(m, n, t, j, e)
      /\ m.tab[t][j] = Null =>
           n.pp_link = m.pp_link /\ n.page_free_list = m.page_free_list /\ n.tlb = m.tlb
      /\ \A f \in Frame : Shows(m, t, j, f) => Flushed(m, n, va) /\ Freed(m, n, f)
  <2>1. r = page_insert(m, d, p, va, perm)
    BY <1>2
  <2> QED BY <1>3, <1>4, <1>5, <1>6, <2>1, PlaceEff
<1>9. L2 \subseteq k.play /\ t \notin L2
  BY <1>3, <1>4 DEF Dropped
<1>10. /\ IsFreeList(n, L2)
       /\ \A f \in Frame \ k.play : n.pp_link[f] = m.pp_link[f]
       /\ \A va2 \in Va \ W2 : n.tlb[va2] = Null
  <2>1. CASE q = Null
    <3>1. n.pp_link = m.pp_link /\ n.page_free_list = m.page_free_list /\ n.tlb = m.tlb
      BY <1>3, <1>8, <2>1
    <3>2. L2 = L /\ W2 = W
      BY <2>1 DEF Dropped, Flushable
    <3>3. IsFreeList(n, L2)
      BY <1>4, <3>1, <3>2, FreeListSame
    <3>4. \A va2 \in Va \ W : m.tlb[va2] = Null
      BY DEF Scene
    <3> QED BY <3>1, <3>2, <3>3, <3>4
  <2>2. CASE q # Null
    <3>1. q \in Frame \ L /\ q \in k.play /\ Flushed(m, n, va) /\ Freed(m, n, q)
      BY <1>3, <1>8, <2>2
    <3>2. /\ IsFreeList(n, L2)
          /\ \A f \in Frame \ {q} : n.pp_link[f] = m.pp_link[f]
      BY <1>4, <3>1, DroppedList
    <3>3. n.tlb = [m.tlb EXCEPT ![va] = Null] /\ m.tlb \in [Va -> Cell]
      BY <1>4, <3>1, Fields DEF Flushed
    <3>4. \A va2 \in Va \ W : m.tlb[va2] = Null
      BY DEF Scene
    <3>5. \A va2 \in Va \ W2 : n.tlb[va2] = Null
      BY <3>3, <3>4 DEF Flushable
    <3> QED BY <3>1, <3>2, <3>5
  <2> QED BY <2>1, <2>2
<1>11. p = Target(e)
  BY <1>7
<1>12. x2 = Null \/ (x2 \in k.play \ L2 /\ x2 # t)
  BY DEF Scene, Instead
<1>13. y2 = Null \/ (y2 \in k.play \ L2 /\ y2 # t)
  BY DEF Scene, Instead
<1>14. x2 = Instead(j, 0, Target(e), x) /\ y2 = Instead(j, 1, Target(e), y)
  BY <1>11
<1>15. Sets(m, k, t, x, y, n, j, e, L2, x2, y2, W2)
  BY <1>3, <1>7, <1>8, <1>9, <1>10, <1>12, <1>13, <1>14 DEF Sets
<1> QED
  BY <1>15, SceneSet

\* To insert a page where it already is leaves its count alone.
LEMMA SceneInsertSame ==
  ASSUME NEW m, NEW k, NEW L, NEW t, NEW x, NEW y, NEW W, Scene(m, k, L, t, Null, x, y, W), t # Null,
         NEW va \in Va, va[1] = 0, va[2] = 1, y # Null, m.pp_ref[y] = 1,
         NEW perm \in SUBSET Perm,
         NEW r, r = page_insert(m, k.d, y, va, perm), NEW n, n = r.mem
  PROVE  n.pp_ref[y] = 1
<1>1. PICK d \in Frame : d = k.d
  BY DEF Scene
<1>2. PICK j \in {0, 1} : j = 1
  OBVIOUS
<1>3. /\ y \in Frame /\ Shows(m, t, j, y)
      /\ t \in Frame /\ t # d /\ j \in Ix
  BY <1>1, <1>2, SceneEntry
<1>4. /\ m \in Memory /\ Names(m, d, va, t)
  BY <1>1 DEF Scene, Dir, Names
<1>5. m.tab[t][j] # Null => m.tab[t][j].pg \in Frame
  BY <1>3 DEF Shows
<1>6. n.pp_ref = Lowered(Raised(m.pp_ref, y), y)
  <2>1. r = page_insert(m, d, y, va, perm) /\ j = va[2]
    BY <1>1, <1>2
  <2> QED BY <1>3, <1>4, <1>5, <2>1, PlaceEff
<1>7. PICK h : h = Raised(m.pp_ref, y)
  OBVIOUS
<1>8. h \in [Frame -> Nat \cup {h[y]}] /\ h[y] = (1 + 1) % RefMod
  BY <1>3, <1>4, <1>7, Fields DEF Raised
<1>9. n.pp_ref[y] = (((1 + 1) % RefMod) + RefMod - 1) % RefMod
  BY <1>3, <1>6, <1>7, <1>8 DEF Lowered
<1>10. (((1 + 1) % RefMod) + RefMod - 1) % RefMod = 1
  <2>1. CASE RefMod = 2
    <3>1. (1 + 1) % 2 = 0 /\ (0 + 2 - 1) % 2 = 1
      OBVIOUS
    <3> QED BY <2>1, <3>1
  <2>2. CASE RefMod > 2
    <3>1. \A r2 \in 0 .. RefMod - 1 : r2 % RefMod = r2
      OBVIOUS
    <3>2. (1 + 1) % RefMod = 2
      BY <2>2, <3>1
    <3>3. (2 + RefMod - 1) % RefMod = 1
      <4>1. \A r2 \in 1 .. RefMod - 1 : (r2 + RefMod - 1) % RefMod = r2 - 1
        OBVIOUS
      <4> QED BY <2>2, <4>1
    <3> QED BY <3>2, <3>3
  <2> QED BY <2>1, <2>2
<1> QED
  BY <1>9, <1>10

\* n is what page_remove at va, where q is mapped, makes of m.
Removing(m, k, L, x, y, W, va, n, q, L2, x2, y2, W2) ==
  /\ n = page_remove(m, k.d, va)
  /\ va \in Va /\ va[1] = 0 /\ va[2] \in {0, 1} /\ q = (IF va[2] = 0 THEN x ELSE y) /\ q # Null
  /\ Dropped(n, L, q, L2) /\ Flushable(q, va, W, W2)
  /\ x2 = Instead(va[2], 0, Null, x) /\ y2 = Instead(va[2], 1, Null, y)
  /\ x2 \notin L2 /\ y2 \notin L2

\* page_remove where a page is mapped.
LEMMA SceneRemove ==
  ASSUME NEW m, NEW k, NEW L, NEW t, NEW x, NEW y, NEW W, Scene(m, k, L, t, Null, x, y, W), t # Null,
         NEW va, NEW n, NEW q, NEW L2, NEW x2, NEW y2, NEW W2,
         Removing(m, k, L, x, y, W, va, n, q, L2, x2, y2, W2)
  PROVE  Scene(n, k, L2, t, Null, x2, y2, W2)
<1> DEFINE j == va[2]
<1>1. /\ va \in Va /\ va[1] = 0 /\ j \in {0, 1} /\ va[2] = j
      /\ q = (IF j = 0 THEN x ELSE y) /\ q # Null
      /\ n = page_remove(m, k.d, va)
      /\ Dropped(n, L, q, L2) /\ Flushable(q, va, W, W2)
      /\ x2 = Instead(j, 0, Null, x) /\ y2 = Instead(j, 1, Null, y)
      /\ x2 \notin L2 /\ y2 \notin L2
  BY DEF Removing
<1> USE <1>1
<1> HIDE DEF j
<1>2. PICK d \in Frame : d = k.d
  BY DEF Scene
<1>3. /\ q \in Frame \ L /\ q \in k.play /\ q # t /\ Shows(m, t, j, q)
      /\ t \in Frame /\ t # d /\ j \in Ix
  BY <1>2, SceneEntry
<1>4. /\ m \in Memory /\ L \in SUBSET Frame /\ IsFreeList(m, L)
      /\ Names(m, d, va, t) /\ L \subseteq k.play /\ t \in k.play /\ t \notin L
  BY <1>2, <1>3 DEF Scene, Dir, Names
<1>5. EntrySet(m, n, t, j, Null) /\ Flushed(m, n, va) /\ Freed(m, n, q)
  <2>1. n = page_remove(m, d, va)
    BY <1>2
  <2> QED BY <1>3, <1>4, <2>1, RemoveEff
<1>6. L2 \subseteq k.play /\ t \notin L2
  BY <1>3, <1>4 DEF Dropped
<1>7. /\ IsFreeList(n, L2)
      /\ \A f \in Frame \ {q} : n.pp_link[f] = m.pp_link[f]
  BY <1>3, <1>4, <1>5, DroppedList
<1>8. \A va2 \in Va \ W2 : n.tlb[va2] = Null
  <2>1. n.tlb = [m.tlb EXCEPT ![va] = Null] /\ m.tlb \in [Va -> Cell]
    BY <1>4, <1>5, Fields DEF Flushed
  <2>2. \A va2 \in Va \ W : m.tlb[va2] = Null
    BY DEF Scene
  <2> QED BY <2>1, <2>2 DEF Flushable
<1>9. PICK e \in Cell : e = Null /\ Target(e) = Null
  BY DEF Cell, Target
<1>10. EntrySet(m, n, t, j, e)
  BY <1>5, <1>9
<1>11. Null = Target(e)
  BY <1>9
<1>12. x2 = Null \/ (x2 \in k.play \ L2 /\ x2 # t)
  BY DEF Scene, Instead
<1>13. y2 = Null \/ (y2 \in k.play \ L2 /\ y2 # t)
  BY DEF Scene, Instead
<1>14. \A f \in Frame \ k.play : n.pp_link[f] = m.pp_link[f]
  BY <1>3, <1>7
<1>15. x2 = Instead(j, 0, Target(e), x) /\ y2 = Instead(j, 1, Target(e), y)
  BY <1>11
<1>16. Sets(m, k, t, x, y, n, j, e, L2, x2, y2, W2)
  BY <1>3, <1>6, <1>7, <1>8, <1>9, <1>10, <1>12, <1>13, <1>14, <1>15 DEF Sets
<1> QED
  BY <1>16, SceneSet

\* Directory entry i is cleared, and the count of p.
Taken_back(m, d, i, p) == [m EXCEPT !.tab[d][i] = Null, !.pp_ref[p] = 0]

\* check_page and check_page_installed_pgdir take a page table back.
LEMMA SceneBack0 ==
  ASSUME NEW m, NEW k, NEW L, NEW t, NEW x, NEW y, NEW W, Scene(m, k, L, t, Null, x, y, W),
         NEW p \in Frame, NEW n, n = Taken_back(m, k.d, 0, p)
  PROVE  Scene(n, k, L, Null, Null, Null, Null, W)
<1>1. PICK d \in Frame : d = k.d /\ m \in Memory /\ L \subseteq Frame /\ d \notin L
  BY DEF Scene
<1> DEFINE tab == [m.tab EXCEPT ![d][0] = Null]
           ref == [m.pp_ref EXCEPT ![p] = 0]
<1>2. /\ tab \in [Frame -> [Ix -> Cell]] /\ ref \in [Frame -> Nat]
      /\ tab[d][0] = Null /\ \A i \in Ix : i # 0 => tab[d][i] = m.tab[d][i]
      /\ \A f \in Frame : f # d => tab[f] = m.tab[f]
  BY <1>1, Fields, Indices2 DEF Cell
<1>3. n = [m EXCEPT !.tab = tab, !.pp_ref = ref]
  BY <1>1 DEF Memory, Taken_back
<1> HIDE DEF tab, ref
<1>4. /\ n \in Memory /\ n.tab = tab /\ n.pp_link = m.pp_link /\ n.page_free_list = m.page_free_list
      /\ n.cr3 = m.cr3 /\ n.tlb = m.tlb
  BY <1>1, <1>2, <1>3 DEF Memory
<1>5. IsFreeList(n, L)
  BY <1>4, FreeListSame DEF Scene
<1>6. Dir(n, k.d, 0, Null) /\ Dir(n, k.d, 1, Null)
  BY <1>1, <1>2, <1>4, Indices2 DEF Scene, Dir
<1>7. Mapped_by(n, Null, 0) = Null /\ Mapped_by(n, Null, 1) = Null
  BY DEF Mapped_by
<1>8. Untouched(n, k)
  <2>1. Untouched(m, k)
    BY DEF Scene
  <2>2. /\ \A f \in Frame : f # d => n.tab[f] = m.tab[f]
        /\ \A i \in Ix : i # 0 => n.tab[d][i] = m.tab[d][i]
    BY <1>2, <1>4
  <2> QED BY <1>1, <1>4, <2>1, <2>2 DEF Untouched
<1>9. \A va \in Va \ W : n.tlb[va] = Null
  BY <1>4 DEF Scene
<1>10. {Null} \subseteq (k.play \ L) \cup {Null}
  OBVIOUS
<1> QED
  BY <1>4, <1>5, <1>6, <1>7, <1>8, <1>9, <1>10 DEF Scene

\* The same of the page table that check_page makes for PTSIZE + PGSIZE.
LEMMA SceneBack1 ==
  ASSUME NEW m, NEW k, NEW L, NEW u, NEW W, Scene(m, k, L, Null, u, Null, Null, W),
         NEW p \in Frame, NEW n, n = Taken_back(m, k.d, 1, p)
  PROVE  Scene(n, k, L, Null, Null, Null, Null, W)
<1>1. PICK d \in Frame : d = k.d /\ m \in Memory /\ L \subseteq Frame /\ d \notin L
  BY DEF Scene
<1> DEFINE tab == [m.tab EXCEPT ![d][1] = Null]
           ref == [m.pp_ref EXCEPT ![p] = 0]
<1>2. /\ tab \in [Frame -> [Ix -> Cell]] /\ ref \in [Frame -> Nat]
      /\ tab[d][1] = Null /\ \A i \in Ix : i # 1 => tab[d][i] = m.tab[d][i]
      /\ \A f \in Frame : f # d => tab[f] = m.tab[f]
  BY <1>1, Fields, Indices2 DEF Cell
<1>3. n = [m EXCEPT !.tab = tab, !.pp_ref = ref]
  BY <1>1 DEF Memory, Taken_back
<1> HIDE DEF tab, ref
<1>4. /\ n \in Memory /\ n.tab = tab /\ n.pp_link = m.pp_link /\ n.page_free_list = m.page_free_list
      /\ n.cr3 = m.cr3 /\ n.tlb = m.tlb
  BY <1>1, <1>2, <1>3 DEF Memory
<1>5. IsFreeList(n, L)
  BY <1>4, FreeListSame DEF Scene
<1>6. Dir(n, k.d, 0, Null) /\ Dir(n, k.d, 1, Null)
  BY <1>1, <1>2, <1>4, Indices2 DEF Scene, Dir
<1>7. Mapped_by(n, Null, 0) = Null /\ Mapped_by(n, Null, 1) = Null
  BY DEF Mapped_by
<1>8. Untouched(n, k)
  <2>1. Untouched(m, k)
    BY DEF Scene
  <2>2. /\ \A f \in Frame : f # d => n.tab[f] = m.tab[f]
        /\ \A i \in Ix : i # 1 => n.tab[d][i] = m.tab[d][i]
    BY <1>2, <1>4
  <2> QED BY <1>1, <1>4, <2>1, <2>2 DEF Untouched
<1>9. \A va \in Va \ W : n.tlb[va] = Null
  BY <1>4 DEF Scene
<1>10. {Null} \subseteq (k.play \ L) \cup {Null}
  OBVIOUS
<1> QED
  BY <1>4, <1>5, <1>6, <1>7, <1>8, <1>9, <1>10 DEF Scene

\* A page is filled with junk.
Scrubbed(m, p) == [m EXCEPT !.tab[p] = Junk(p)]

\* memset of a page that is no page table.
LEMMA SceneMemset ==
  ASSUME NEW m, NEW k, NEW L, NEW t, NEW u, NEW x, NEW y, NEW W, Scene(m, k, L, t, u, x, y, W),
         NEW p, p \in k.play, p # t, NEW n, n = Scrubbed(m, p)
  PROVE  Scene(n, k, L, t, u, x, y, W)
<1>1. m \in Memory /\ p \in Frame /\ p # Null /\ k.play \subseteq Frame
  BY DEF Scene
<1> DEFINE tab == [m.tab EXCEPT ![p] = Junk(p)]
<1>2. Junk(p) \in [Ix -> Cell]
  <2>1. p \in Nat
    BY <1>1, MemInitAssumption
  <2> QED BY <2>1 DEF Junk, Cell
<1>3. tab \in [Frame -> [Ix -> Cell]] /\ \A f \in Frame : f # p => tab[f] = m.tab[f]
  BY <1>1, <1>2, Fields
<1>4. n = [m EXCEPT !.tab = tab]
  BY <1>1 DEF Memory, Scrubbed
<1> HIDE DEF tab
<1>5. /\ n \in Memory /\ n.tab = tab /\ n.pp_link = m.pp_link /\ n.page_free_list = m.page_free_list
      /\ n.cr3 = m.cr3 /\ n.tlb = m.tlb
  BY <1>1, <1>3, <1>4 DEF Memory
<1>6. L \subseteq k.play /\ IsFreeList(n, L)
  BY <1>5, FreeListSame DEF Scene
<1>7. \A q \in L : Spare(q, t, u, x, y)
  BY <1>1 DEF Scene, Spare
<1>8. \A f \in Frame \ k.play : n.tab[f] = m.tab[f] /\ n.pp_link[f] = m.pp_link[f]
  BY <1>3, <1>5
<1>9. t # Null => n.tab[t] = m.tab[t]
  BY <1>1, <1>3, <1>5 DEF Scene
<1>10. n \in Memory /\ n.cr3 = m.cr3 /\ n.tlb = m.tlb
  BY <1>5
<1> QED
  BY <1>6, <1>7, <1>8, <1>9, <1>10, SceneSame

\* A load puts a translation in the TLB.
LEMMA SceneLoad ==
  ASSUME NEW m, NEW k, NEW L, NEW t, NEW x, NEW y, NEW W, Scene(m, k, L, t, Null, x, y, W), t # Null,
         m.cr3 = k.d, NEW va \in W, va \in Va, va[1] = 0, NEW n, n = tlb_fill(m, va)
  PROVE  Scene(n, k, L, t, Null, x, y, W)
<1>1. m \in Memory /\ t \in Frame /\ k.d \in Frame /\ L \subseteq k.play
  BY DEF Scene
<1>2. PICK j \in Ix : j = va[2]
  BY DEF Va
<1>3. PICK e : e = m.tab[t][j]
  OBVIOUS
<1>4. e \in Cell
  BY <1>1, <1>3, Fields
<1>5. PICK c : c = translate(m, m.cr3, va)
  OBVIOUS
<1>6. c \in Cell
  <2>1. m.tab[k.d][va[1]] = Pde(t) /\ Pde(t) # Null /\ Pde(t).pg = t
    BY <1>1, PdeFields DEF Scene, Dir
  <2>2. c = IF e = Null THEN Null ELSE [e EXCEPT !.perm = @ \cap Pde(t).perm]
    BY <1>2, <1>3, <1>5, <2>1 DEF translate
  <2>3. CASE e = Null
    BY <2>2, <2>3 DEF Cell
  <2>4. CASE e # Null
    <3>1. PICK g \in Nat, s \in SUBSET Perm : e = [pg |-> g, perm |-> s]
      BY <1>4, <2>4, CellFields
    <3>2. PICK all : all = Pde(t).perm
      OBVIOUS
    <3>3. c = [pg |-> g, perm |-> s \cap all]
      BY <2>2, <2>4, <3>1, <3>2
    <3> QED BY <3>3 DEF Cell
  <2> QED BY <2>3, <2>4
<1> DEFINE tlb == [m.tlb EXCEPT ![va] = c]
<1>7. tlb \in [Va -> Cell] /\ \A va2 \in Va \ W : tlb[va2] = m.tlb[va2]
  BY <1>1, <1>6, Fields
<1>8. n = [m EXCEPT !.tlb = tlb]
  BY <1>1, <1>5 DEF Memory, tlb_fill
<1> HIDE DEF tlb
<1>9. /\ n \in Memory /\ n.tab = m.tab /\ n.pp_link = m.pp_link /\ n.page_free_list = m.page_free_list
      /\ n.cr3 = m.cr3 /\ n.tlb = tlb
  BY <1>1, <1>7, <1>8 DEF Memory
<1>10. IsFreeList(n, L)
  BY <1>9, FreeListSame DEF Scene
<1>11. \A va2 \in Va \ W : n.tlb[va2] = Null
  BY <1>7, <1>9 DEF Scene
<1>12. Dir(n, k.d, 0, t) /\ Dir(n, k.d, 1, Null)
  BY <1>9 DEF Scene, Dir
<1>13. x = Mapped_by(n, t, 0) /\ y = Mapped_by(n, t, 1)
  BY <1>9 DEF Scene, Mapped_by
<1>14. Untouched(n, k)
  BY <1>9 DEF Scene, Untouched
<1> QED
  BY <1>9, <1>10, <1>11, <1>12, <1>13, <1>14 DEF Scene

----------------------------------------------------------------------------
(* The statements of the checks' scripts.                                  *)

\* s2 is the state after the statement o in s, and no assertion has failed.
Does(s, s2, o) == s2 = perform(s, o) /\ s2.ok

\* A statement other than the taking or putting aside of pages is a call.
LEMMA Statement ==
  ASSUME NEW s, NEW s2, NEW o, Does(s, s2, o), o[1] # "take", o[1] # "steal"
  PROVE  /\ s2.pp = s.pp /\ s2.fl = s.fl /\ s2.mem = Calls(s, o)
         /\ s.ok /\ Asserts(s, o)
BY DEF Does, perform

\* Nothing follows an assertion that has failed.
LEMMA StillOk ==
  ASSUME NEW s, NEW s2, NEW o, Does(s, s2, o)
  PROVE  s.ok
BY DEF Does, perform

\* The statement that is a call of page_free.
LEMMA CallFree ==
  ASSUME NEW s, NEW o, o[1] = "free" PROVE Calls(s, o) = page_free(s.mem, s.pp[o[2]])
BY DEF Calls

\* The statement that is a call of page_insert, and that it has succeeded.
LEMMA CallInsert ==
  ASSUME NEW s, NEW o, o[1] = "insert"
  PROVE  /\ Calls(s, o) = page_insert(s.mem, kern_pgdir, s.pp[o[2]], o[3], o[4]).mem
         /\ Asserts(s, o) <=> page_insert(s.mem, kern_pgdir, s.pp[o[2]], o[3], o[4]).ok
BY DEF Calls, Asserts

\* The statement that is a call of page_remove.
LEMMA CallRemove ==
  ASSUME NEW s, NEW o, o[1] = "remove" PROVE Calls(s, o) = page_remove(s.mem, kern_pgdir, o[3])
BY DEF Calls

\* The statement that is a call of pgdir_walk.
LEMMA CallWalk ==
  ASSUME NEW s, NEW o, o[1] = "walk" PROVE Calls(s, o) = Walk(s.mem, kern_pgdir, o[3]).mem
BY DEF Calls, Walk

\* The statement that is a call of page_alloc.
LEMMA CallAlloc ==
  ASSUME NEW s, NEW o, o[1] = "alloc"
  PROVE  /\ Calls(s, o) = page_alloc(s.mem, o[4]).mem
         /\ Asserts(s, o) <=> page_alloc(s.mem, o[4]).pg = s.pp[o[2]]
BY DEF Calls, Asserts

\* Taking a page table back.
LEMMA CallBack ==
  ASSUME NEW s, NEW o, o[1] = "back"
  PROVE  Calls(s, o) = Taken_back(s.mem, kern_pgdir, o[3][1], s.pp[o[2]])
BY DEF Calls, Taken_back

\* memset of a page.
LEMMA CallMemset ==
  ASSUME NEW s, NEW o, o[1] = "memset" PROVE Calls(s, o) = Scrubbed(s.mem, s.pp[o[2]])
BY DEF Calls, Scrubbed

\* A load, which may fill the TLB.
LEMMA CallLoad ==
  ASSUME NEW s, NEW o, o[1] = "load" PROVE Calls(s, o) = tlb_fill(s.mem, o[3])
BY DEF Calls

\* Giving the list back.
LEMMA CallGive ==
  ASSUME NEW s, NEW o, o[1] = "give" PROVE Calls(s, o) = [s.mem EXCEPT !.page_free_list = s.fl]
BY DEF Calls

\* An assertion changes nothing.
Assertions == {"none", "full", "nomap", "map", "table", "has", "lacks", "dirhas", "ref",
               "counted", "blank"}

\* An assertion changes nothing.
LEMMA CallNone ==
  ASSUME NEW s, NEW o, o[1] \in Assertions PROVE Calls(s, o) = s.mem
BY DEF Calls, Assertions

\* What the assertions on a count say.
LEMMA AssertRef ==
  ASSUME NEW s, NEW o, o[1] = "ref" PROVE Asserts(s, o) <=> s.mem.pp_ref[s.pp[o[2]]] = o[4]
BY DEF Asserts

\* A page with a nonzero count is not free.
LEMMA AssertCounted ==
  ASSUME NEW s, NEW o, o[1] = "counted" PROVE Asserts(s, o) => s.mem.pp_ref[s.pp[o[2]]] # 0
BY DEF Asserts

\* What the part of a script up to statement k leads to.
Reaches(s, script, k, g) ==
  g = [i \in 0 .. k |-> IF i = 0 THEN s
                        ELSE IF g[i - 1].ok THEN perform(g[i - 1], script[i]) ELSE g[i - 1]]

\* The states that a script runs through exist.
LEMMA ScriptStates ==
  ASSUME NEW s, NEW script, NEW n \in Nat
  PROVE  \E g : Reaches(s, script, n, g)
<1> DEFINE Bad == {k \in 0 .. n : ~ \E g : Reaches(s, script, k, g)}
<1> SUFFICES ASSUME Bad # {} PROVE FALSE
  OBVIOUS
<1>1. PICK x \in Bad : \A y \in Bad : x <= y
  <2>1. Bad \in SUBSET Nat
    OBVIOUS
  <2> HIDE DEF Bad
  <2> QED BY <2>1, LeastExists
<1>2. x \in 0 .. n /\ ~ \E g : Reaches(s, script, x, g)
  OBVIOUS
<1>3. x # 0
  <2> SUFFICES ASSUME x = 0 PROVE FALSE
    OBVIOUS
  <2> DEFINE h == [i \in 0 .. 0 |-> s]
  <2>1. Reaches(s, script, 0, h)
    BY DEF Reaches
  <2> QED BY <1>2, <2>1
<1>4. x - 1 \in 0 .. n /\ x - 1 \notin Bad
  BY <1>1, <1>2, <1>3
<1>5. PICK g : Reaches(s, script, x - 1, g)
  BY <1>4
<1> HIDE DEF Bad
<1>6. \A i \in 0 .. x - 1 : g[i] = IF i = 0 THEN s
                        ELSE IF g[i - 1].ok THEN perform(g[i - 1], script[i]) ELSE g[i - 1]
  BY <1>5 DEF Reaches
<1> DEFINE h == [i \in 0 .. x |-> IF i < x THEN g[i]
                                  ELSE IF g[x - 1].ok THEN perform(g[x - 1], script[x]) ELSE g[x - 1]]
<1>7. ASSUME NEW i \in 0 .. x
      PROVE  h[i] = IF i = 0 THEN s
                    ELSE IF h[i - 1].ok THEN perform(h[i - 1], script[i]) ELSE h[i - 1]
  <2>1. CASE i = x
    <3>1. x - 1 \in 0 .. x /\ x - 1 < x
      BY <1>2, <1>3
    <3>2. h[i - 1] = g[x - 1]
      BY <2>1, <3>1
    <3>3. h[i] = IF g[x - 1].ok THEN perform(g[x - 1], script[x]) ELSE g[x - 1]
      BY <2>1
    <3> QED BY <1>3, <2>1, <3>2, <3>3
  <2>2. CASE i # x
    <3>1. i \in 0 .. x - 1 /\ i < x /\ i \in 0 .. x
      BY <1>2, <2>2
    <3>2. h[i] = g[i]
      BY <3>1
    <3>3. i # 0 => i - 1 \in 0 .. x /\ i - 1 < x
      BY <1>2, <3>1
    <3>4. i # 0 => h[i - 1] = g[i - 1]
      BY <3>3
    <3> QED BY <1>6, <3>1, <3>2, <3>4
  <2> QED BY <2>1, <2>2
<1>8. h = [i \in 0 .. x |-> IF i = 0 THEN s
                        ELSE IF h[i - 1].ok THEN perform(h[i - 1], script[i]) ELSE h[i - 1]]
  BY <1>7
<1>9. Reaches(s, script, x, h)
  <2> HIDE DEF h
  <2> QED BY <1>8 DEF Reaches
<1> QED
  BY <1>2, <1>9

\* The states of a script that has run to its end.
Run(s, script, n, r, g) ==
  /\ g[0] = s /\ g[n] = r
  /\ \A k \in 1 .. n : Does(g[k - 1], g[k], script[k])

\* A script that ends with no assertion failed has done all of its statements.
LEMMA Runs ==
  ASSUME NEW s, NEW script, NEW n \in Nat, Len(script) = n, NEW r, r = runs(s, script), r.ok
  PROVE  \E g : Run(s, script, n, r, g)
<1> DEFINE Step(g) == [i \in 0 .. n |-> IF i = 0 THEN s
                        ELSE IF g[i - 1].ok THEN perform(g[i - 1], script[i]) ELSE g[i - 1]]
           after == CHOOSE g : g = Step(g)
<1>1. \E g : g = Step(g)
  <2>1. PICK g : Reaches(s, script, n, g)
    BY ScriptStates
  <2>2. g = Step(g)
    BY <2>1 DEF Reaches
  <2> HIDE DEF Step
  <2> QED BY <2>2
<1>2. after = Step(after)
  BY <1>1
<1>3. r = after[n]
  BY DEF runs
<1> HIDE DEF after
<1>4. \A i \in 0 .. n : after[i] = IF i = 0 THEN s
                        ELSE IF after[i - 1].ok THEN perform(after[i - 1], script[i]) ELSE after[i - 1]
  BY <1>2
<1>5. \A i \in 0 .. n : after[i].ok
  <2> DEFINE Bad == {j \in 0 .. n : ~ after[n - j].ok}
  <2> SUFFICES ASSUME Bad # {} PROVE FALSE
    <3> SUFFICES ASSUME NEW i \in 0 .. n, Bad = {} PROVE after[i].ok
      OBVIOUS
    <3>1. n - i \in 0 .. n /\ n - (n - i) = i
      OBVIOUS
    <3> QED BY <3>1
  <2>1. PICK x \in Bad : \A y \in Bad : x <= y
    <3>1. Bad \in SUBSET Nat
      OBVIOUS
    <3> HIDE DEF Bad
    <3> QED BY <3>1, LeastExists
  <2>2. x \in 0 .. n /\ ~ after[n - x].ok
    OBVIOUS
  <2>3. x # 0
    <3>1. n - 0 = n
      OBVIOUS
    <3> QED BY <1>3, <2>2, <3>1
  <2>4. x - 1 \in 0 .. n /\ x - 1 \notin Bad
    <3>1. x - 1 \in 0 .. n /\ ~ (x <= x - 1)
      BY <2>2, <2>3
    <3> HIDE DEF Bad
    <3> QED BY <2>1, <3>1
  <2>5. PICK i \in 0 .. n : i = n - (x - 1)
    BY <2>4
  <2>6. after[i].ok
    BY <2>4, <2>5
  <2>7. i # 0 /\ i - 1 = n - x
    BY <2>2, <2>5
  <2>8. after[i] = after[i - 1]
    BY <1>4, <2>2, <2>7
  <2> QED BY <2>2, <2>6, <2>7, <2>8
<1>6. \A k \in 1 .. n : Does(after[k - 1], after[k], script[k])
  <2> SUFFICES ASSUME NEW k \in 1 .. n PROVE Does(after[k - 1], after[k], script[k])
    OBVIOUS
  <2>1. k \in 0 .. n /\ k - 1 \in 0 .. n /\ k # 0
    OBVIOUS
  <2>2. after[k] = perform(after[k - 1], script[k])
    BY <1>4, <1>5, <2>1
  <2> QED BY <1>5, <2>1, <2>2 DEF Does
<1>7. after[0] = s
  BY <1>4
<1>8. Run(s, script, n, r, after)
  BY <1>3, <1>6, <1>7 DEF Run
<1> QED
  BY <1>8

\* Nothing follows a script in which an assertion has failed.
LEMMA RunsOk ==
  ASSUME NEW s, NEW script, Len(script) \in Nat \ {0}, NEW r, r = runs(s, script), r.ok
  PROVE  s.ok
<1> DEFINE n == Len(script)
<1>1. PICK g : Run(s, script, n, r, g)
  BY Runs
<1>2. 1 \in 1 .. n /\ 1 - 1 = 0
  OBVIOUS
<1>3. Does(s, g[1], script[1])
  BY <1>1, <1>2 DEF Run
<1> QED
  BY <1>3, StillOk

\* What the first k parts of a check lead to.
Follows(m, parts, k, g) ==
  g = [i \in 0 .. k |-> IF i = 0 THEN began(m) ELSE runs(g[i - 1], parts[i])]

\* The states between the parts of a check exist.
LEMMA PartStates ==
  ASSUME NEW m, NEW parts, NEW n \in Nat
  PROVE  \E g : Follows(m, parts, n, g)
<1> DEFINE Bad == {k \in 0 .. n : ~ \E g : Follows(m, parts, k, g)}
<1> SUFFICES ASSUME Bad # {} PROVE FALSE
  OBVIOUS
<1>1. PICK x \in Bad : \A y \in Bad : x <= y
  <2>1. Bad \in SUBSET Nat
    OBVIOUS
  <2> HIDE DEF Bad
  <2> QED BY <2>1, LeastExists
<1>2. x \in 0 .. n /\ ~ \E g : Follows(m, parts, x, g)
  OBVIOUS
<1>3. x # 0
  <2> SUFFICES ASSUME x = 0 PROVE FALSE
    OBVIOUS
  <2> DEFINE h == [i \in 0 .. 0 |-> began(m)]
  <2>1. Follows(m, parts, 0, h)
    BY DEF Follows
  <2> QED BY <1>2, <2>1
<1>4. x - 1 \in 0 .. n /\ x - 1 \notin Bad
  BY <1>1, <1>2, <1>3
<1>5. PICK g : Follows(m, parts, x - 1, g)
  BY <1>4
<1> HIDE DEF Bad
<1>6. \A i \in 0 .. x - 1 : g[i] = IF i = 0 THEN began(m) ELSE runs(g[i - 1], parts[i])
  BY <1>5 DEF Follows
<1> DEFINE h == [i \in 0 .. x |-> IF i < x THEN g[i] ELSE runs(g[x - 1], parts[x])]
<1>7. ASSUME NEW i \in 0 .. x
      PROVE  h[i] = IF i = 0 THEN began(m) ELSE runs(h[i - 1], parts[i])
  <2>1. CASE i = x
    <3>1. x - 1 \in 0 .. x /\ x - 1 < x
      BY <1>2, <1>3
    <3>2. h[i - 1] = g[x - 1]
      BY <2>1, <3>1
    <3>3. h[i] = runs(g[x - 1], parts[x])
      BY <2>1
    <3> QED BY <1>3, <2>1, <3>2, <3>3
  <2>2. CASE i # x
    <3>1. i \in 0 .. x - 1 /\ i < x /\ i \in 0 .. x
      BY <1>2, <2>2
    <3>2. h[i] = g[i]
      BY <3>1
    <3>3. i # 0 => i - 1 \in 0 .. x /\ i - 1 < x
      BY <1>2, <3>1
    <3>4. i # 0 => h[i - 1] = g[i - 1]
      BY <3>3
    <3> QED BY <1>6, <3>1, <3>2, <3>4
  <2> QED BY <2>1, <2>2
<1>8. h = [i \in 0 .. x |-> IF i = 0 THEN began(m) ELSE runs(h[i - 1], parts[i])]
  BY <1>7
<1>9. Follows(m, parts, x, h)
  <2> HIDE DEF h
  <2> QED BY <1>8 DEF Follows
<1> QED
  BY <1>2, <1>9

\* The states of a check between its parts.
Stations(m, parts, n, r, g) ==
  /\ g[0] = began(m) /\ g[n] = r
  /\ \A k \in 1 .. n : g[k] = runs(g[k - 1], parts[k])

\* A check runs its parts one after the other.
LEMMA Parts ==
  ASSUME NEW m, NEW parts, NEW n \in Nat, Len(parts) = n, NEW r, r = follow(m, parts)
  PROVE  \E g : Stations(m, parts, n, r, g)
<1> DEFINE Step(g) == [i \in 0 .. n |-> IF i = 0 THEN began(m) ELSE runs(g[i - 1], parts[i])]
           after == CHOOSE g : g = Step(g)
<1>1. \E g : g = Step(g)
  <2>1. PICK g : Follows(m, parts, n, g)
    BY PartStates
  <2>2. g = Step(g)
    BY <2>1 DEF Follows
  <2> HIDE DEF Step
  <2> QED BY <2>2
<1>2. after = Step(after)
  BY <1>1
<1>3. follow(m, parts) = after[n]
  BY DEF follow
<1> HIDE DEF after
<1>4. after[0] = began(m) /\ \A k \in 1 .. n : after[k] = runs(after[k - 1], parts[k])
  BY <1>2
<1>5. Stations(m, parts, n, r, after)
  BY <1>3, <1>4 DEF Stations
<1> QED
  BY <1>5

\* Three pages are taken, and the rest of the list put aside; all is given back.
alone(m)  == runs(runs(began(m), Take3), Steal)
return(s) == runs(runs(s, Give), Free3)

\* The statements that the scripts consist of.
IsFree(o, i)       == o[1] = "free" /\ o[2] = i
IsInsert(o, i, va) == o[1] = "insert" /\ o[2] = i /\ o[3] = va /\ o[4] \in SUBSET Perm
IsRemove(o, va)    == o[1] = "remove" /\ o[3] = va
IsWalk(o, va)      == o[1] = "walk" /\ o[3] = va
IsAlloc(o, i)      == o[1] = "alloc" /\ o[2] = i /\ o[4] \in BOOLEAN
IsBack(o, i, va)   == o[1] = "back" /\ o[2] = i /\ o[3] = va
IsMemset(o, i)     == o[1] = "memset" /\ o[2] = i
IsLoad(o, va)      == o[1] = "load" /\ o[3] = va
IsTest(o)          == o[1] \in Assertions
IsRef(o, i, n)     == o[1] = "ref" /\ o[2] = i /\ o[4] = n
IsCounted(o, i)    == o[1] = "counted" /\ o[2] = i

\* The state s of a script is the scene of k that the other parameters describe.
Play(s, k, L, t, u, x, y, W) ==
  /\ s.pp = k.pp /\ s.fl = k.fl /\ k.d = kern_pgdir
  /\ Scene(s.mem, k, L, t, u, x, y, W)

\* The addresses that the scripts use.
LEMMA Addresses ==
  /\ V0 \in Va /\ V0[1] = 0 /\ V0[2] = 0
  /\ V1 \in Va /\ V1[1] = 0 /\ V1[2] = 1
  /\ VX \in Va /\ VX[1] = 1
BY Indices2 DEF V0, V1, VX, Va

\* A test changes nothing.
LEMMA DoTest ==
  ASSUME NEW s, NEW s2, NEW o, Does(s, s2, o), IsTest(o)
  PROVE  /\ s2.mem = s.mem
         /\ \A k, L, t, u, x, y, W : Play(s, k, L, t, u, x, y, W) => Play(s2, k, L, t, u, x, y, W)
<1>1. o[1] # "take" /\ o[1] # "steal" /\ o[1] \in Assertions
  BY DEF IsTest, Assertions
<1>2. s2.mem = s.mem /\ s2.pp = s.pp /\ s2.fl = s.fl
  BY <1>1, Statement, CallNone
<1> QED
  BY <1>2 DEF Play

\* A count that a test has found.
LEMMA DoRef ==
  ASSUME NEW s, NEW s2, NEW o, Does(s, s2, o), NEW i, NEW n, IsRef(o, i, n)
  PROVE  IsTest(o) /\ s.mem.pp_ref[s.pp[i]] = n
<1>1. IsTest(o) /\ o[1] # "take" /\ o[1] # "steal"
  BY DEF IsTest, IsRef, Assertions
<1> QED
  BY <1>1, Statement, AssertRef DEF IsRef

\* A count that a test has found not to be zero.
LEMMA DoCounted ==
  ASSUME NEW s, NEW s2, NEW o, Does(s, s2, o), NEW i, IsCounted(o, i)
  PROVE  IsTest(o) /\ s.mem.pp_ref[s.pp[i]] # 0
<1>1. IsTest(o) /\ o[1] # "take" /\ o[1] # "steal"
  BY DEF IsTest, IsCounted, Assertions
<1> QED
  BY <1>1, Statement, AssertCounted DEF IsCounted

\* The page i of the scene is p, and it is not in use.
Idle(k, i, p, L, t, u, x, y) ==
  k.pp[i] = p /\ p \in k.play /\ p \notin L /\ Spare(p, t, u, x, y)

\* page_free of the page i.
LEMMA DoFree ==
  ASSUME NEW s, NEW s2, NEW o, Does(s, s2, o), NEW i, IsFree(o, i),
         NEW k, NEW L, NEW t, NEW u, NEW x, NEW y, NEW W, Play(s, k, L, t, u, x, y, W),
         NEW p, Idle(k, i, p, L, t, u, x, y), NEW L2, L2 = L \cup {p}
  PROVE  Play(s2, k, L2, t, u, x, y, W) /\ s2.mem.page_free_list = p
<1>1. o[1] # "take" /\ o[1] # "steal"
  BY DEF IsFree
<1>2. s2.pp = s.pp /\ s2.fl = s.fl /\ s2.mem = page_free(s.mem, p)
  BY <1>1, Statement, CallFree DEF IsFree, Play, Idle
<1>3. Scene(s.mem, k, L, t, u, x, y, W)
  BY DEF Play
<1>4. Scene(s2.mem, k, L2, t, u, x, y, W) /\ s2.mem.page_free_list = p
  BY <1>2, <1>3, SceneFree DEF Idle
<1> QED
  BY <1>2, <1>4 DEF Play

\* page_alloc that returns the page i.
LEMMA DoAlloc ==
  ASSUME NEW s, NEW s2, NEW o, Does(s, s2, o), NEW i, IsAlloc(o, i),
         NEW k, NEW L, NEW t, NEW u, NEW x, NEW y, NEW W, Play(s, k, L, t, u, x, y, W),
         NEW p, k.pp[i] = p, p # Null, NEW L2, L2 = L \ {p}
  PROVE  Play(s2, k, L2, t, u, x, y, W)
<1>1. o[1] # "take" /\ o[1] # "steal"
  BY DEF IsAlloc
<1>2. PICK zero \in BOOLEAN : zero = o[4]
  BY DEF IsAlloc
<1>3. /\ s2.pp = s.pp /\ s2.fl = s.fl /\ s2.mem = page_alloc(s.mem, zero).mem
      /\ page_alloc(s.mem, zero).pg = p
  BY <1>1, <1>2, Statement, CallAlloc DEF IsAlloc, Play
<1>4. Scene(s.mem, k, L, t, u, x, y, W)
  BY DEF Play
<1>5. p = s.mem.page_free_list
  BY <1>3 DEF page_alloc
<1>6. Scene(s2.mem, k, L2, t, u, x, y, W)
  BY <1>3, <1>4, <1>5, SceneAlloc
<1> QED
  BY <1>3, <1>6 DEF Play

\* The page i of the scene is p; it can be mapped, and L2 does not have it.
Mappable(k, i, p, L, L2, t) ==
  k.pp[i] = p /\ p \in k.play /\ p \notin L /\ p \notin L2 /\ p # t /\ t # Null

\* page_insert of the page i at V1.
LEMMA DoInsert ==
  ASSUME NEW s, NEW s2, NEW o, Does(s, s2, o), NEW i, IsInsert(o, i, V1),
         NEW k, NEW L, NEW t, NEW x, NEW y, NEW W, Play(s, k, L, t, Null, x, y, W),
         NEW p, NEW L2, Mappable(k, i, p, L, L2, t), Dropped(s2.mem, L, y, L2), x \notin L2
  PROVE  Play(s2, k, L2, t, Null, x, p, W)
<1>1. o[1] # "take" /\ o[1] # "steal"
  BY DEF IsInsert
<1>2. PICK perm \in SUBSET Perm : perm = o[4]
  BY DEF IsInsert
<1>3. PICK r : r = page_insert(s.mem, k.d, p, V1, perm)
  OBVIOUS
<1>4. s2.pp = s.pp /\ s2.fl = s.fl /\ s2.mem = r.mem
  BY <1>1, <1>2, <1>3, Statement, CallInsert DEF IsInsert, Play, Mappable
<1>5. PICK j : j = V1[2] /\ j = 1
  BY Addresses
<1>6. Scene(s.mem, k, L, t, Null, x, y, W) /\ t # Null /\ k.pp[i] = p /\ p \in k.play
  BY DEF Play, Mappable
<1>7. PICK x2, y2 : x2 = Instead(j, 0, p, x) /\ y2 = Instead(j, 1, p, y)
  OBVIOUS
<1>8. x2 = x /\ y2 = p
  BY <1>5, <1>7 DEF Instead
<1>9. y = IF j = 0 THEN x ELSE y
  BY <1>5
<1>10. x2 \notin L2 /\ y2 \notin L2 /\ p \notin L /\ p # t
  BY <1>8 DEF Mappable
<1>11. Flushable(y, V1, W, W)
  BY DEF Flushable
<1>12. Placing(s.mem, k, L, t, x, y, W, V1, p, perm, s2.mem, y, L2, x2, y2, W)
  BY <1>3, <1>4, <1>5, <1>6, <1>7, <1>9, <1>10, <1>11, Addresses DEF Placing
<1>13. Scene(s2.mem, k, L2, t, Null, x2, y2, W)
  BY <1>6, <1>12, SceneInsert
<1> QED
  BY <1>4, <1>8, <1>13 DEF Play

\* page_insert of the page that is at V1 already.
LEMMA DoInsertSame ==
  ASSUME NEW s, NEW s2, NEW o, Does(s, s2, o), NEW i, IsInsert(o, i, V1),
         NEW k, NEW L, NEW t, NEW x, NEW y, NEW W, Play(s, k, L, t, Null, x, y, W),
         t # Null, y # Null, k.pp[i] = y, s.mem.pp_ref[y] = 1
  PROVE  Play(s2, k, L, t, Null, x, y, W) /\ s2.mem.pp_ref[y] = 1
<1>1. o[1] # "take" /\ o[1] # "steal"
  BY DEF IsInsert
<1>2. PICK perm \in SUBSET Perm : perm = o[4]
  BY DEF IsInsert
<1>3. PICK r : r = page_insert(s.mem, k.d, y, V1, perm)
  OBVIOUS
<1>4. s2.mem = r.mem
  BY <1>1, <1>2, <1>3, Statement, CallInsert DEF IsInsert, Play
<1>5. Scene(s.mem, k, L, t, Null, x, y, W)
  BY DEF Play
<1>6. s2.mem.pp_ref[y] = 1
  BY <1>3, <1>4, <1>5, Addresses, SceneInsertSame
<1>7. Dropped(s2.mem, L, y, L)
  BY <1>6 DEF Dropped
<1>8. y \in k.play /\ y \notin L /\ y # t /\ x \notin L
  BY <1>5 DEF Scene
<1>9. Mappable(k, i, y, L, L, t)
  BY <1>8 DEF Mappable
<1> QED
  BY <1>6, <1>7, <1>8, <1>9, DoInsert

\* page_insert of the page i at V0 or V1, for which the page h at the head of
\* the list becomes the page table.
LEMMA DoInsertNew ==
  ASSUME NEW s, NEW s2, NEW o, Does(s, s2, o), NEW i, NEW va \in {V0, V1}, IsInsert(o, i, va),
         NEW k, NEW L, NEW W, Play(s, k, L, Null, Null, Null, Null, W),
         NEW h, h = s.mem.page_free_list, h # Null,
         NEW p, k.pp[i] = p, p \in k.play, p \notin L, NEW L2, L2 = L \ {h}
  PROVE  /\ va = V0 => Play(s2, k, L2, h, Null, p, Null, W)
         /\ va = V1 => Play(s2, k, L2, h, Null, Null, p, W)
<1>1. o[1] # "take" /\ o[1] # "steal"
  BY DEF IsInsert
<1>2. PICK perm \in SUBSET Perm : perm = o[4]
  BY DEF IsInsert
<1>3. PICK r : r = page_insert(s.mem, k.d, p, va, perm)
  OBVIOUS
<1>4. s2.pp = s.pp /\ s2.fl = s.fl /\ s2.mem = r.mem
  BY <1>1, <1>2, <1>3, Statement, CallInsert DEF IsInsert, Play
<1>5. PICK j \in {0, 1} : j = va[2]
  BY Addresses
<1>6. va \in Va /\ va[1] = 0
  BY Addresses
<1>7. Scene(s.mem, k, L, Null, Null, Null, Null, W)
  BY DEF Play
<1>8. PICK w : w = Walk(s.mem, k.d, va)
  OBVIOUS
<1>9. PICK m : m = w.mem
  OBVIOUS
<1>10. Scene(m, k, L2, h, Null, Null, Null, W) /\ w.pt = h /\ h \in L
  BY <1>6, <1>7, <1>8, <1>9, SceneWalk0
<1>11. PICK v : v = Walk(m, k.d, va)
  OBVIOUS
<1>12. v.pt = h /\ v.mem = m
  <2>1. h \in Frame /\ m.tab[k.d][va[1]] = Pde(h)
    BY <1>6, <1>7, <1>10 DEF Scene, Dir
  <2>2. Pde(h) # Null /\ Pde(h).pg = h
    BY <2>1, PdeFields
  <2> QED BY <1>11, <2>1, <2>2, WalkFinds
<1>13. PICK r2 : r2 = page_insert(m, k.d, p, va, perm)
  OBVIOUS
<1>14. r.mem = Inserted(w, k.d, p, va, perm) /\ r2.mem = Inserted(v, k.d, p, va, perm)
  BY <1>3, <1>8, <1>10, <1>11, <1>12, <1>13, InsertSteps
<1>15. r.mem = r2.mem
  <2>1. w.mem = v.mem /\ w.pt = v.pt
    BY <1>9, <1>10, <1>12
  <2>2. Inserted(w, k.d, p, va, perm) = Inserted(v, k.d, p, va, perm)
    BY ONLY <2>1, Zenon DEF Inserted
  <2> QED BY <1>14, <2>2
<1>16. PICK x2, y2 : x2 = Instead(j, 0, p, Null) /\ y2 = Instead(j, 1, p, Null)
  OBVIOUS
<1>17. /\ va = V0 => x2 = p /\ y2 = Null
       /\ va = V1 => x2 = Null /\ y2 = p
       /\ x2 \in {p, Null} /\ y2 \in {p, Null}
  BY <1>5, <1>16, Addresses DEF Instead
<1>18. p \notin L2 /\ x2 \notin L2 /\ y2 \notin L2 /\ p # h
  BY <1>7, <1>10, <1>17 DEF Scene
<1>19. PICK q : q = Null
  OBVIOUS
<1>20. /\ q = IF j = 0 THEN Null ELSE Null
       /\ Dropped(s2.mem, L2, q, L2) /\ Flushable(q, va, W, W)
  BY <1>19 DEF Dropped, Flushable
<1>21. Placing(m, k, L2, h, Null, Null, W, va, p, perm, s2.mem, q, L2, x2, y2, W)
  BY <1>4, <1>5, <1>6, <1>13, <1>15, <1>16, <1>18, <1>20 DEF Placing
<1>22. Scene(s2.mem, k, L2, h, Null, x2, y2, W)
  <2>1. h # Null
    OBVIOUS
  <2> QED BY <1>10, <1>21, <2>1, SceneInsert
<1> QED
  BY <1>4, <1>17, <1>22 DEF Play

\* page_remove at V0.
LEMMA DoRemove0 ==
  ASSUME NEW s, NEW s2, NEW o, Does(s, s2, o), IsRemove(o, V0),
         NEW k, NEW L, NEW t, NEW x, NEW y, NEW W, Play(s, k, L, t, Null, x, y, W),
         t # Null, x # Null, NEW L2, Dropped(s2.mem, L, x, L2), y \notin L2
  PROVE  Play(s2, k, L2, t, Null, Null, y, W)
<1>1. o[1] # "take" /\ o[1] # "steal"
  BY DEF IsRemove
<1>2. s2.pp = s.pp /\ s2.fl = s.fl /\ s2.mem = page_remove(s.mem, k.d, V0)
  BY <1>1, Statement, CallRemove DEF IsRemove, Play
<1>3. Scene(s.mem, k, L, t, Null, x, y, W)
  BY DEF Play
<1>4. PICK j : j = V0[2] /\ j = 0
  BY Addresses
<1>5. PICK x2, y2 : x2 = Instead(j, 0, Null, x) /\ y2 = Instead(j, 1, Null, y)
  OBVIOUS
<1>6. x2 = Null /\ y2 = y
  BY <1>4, <1>5 DEF Instead
<1>7. x2 \notin L2 /\ y2 \notin L2
  BY <1>3, <1>6 DEF Dropped, Scene
<1>8. Flushable(x, V0, W, W)
  BY DEF Flushable
<1>9. x = IF j = 0 THEN x ELSE y
  BY <1>4
<1>10. Removing(s.mem, k, L, x, y, W, V0, s2.mem, x, L2, x2, y2, W)
  BY <1>2, <1>4, <1>5, <1>7, <1>8, <1>9, Addresses DEF Removing
<1>11. Scene(s2.mem, k, L2, t, Null, x2, y2, W)
  BY <1>3, <1>10, SceneRemove
<1> QED
  BY <1>2, <1>6, <1>11 DEF Play

\* page_remove at V1, of which the TLB then knows nothing.
LEMMA DoRemove1 ==
  ASSUME NEW s, NEW s2, NEW o, Does(s, s2, o), IsRemove(o, V1),
         NEW k, NEW L, NEW t, NEW x, NEW y, NEW W, Play(s, k, L, t, Null, x, y, W),
         t # Null, y # Null, NEW L2, Dropped(s2.mem, L, y, L2), x \notin L2,
         NEW W2, W2 = W \ {V1}
  PROVE  Play(s2, k, L2, t, Null, x, Null, W2)
<1>1. o[1] # "take" /\ o[1] # "steal"
  BY DEF IsRemove
<1>2. s2.pp = s.pp /\ s2.fl = s.fl /\ s2.mem = page_remove(s.mem, k.d, V1)
  BY <1>1, Statement, CallRemove DEF IsRemove, Play
<1>3. Scene(s.mem, k, L, t, Null, x, y, W)
  BY DEF Play
<1>4. PICK j : j = V1[2] /\ j = 1
  BY Addresses
<1>5. PICK x2, y2 : x2 = Instead(j, 0, Null, x) /\ y2 = Instead(j, 1, Null, y)
  OBVIOUS
<1>6. x2 = x /\ y2 = Null
  BY <1>4, <1>5 DEF Instead
<1>7. x2 \notin L2 /\ y2 \notin L2
  BY <1>3, <1>6 DEF Dropped, Scene
<1>8. Flushable(y, V1, W, W2)
  BY DEF Flushable
<1>9. y = IF j = 0 THEN x ELSE y
  BY <1>4
<1>10. Removing(s.mem, k, L, x, y, W, V1, s2.mem, y, L2, x2, y2, W2)
  BY <1>2, <1>4, <1>5, <1>7, <1>8, <1>9, Addresses DEF Removing
<1>11. Scene(s2.mem, k, L2, t, Null, x2, y2, W2)
  BY <1>3, <1>10, SceneRemove
<1> QED
  BY <1>2, <1>6, <1>11 DEF Play

\* The first page table is taken back.
LEMMA DoBack0 ==
  ASSUME NEW s, NEW s2, NEW o, Does(s, s2, o), NEW i, IsBack(o, i, V0),
         NEW k, NEW L, NEW t, NEW x, NEW y, NEW W, Play(s, k, L, t, Null, x, y, W),
         k.pp[i] \in Frame
  PROVE  Play(s2, k, L, Null, Null, Null, Null, W)
<1>1. o[1] # "take" /\ o[1] # "steal"
  BY DEF IsBack
<1>2. PICK p \in Frame : p = k.pp[i]
  OBVIOUS
<1>3. s2.pp = s.pp /\ s2.fl = s.fl /\ s2.mem = Taken_back(s.mem, k.d, 0, p)
  BY <1>1, <1>2, Statement, CallBack, Addresses DEF IsBack, Play
<1>4. Scene(s.mem, k, L, t, Null, x, y, W)
  BY DEF Play
<1>5. Scene(s2.mem, k, L, Null, Null, Null, Null, W)
  BY <1>3, <1>4, SceneBack0
<1> QED
  BY <1>3, <1>5 DEF Play

\* The second one is.
LEMMA DoBack1 ==
  ASSUME NEW s, NEW s2, NEW o, Does(s, s2, o), NEW i, IsBack(o, i, VX),
         NEW k, NEW L, NEW u, NEW W, Play(s, k, L, Null, u, Null, Null, W),
         k.pp[i] \in Frame
  PROVE  Play(s2, k, L, Null, Null, Null, Null, W)
<1>1. o[1] # "take" /\ o[1] # "steal"
  BY DEF IsBack
<1>2. PICK p \in Frame : p = k.pp[i]
  OBVIOUS
<1>3. s2.pp = s.pp /\ s2.fl = s.fl /\ s2.mem = Taken_back(s.mem, k.d, 1, p)
  BY <1>1, <1>2, Statement, CallBack, Addresses DEF IsBack, Play
<1>4. Scene(s.mem, k, L, Null, u, Null, Null, W)
  BY DEF Play
<1>5. Scene(s2.mem, k, L, Null, Null, Null, Null, W)
  BY <1>3, <1>4, SceneBack1
<1> QED
  BY <1>3, <1>5 DEF Play

\* memset of the page i, which is no page table; the free list stays.
LEMMA DoMemset ==
  ASSUME NEW s, NEW s2, NEW o, Does(s, s2, o), NEW i, IsMemset(o, i),
         NEW k, NEW L, NEW t, NEW u, NEW x, NEW y, NEW W, Play(s, k, L, t, u, x, y, W),
         NEW p, k.pp[i] = p, p \in k.play, p # t
  PROVE  Play(s2, k, L, t, u, x, y, W) /\ s2.mem.page_free_list = s.mem.page_free_list
<1>1. o[1] # "take" /\ o[1] # "steal"
  BY DEF IsMemset
<1>2. s2.pp = s.pp /\ s2.fl = s.fl /\ s2.mem = Scrubbed(s.mem, p)
  BY <1>1, Statement, CallMemset DEF IsMemset, Play
<1>3. Scene(s.mem, k, L, t, u, x, y, W)
  BY DEF Play
<1>4. Scene(s2.mem, k, L, t, u, x, y, W)
  BY <1>2, <1>3, SceneMemset
<1>5. s2.mem.page_free_list = s.mem.page_free_list
  BY <1>2, <1>3 DEF Scrubbed, Scene, Memory
<1> QED
  BY <1>2, <1>4, <1>5 DEF Play

\* A load from V1 through the kernel's directory.
LEMMA DoLoad ==
  ASSUME NEW s, NEW s2, NEW o, Does(s, s2, o), IsLoad(o, V1),
         NEW k, NEW L, NEW t, NEW x, NEW y, NEW W, Play(s, k, L, t, Null, x, y, W),
         t # Null, V1 \in W, k.mem.cr3 = k.d
  PROVE  Play(s2, k, L, t, Null, x, y, W)
<1>1. o[1] # "take" /\ o[1] # "steal"
  BY DEF IsLoad
<1>2. s2.pp = s.pp /\ s2.fl = s.fl /\ s2.mem = tlb_fill(s.mem, V1)
  BY <1>1, Statement, CallLoad DEF IsLoad
<1>3. Scene(s.mem, k, L, t, Null, x, y, W) /\ s.mem.cr3 = k.d
  BY DEF Play, Scene, Untouched
<1>4. Scene(s2.mem, k, L, t, Null, x, y, W)
  BY <1>2, <1>3, Addresses, SceneLoad
<1> QED
  BY <1>2, <1>4 DEF Play

\* pgdir_walk that takes the head of the list for the first or the second page
\* table.
LEMMA DoWalk ==
  ASSUME NEW s, NEW s2, NEW o, Does(s, s2, o), NEW va \in {V0, VX}, IsWalk(o, va),
         NEW k, NEW L, NEW W, Play(s, k, L, Null, Null, Null, Null, W),
         NEW h, h = s.mem.page_free_list, h # Null, NEW L2, L2 = L \ {h}
  PROVE  /\ va = V0 => Play(s2, k, L2, h, Null, Null, Null, W)
         /\ va = VX => Play(s2, k, L2, Null, h, Null, Null, W)
<1>1. o[1] # "take" /\ o[1] # "steal"
  BY DEF IsWalk
<1>2. PICK w : w = Walk(s.mem, k.d, va)
  OBVIOUS
<1>3. s2.pp = s.pp /\ s2.fl = s.fl /\ s2.mem = w.mem
  BY <1>1, <1>2, Statement, CallWalk DEF IsWalk, Play
<1>4. Scene(s.mem, k, L, Null, Null, Null, Null, W)
  BY DEF Play
<1>5. va = V0 => Scene(s2.mem, k, L2, h, Null, Null, Null, W)
  BY <1>2, <1>3, <1>4, Addresses, SceneWalk0
<1>6. va = VX => Scene(s2.mem, k, L2, Null, h, Null, Null, W)
  BY <1>2, <1>3, <1>4, Addresses, SceneWalk1
<1> QED
  BY <1>3, <1>5, <1>6 DEF Play

----------------------------------------------------------------------------
(* The parts of check_page.  W is empty there: nothing is loaded.          *)

\* The pages that a check has taken are a, b and c.
Three(k, a, b, c) ==
  /\ k.pp[0] = a /\ k.pp[1] = b /\ k.pp[2] = c
  /\ {a, b, c} \subseteq k.play /\ a # b /\ a # c /\ b # c
  /\ a \in Frame /\ b \in Frame /\ c \in Frame

\* A page table is made for the mapping of b at 0.
LEMMA AfterMapAt0 ==
  ASSUME NEW s, NEW r, r = runs(s, MapAt0), r.ok,
         NEW k, NEW a, NEW b, NEW c, Three(k, a, b, c), NEW W, NEW none, none = {},
         Play(s, k, none, Null, Null, Null, Null, W)
  PROVE  Play(r, k, none, a, Null, b, Null, W)
<1> DEFINE sc == MapAt0
<1>1. /\ Len(sc) = 8 /\ IsTest(sc[1]) /\ IsTest(sc[2]) /\ IsFree(sc[3], 0) /\ IsInsert(sc[4], 1, V0)
      /\ IsTest(sc[5]) /\ IsTest(sc[6]) /\ IsTest(sc[7]) /\ IsTest(sc[8])
  BY DEF MapAt0, IsTest, IsFree, IsInsert, Assertions, Perm
<1> HIDE DEF sc
<1>2. PICK g : Run(s, sc, 8, r, g)
  BY <1>1, Runs DEF sc
<1>3. /\ g[0] = s /\ g[8] = r
      /\ Does(g[0], g[1], sc[1]) /\ Does(g[1], g[2], sc[2]) /\ Does(g[2], g[3], sc[3])
      /\ Does(g[3], g[4], sc[4]) /\ Does(g[4], g[5], sc[5]) /\ Does(g[5], g[6], sc[6])
      /\ Does(g[6], g[7], sc[7]) /\ Does(g[7], g[8], sc[8])
  BY <1>2 DEF Run
<1>4. Play(g[2], k, none, Null, Null, Null, Null, W)
  BY <1>1, <1>3, DoTest
<1>5. PICK A : A = none \cup {a} /\ none = A \ {a}
  OBVIOUS
<1>6. Idle(k, 0, a, none, Null, Null, Null, Null)
  BY DEF Idle, Spare, Three
<1>7. Play(g[3], k, A, Null, Null, Null, Null, W) /\ g[3].mem.page_free_list = a
  BY <1>1, <1>3, <1>4, <1>5, <1>6, DoFree
<1>8. b \notin A /\ b \in k.play /\ a # Null /\ k.pp[1] = b
  BY <1>5 DEF Three
<1>9. Play(g[4], k, none, a, Null, b, Null, W)
  <2>1. PICK va \in {V0, V1} : va = V0
    OBVIOUS
  <2>2. IsInsert(sc[4], 1, va)
    BY <1>1, <2>1
  <2> QED BY <1>3, <1>5, <1>7, <1>8, <2>1, <2>2, DoInsertNew
<1> QED
  BY <1>1, <1>3, <1>9, DoTest

\* c is mapped at PGSIZE, and once more.
LEMMA AfterMapAt1 ==
  ASSUME NEW s, NEW r, r = runs(s, MapAt1), r.ok,
         NEW k, NEW a, NEW b, NEW c, Three(k, a, b, c), NEW W, NEW none, none = {},
         Play(s, k, none, a, Null, b, Null, W)
  PROVE  Play(r, k, none, a, Null, b, c, W) /\ r.mem.pp_ref[c] = 1
<1> DEFINE sc == MapAt1
<1>1. /\ Len(sc) = 9
      /\ IsInsert(sc[1], 2, V1) /\ IsTest(sc[2]) /\ IsTest(sc[3]) /\ IsRef(sc[3], 2, 1)
      /\ IsTest(sc[4]) /\ IsInsert(sc[5], 2, V1) /\ IsTest(sc[6]) /\ IsTest(sc[7])
      /\ IsTest(sc[8]) /\ IsTest(sc[9])
  BY DEF MapAt1, IsTest, IsInsert, IsRef, Assertions, Perm
<1> HIDE DEF sc
<1>2. PICK g : Run(s, sc, 9, r, g)
  BY <1>1, Runs DEF sc
<1>3. /\ g[0] = s /\ g[9] = r
      /\ Does(g[0], g[1], sc[1]) /\ Does(g[1], g[2], sc[2]) /\ Does(g[2], g[3], sc[3])
      /\ Does(g[3], g[4], sc[4]) /\ Does(g[4], g[5], sc[5]) /\ Does(g[5], g[6], sc[6])
      /\ Does(g[6], g[7], sc[7]) /\ Does(g[7], g[8], sc[8]) /\ Does(g[8], g[9], sc[9])
  BY <1>2 DEF Run
<1>4. Mappable(k, 2, c, none, none, a) /\ b \notin none
  BY DEF Mappable, Three, Play, Scene
<1>5. Dropped(g[1].mem, none, Null, none)
  BY DEF Dropped
<1>6. Play(g[1], k, none, a, Null, b, c, W)
  BY <1>1, <1>3, <1>4, <1>5, DoInsert
<1>7. g[4].mem = g[2].mem /\ Play(g[2], k, none, a, Null, b, c, W) /\ Play(g[4], k, none, a, Null, b, c, W)
  BY <1>1, <1>3, <1>6, DoTest
<1>8. g[4].mem.pp_ref[c] = 1 /\ a # Null /\ c # Null /\ k.pp[2] = c
  BY <1>1, <1>3, <1>4, <1>7, DoRef DEF Play, Three, Mappable
<1>9. Play(g[5], k, none, a, Null, b, c, W) /\ g[5].mem.pp_ref[c] = 1
  BY <1>1, <1>3, <1>7, <1>8, DoInsertSame
<1> QED
  BY <1>1, <1>3, <1>9, DoTest

\* It is mapped there with other permissions.
LEMMA AfterChangePerm ==
  ASSUME NEW s, NEW r, r = runs(s, ChangePerm), r.ok,
         NEW k, NEW a, NEW b, NEW c, Three(k, a, b, c), NEW W, NEW none, none = {},
         Play(s, k, none, a, Null, b, c, W), s.mem.pp_ref[c] = 1
  PROVE  Play(r, k, none, a, Null, b, c, W) /\ r.mem.pp_ref[c] = 1
<1> DEFINE sc == ChangePerm
<1>1. /\ Len(sc) = 9
      /\ IsInsert(sc[1], 2, V1) /\ IsTest(sc[2]) /\ IsTest(sc[3]) /\ IsTest(sc[4])
      /\ IsTest(sc[5]) /\ IsInsert(sc[6], 2, V1) /\ IsTest(sc[7]) /\ IsTest(sc[8])
      /\ IsTest(sc[9])
  BY DEF ChangePerm, IsTest, IsInsert, Assertions, Perm
<1> HIDE DEF sc
<1>2. PICK g : Run(s, sc, 9, r, g)
  BY <1>1, Runs DEF sc
<1>3. /\ g[0] = s /\ g[9] = r
      /\ Does(g[0], g[1], sc[1]) /\ Does(g[1], g[2], sc[2]) /\ Does(g[2], g[3], sc[3])
      /\ Does(g[3], g[4], sc[4]) /\ Does(g[4], g[5], sc[5]) /\ Does(g[5], g[6], sc[6])
      /\ Does(g[6], g[7], sc[7]) /\ Does(g[7], g[8], sc[8]) /\ Does(g[8], g[9], sc[9])
  BY <1>2 DEF Run
<1>4. a # Null /\ c # Null /\ k.pp[2] = c
  BY DEF Three
<1>5. Play(g[1], k, none, a, Null, b, c, W) /\ g[1].mem.pp_ref[c] = 1
  BY <1>1, <1>3, <1>4, DoInsertSame
<1>6. Play(g[5], k, none, a, Null, b, c, W) /\ g[5].mem.pp_ref[c] = 1
  BY <1>1, <1>3, <1>5, DoTest
<1>7. Play(g[6], k, none, a, Null, b, c, W) /\ g[6].mem.pp_ref[c] = 1
  BY <1>1, <1>3, <1>4, <1>6, DoInsertSame
<1> QED
  BY <1>1, <1>3, <1>7, DoTest

\* b takes the place of c, which is freed and allocated again.
LEMMA AfterReplace ==
  ASSUME NEW s, NEW r, r = runs(s, Replace), r.ok,
         NEW k, NEW a, NEW b, NEW c, Three(k, a, b, c), NEW W, NEW none, none = {},
         Play(s, k, none, a, Null, b, c, W)
  PROVE  Play(r, k, none, a, Null, b, b, W)
<1> DEFINE sc == Replace
<1>1. /\ Len(sc) = 7
      /\ IsInsert(sc[1], 1, V1) /\ IsTest(sc[2]) /\ IsTest(sc[3]) /\ IsTest(sc[4])
      /\ IsTest(sc[5]) /\ IsTest(sc[6]) /\ IsRef(sc[6], 2, 0) /\ IsAlloc(sc[7], 2)
  BY DEF Replace, IsTest, IsInsert, IsRef, IsAlloc, Assertions, Perm
<1> HIDE DEF sc
<1>2. PICK g : Run(s, sc, 7, r, g)
  BY <1>1, Runs DEF sc
<1>3. /\ g[0] = s /\ g[7] = r
      /\ Does(g[0], g[1], sc[1]) /\ Does(g[1], g[2], sc[2]) /\ Does(g[2], g[3], sc[3])
      /\ Does(g[3], g[4], sc[4]) /\ Does(g[4], g[5], sc[5]) /\ Does(g[5], g[6], sc[6])
      /\ Does(g[6], g[7], sc[7])
  BY <1>2 DEF Run
<1>4. PICK C : C = none \cup {c} /\ none = C \ {c}
  OBVIOUS
<1>5. Mappable(k, 1, b, none, C, a) /\ b \notin C
  BY <1>4 DEF Mappable, Three, Play, Scene
<1>6. g[5].mem = g[1].mem /\ g[5].pp = g[1].pp /\ g[1].pp = s.pp
  <2>1. g[5].mem = g[1].mem
    BY <1>1, <1>3, DoTest
  <2>2. \A i \in 1 .. 6 : sc[i][1] # "take" /\ sc[i][1] # "steal"
    BY <1>1 DEF IsTest, IsInsert, Assertions
  <2>3. g[5].pp = g[4].pp /\ g[4].pp = g[3].pp /\ g[3].pp = g[2].pp /\ g[2].pp = g[1].pp /\ g[1].pp = s.pp
    BY <1>3, <2>2, Statement
  <2> QED BY <2>1, <2>3
<1>7. g[1].mem.pp_ref[c] = 0 /\ c # Null
  BY <1>1, <1>3, <1>6, DoRef DEF Play, Three
<1>8. Dropped(g[1].mem, none, c, C)
  BY <1>4, <1>7 DEF Dropped
<1>9. Play(g[1], k, C, a, Null, b, b, W)
  BY <1>1, <1>3, <1>5, <1>8, DoInsert
<1>10. Play(g[6], k, C, a, Null, b, b, W)
  BY <1>1, <1>3, <1>9, DoTest
<1>11. k.pp[2] = c
  BY DEF Three
<1> QED
  BY <1>1, <1>3, <1>4, <1>7, <1>10, <1>11, DoAlloc

\* Both mappings of b are removed; it is freed, and allocated again.
LEMMA AfterUnmap ==
  ASSUME NEW s, NEW r, r = runs(s, Unmap), r.ok,
         NEW k, NEW a, NEW b, NEW c, Three(k, a, b, c), NEW W, NEW none, none = {},
         V1 \notin W, Play(s, k, none, a, Null, b, b, W)
  PROVE  Play(r, k, none, a, Null, Null, Null, W)
<1> DEFINE sc == Unmap
<1>1. /\ Len(sc) = 14
      /\ IsRemove(sc[1], V0) /\ IsTest(sc[2]) /\ IsTest(sc[3]) /\ IsTest(sc[4])
      /\ IsRef(sc[4], 1, 1) /\ IsTest(sc[5]) /\ IsInsert(sc[6], 1, V1) /\ IsCounted(sc[7], 1)
      /\ IsTest(sc[7]) /\ IsRemove(sc[8], V1) /\ IsTest(sc[9]) /\ IsTest(sc[10])
      /\ IsTest(sc[11]) /\ IsRef(sc[11], 1, 0) /\ IsTest(sc[12]) /\ IsAlloc(sc[13], 1)
      /\ IsTest(sc[14])
  BY DEF Unmap, IsTest, IsInsert, IsRef, IsRemove, IsCounted, IsAlloc, Assertions, Perm
<1> HIDE DEF sc
<1>2. PICK g : Run(s, sc, 14, r, g)
  BY <1>1, Runs DEF sc
<1>3. /\ g[0] = s /\ g[14] = r
      /\ Does(g[0], g[1], sc[1]) /\ Does(g[1], g[2], sc[2]) /\ Does(g[2], g[3], sc[3])
      /\ Does(g[3], g[4], sc[4]) /\ Does(g[4], g[5], sc[5]) /\ Does(g[5], g[6], sc[6])
      /\ Does(g[6], g[7], sc[7]) /\ Does(g[7], g[8], sc[8]) /\ Does(g[8], g[9], sc[9])
      /\ Does(g[9], g[10], sc[10]) /\ Does(g[10], g[11], sc[11]) /\ Does(g[11], g[12], sc[12])
      /\ Does(g[12], g[13], sc[13]) /\ Does(g[13], g[14], sc[14])
  BY <1>2 DEF Run
<1>4. PICK B : B = none \cup {b} /\ none = B \ {b}
  OBVIOUS
<1>5. \A i \in 1 .. 14 : g[i].pp = k.pp
  <2>1. \A i \in 1 .. 14 : sc[i][1] # "take" /\ sc[i][1] # "steal"
    BY <1>1 DEF IsTest, IsInsert, IsRemove, IsAlloc, Assertions
  <2>2. g[0].pp = k.pp
    BY <1>3 DEF Play
  <2>3. g[1].pp = k.pp /\ g[2].pp = k.pp /\ g[3].pp = k.pp /\ g[4].pp = k.pp
    BY <1>3, <2>1, <2>2, Statement
  <2>4. g[5].pp = k.pp /\ g[6].pp = k.pp /\ g[7].pp = k.pp /\ g[8].pp = k.pp
    BY <1>3, <2>1, <2>3, Statement
  <2>5. g[9].pp = k.pp /\ g[10].pp = k.pp /\ g[11].pp = k.pp
    BY <1>3, <2>1, <2>4, Statement
  <2>6. g[12].pp = k.pp /\ g[13].pp = k.pp /\ g[14].pp = k.pp
    BY <1>3, <2>1, <2>5, Statement
  <2> QED BY <2>3, <2>4, <2>5, <2>6
<1>6. k.pp[1] = b /\ b # Null /\ a # Null /\ Null \notin none
  BY DEF Three
<1>7. g[3].mem = g[1].mem /\ g[10].mem = g[8].mem
  BY <1>1, <1>3, DoTest
<1>8. g[1].mem.pp_ref[b] = 1 /\ g[6].mem.pp_ref[b] # 0 /\ g[8].mem.pp_ref[b] = 0
  BY <1>1, <1>3, <1>5, <1>6, <1>7, DoRef, DoCounted
<1>9. Dropped(g[1].mem, none, b, none) /\ b \notin none
  BY <1>8 DEF Dropped
<1>10. Play(g[1], k, none, a, Null, Null, b, W)
  BY <1>1, <1>3, <1>6, <1>9, DoRemove0
<1>11. Play(g[5], k, none, a, Null, Null, b, W)
  BY <1>1, <1>3, <1>10, DoTest
<1>12. Mappable(k, 1, b, none, none, a) /\ Dropped(g[6].mem, none, b, none)
  BY <1>8 DEF Mappable, Three, Dropped
<1>13. Play(g[6], k, none, a, Null, Null, b, W)
  BY <1>1, <1>3, <1>6, <1>11, <1>12, DoInsert
<1>14. Play(g[7], k, none, a, Null, Null, b, W)
  BY <1>1, <1>3, <1>13, DoTest
<1>15. Dropped(g[8].mem, none, b, B) /\ Null \notin B /\ W = W \ {V1}
  BY <1>4, <1>6, <1>8 DEF Dropped
<1>16. Play(g[8], k, B, a, Null, Null, Null, W)
  BY <1>1, <1>3, <1>6, <1>14, <1>15, DoRemove1
<1>17. Play(g[12], k, B, a, Null, Null, Null, W)
  BY <1>1, <1>3, <1>16, DoTest
<1>18. Play(g[13], k, none, a, Null, Null, Null, W)
  BY <1>1, <1>3, <1>4, <1>6, <1>17, DoAlloc
<1> QED
  BY <1>1, <1>3, <1>18, DoTest

\* a is taken back from the directory, and twice becomes a page table again.
LEMMA AfterFreshTables ==
  ASSUME NEW s, NEW r, r = runs(s, FreshTables), r.ok,
         NEW k, NEW a, NEW b, NEW c, Three(k, a, b, c), NEW W, NEW none, none = {},
         Play(s, k, none, a, Null, Null, Null, W)
  PROVE  Play(r, k, none, Null, Null, Null, Null, W)
<1> DEFINE sc == FreshTables
<1>1. /\ Len(sc) = 11
      /\ IsTest(sc[1]) /\ IsTest(sc[2]) /\ IsBack(sc[3], 0, V0) /\ IsFree(sc[4], 0)
      /\ IsWalk(sc[5], VX) /\ IsBack(sc[6], 0, VX) /\ IsMemset(sc[7], 0) /\ IsFree(sc[8], 0)
      /\ IsWalk(sc[9], V0) /\ IsTest(sc[10]) /\ IsBack(sc[11], 0, V0)
  BY DEF FreshTables, IsTest, IsBack, IsFree, IsWalk, IsMemset, Assertions, Perm
<1> HIDE DEF sc
<1>2. PICK g : Run(s, sc, 11, r, g)
  BY <1>1, Runs DEF sc
<1>3. /\ g[0] = s /\ g[11] = r
      /\ Does(g[0], g[1], sc[1]) /\ Does(g[1], g[2], sc[2]) /\ Does(g[2], g[3], sc[3])
      /\ Does(g[3], g[4], sc[4]) /\ Does(g[4], g[5], sc[5]) /\ Does(g[5], g[6], sc[6])
      /\ Does(g[6], g[7], sc[7]) /\ Does(g[7], g[8], sc[8]) /\ Does(g[8], g[9], sc[9])
      /\ Does(g[9], g[10], sc[10]) /\ Does(g[10], g[11], sc[11])
  BY <1>2 DEF Run
<1>4. PICK A : A = none \cup {a} /\ none = A \ {a}
  OBVIOUS
<1>5. /\ k.pp[0] = a /\ a \in Frame /\ a # Null /\ a \in k.play /\ k.pp[0] \in Frame
      /\ Idle(k, 0, a, none, Null, Null, Null, Null)
  BY DEF Three, Idle, Spare
<1>6. PICK x \in {V0, VX} : x = VX
  OBVIOUS
<1>7. PICK v \in {V0, VX} : v = V0
  OBVIOUS
<1>8. IsWalk(sc[5], x) /\ IsWalk(sc[9], v)
  BY <1>1, <1>6, <1>7
<1>9. Play(g[2], k, none, a, Null, Null, Null, W)
  BY <1>1, <1>3, DoTest
<1>10. Play(g[3], k, none, Null, Null, Null, Null, W)
  BY <1>1, <1>3, <1>5, <1>9, DoBack0
<1>11. Play(g[4], k, A, Null, Null, Null, Null, W) /\ g[4].mem.page_free_list = a
  BY <1>1, <1>3, <1>4, <1>5, <1>10, DoFree
<1>12. Play(g[5], k, none, Null, a, Null, Null, W)
  BY <1>3, <1>4, <1>5, <1>6, <1>8, <1>11, DoWalk
<1>13. Play(g[6], k, none, Null, Null, Null, Null, W)
  BY <1>1, <1>3, <1>5, <1>12, DoBack1
<1>14. Play(g[7], k, none, Null, Null, Null, Null, W)
  BY <1>1, <1>3, <1>5, <1>13, DoMemset
<1>15. Play(g[8], k, A, Null, Null, Null, Null, W) /\ g[8].mem.page_free_list = a
  BY <1>1, <1>3, <1>4, <1>5, <1>14, DoFree
<1>16. Play(g[9], k, none, a, Null, Null, Null, W)
  BY <1>3, <1>4, <1>5, <1>7, <1>8, <1>15, DoWalk
<1>17. Play(g[10], k, none, a, Null, Null, Null, W)
  BY <1>1, <1>3, <1>16, DoTest
<1> QED
  BY <1>1, <1>3, <1>5, <1>17, DoBack0

\* The three pages are freed.
LEMMA AfterFree3 ==
  ASSUME NEW s, NEW r, r = runs(s, Free3), r.ok,
         NEW k, NEW a, NEW b, NEW c, Three(k, a, b, c), NEW W,
         NEW L, {a, b, c} \cap L = {}, Play(s, k, L, Null, Null, Null, Null, W),
         NEW L2, L2 = L \cup {a, b, c}
  PROVE  Play(r, k, L2, Null, Null, Null, Null, W)
<1> DEFINE sc == Free3
<1>1. /\ Len(sc) = 3
      /\ IsFree(sc[1], 0) /\ IsFree(sc[2], 1) /\ IsFree(sc[3], 2)
  BY DEF Free3, IsFree, Assertions, Perm
<1> HIDE DEF sc
<1>2. PICK g : Run(s, sc, 3, r, g)
  BY <1>1, Runs DEF sc
<1>3. /\ g[0] = s /\ g[3] = r
      /\ Does(g[0], g[1], sc[1]) /\ Does(g[1], g[2], sc[2]) /\ Does(g[2], g[3], sc[3])
  BY <1>2 DEF Run
<1>4. PICK A, B : A = L \cup {a} /\ B = A \cup {b}
  OBVIOUS
<1>5. L2 = B \cup {c}
  BY <1>4
<1>6. /\ Idle(k, 0, a, L, Null, Null, Null, Null)
      /\ Idle(k, 1, b, A, Null, Null, Null, Null)
      /\ Idle(k, 2, c, B, Null, Null, Null, Null)
  BY <1>4 DEF Three, Idle, Spare
<1>7. Play(g[1], k, A, Null, Null, Null, Null, W)
  BY <1>1, <1>3, <1>4, <1>6, DoFree
<1>8. Play(g[2], k, B, Null, Null, Null, Null, W)
  BY <1>1, <1>3, <1>4, <1>6, <1>7, DoFree
<1> QED
  BY <1>1, <1>3, <1>5, <1>6, <1>8, DoFree

\* a is freed and comes back cleared.
LEMMA AfterAllocFlags ==
  ASSUME NEW s, NEW r, r = runs(s, AllocFlags), r.ok,
         NEW k, NEW a, NEW b, NEW c, Three(k, a, b, c), NEW W, NEW none, none = {},
         Play(s, k, none, Null, Null, Null, Null, W)
  PROVE  Play(r, k, none, Null, Null, Null, Null, W)
<1> DEFINE sc == AllocFlags
<1>1. /\ Len(sc) = 5
      /\ IsTest(sc[1]) /\ IsMemset(sc[2], 0) /\ IsFree(sc[3], 0) /\ IsAlloc(sc[4], 0)
      /\ IsTest(sc[5])
  BY DEF AllocFlags, IsTest, IsMemset, IsFree, IsAlloc, Assertions, Perm
<1> HIDE DEF sc
<1>2. PICK g : Run(s, sc, 5, r, g)
  BY <1>1, Runs DEF sc
<1>3. /\ g[0] = s /\ g[5] = r
      /\ Does(g[0], g[1], sc[1]) /\ Does(g[1], g[2], sc[2]) /\ Does(g[2], g[3], sc[3])
      /\ Does(g[3], g[4], sc[4]) /\ Does(g[4], g[5], sc[5])
  BY <1>2 DEF Run
<1>4. PICK A : A = none \cup {a} /\ none = A \ {a}
  OBVIOUS
<1>5. /\ k.pp[0] = a /\ a # Null /\ a \in k.play
      /\ Idle(k, 0, a, none, Null, Null, Null, Null)
  BY DEF Three, Idle, Spare
<1>6. Play(g[1], k, none, Null, Null, Null, Null, W)
  BY <1>1, <1>3, DoTest
<1>7. Play(g[2], k, none, Null, Null, Null, Null, W)
  BY <1>1, <1>3, <1>5, <1>6, DoMemset
<1>8. Play(g[3], k, A, Null, Null, Null, Null, W)
  BY <1>1, <1>3, <1>4, <1>5, <1>7, DoFree
<1>9. Play(g[4], k, none, Null, Null, Null, Null, W)
  BY <1>1, <1>3, <1>4, <1>5, <1>8, DoAlloc
<1> QED
  BY <1>1, <1>3, <1>9, DoTest

\* A load leaves the counts alone.
LEMMA LoadCounts ==
  ASSUME NEW s, NEW s2, NEW o, Does(s, s2, o), IsLoad(o, V1), s.mem \in Memory
  PROVE  s2.mem.pp_ref = s.mem.pp_ref
<1>1. o[1] # "take" /\ o[1] # "steal"
  BY DEF IsLoad
<1>2. s2.mem = tlb_fill(s.mem, V1)
  BY <1>1, Statement, CallLoad DEF IsLoad
<1> QED
  BY <1>2 DEF tlb_fill, Memory

\* b and then c are mapped and read at PGSIZE, and all three pages are free again.
LEMMA AfterInstalled ==
  ASSUME NEW s, NEW r, r = runs(s, Installed), r.ok,
         NEW k, NEW a, NEW b, NEW c, Three(k, a, b, c), NEW W,
         NEW L, {a, b, c} \cap L = {}, Play(s, k, L, Null, Null, Null, Null, W),
         V1 \in W, NEW W2, W2 = W \ {V1}, k.mem.cr3 = k.d, NEW L2, L2 = L \cup {a, b, c}
  PROVE  Play(r, k, L2, Null, Null, Null, Null, W2)
<1> DEFINE sc == Installed
<1>1. /\ Len(sc) = 16
      /\ IsFree(sc[1], 0) /\ IsMemset(sc[2], 1) /\ IsMemset(sc[3], 2) /\ IsInsert(sc[4], 1, V1)
      /\ IsTest(sc[5]) /\ IsLoad(sc[6], V1) /\ IsInsert(sc[7], 2, V1) /\ IsLoad(sc[8], V1)
      /\ IsTest(sc[9]) /\ IsTest(sc[10]) /\ IsRef(sc[10], 1, 0) /\ IsRemove(sc[11], V1)
      /\ IsTest(sc[12]) /\ IsRef(sc[12], 2, 0) /\ IsTest(sc[13]) /\ IsTest(sc[14])
      /\ IsBack(sc[15], 0, V0) /\ IsFree(sc[16], 0)
  BY DEF Installed, IsTest, IsMemset, IsFree, IsInsert, IsLoad, IsRef, IsRemove, IsBack, Assertions, Perm
<1> HIDE DEF sc
<1>2. PICK g : Run(s, sc, 16, r, g)
  BY <1>1, Runs DEF sc
<1>3. /\ g[0] = s /\ g[16] = r
      /\ Does(g[0], g[1], sc[1]) /\ Does(g[1], g[2], sc[2]) /\ Does(g[2], g[3], sc[3])
      /\ Does(g[3], g[4], sc[4]) /\ Does(g[4], g[5], sc[5]) /\ Does(g[5], g[6], sc[6])
      /\ Does(g[6], g[7], sc[7]) /\ Does(g[7], g[8], sc[8]) /\ Does(g[8], g[9], sc[9])
      /\ Does(g[9], g[10], sc[10]) /\ Does(g[10], g[11], sc[11]) /\ Does(g[11], g[12], sc[12])
      /\ Does(g[12], g[13], sc[13]) /\ Does(g[13], g[14], sc[14]) /\ Does(g[14], g[15], sc[15])
      /\ Does(g[15], g[16], sc[16])
  BY <1>2 DEF Run
<1>4. PICK A, B, C : A = L \cup {a} /\ L = A \ {a} /\ B = L \cup {b} /\ C = B \cup {c}
  OBVIOUS
<1>5. /\ k.pp[0] = a /\ k.pp[1] = b /\ k.pp[2] = c /\ a # Null /\ b # Null /\ c # Null
      /\ a \in k.play /\ b \in k.play /\ c \in k.play /\ a # b /\ a # c /\ b # c
      /\ b \notin A /\ c \notin A /\ k.pp[0] \in Frame
  BY <1>4 DEF Three
<1>6. Idle(k, 0, a, L, Null, Null, Null, Null)
  BY <1>4, <1>5 DEF Idle, Spare
<1>7. Play(g[1], k, A, Null, Null, Null, Null, W) /\ g[1].mem.page_free_list = a
  BY <1>1, <1>3, <1>4, <1>6, DoFree
<1>8. Play(g[2], k, A, Null, Null, Null, Null, W) /\ g[2].mem.page_free_list = a
  BY <1>1, <1>3, <1>5, <1>7, DoMemset
<1>9. Play(g[3], k, A, Null, Null, Null, Null, W) /\ g[3].mem.page_free_list = a
  BY <1>1, <1>3, <1>5, <1>8, DoMemset
<1>10. Play(g[4], k, L, a, Null, Null, b, W)
  <2>1. PICK va \in {V0, V1} : va = V1
    OBVIOUS
  <2>2. IsInsert(sc[4], 1, va)
    BY <1>1, <2>1
  <2>3. PICK h : h = g[3].mem.page_free_list
    OBVIOUS
  <2>4. h # Null /\ L = A \ {h} /\ h = a
    BY <1>4, <1>5, <1>9, <2>3
  <2>5. PICK u, v, o : u = g[3] /\ v = g[4] /\ o = sc[4]
    OBVIOUS
  <2>6. Does(u, v, o) /\ Play(u, k, A, Null, Null, Null, Null, W) /\ IsInsert(o, 1, va) /\ h = u.mem.page_free_list
    BY <1>3, <1>9, <2>2, <2>3, <2>5
  <2>7. Play(v, k, L, h, Null, Null, b, W)
    BY <1>5, <2>1, <2>4, <2>6, DoInsertNew
  <2> QED BY <2>4, <2>5, <2>7
<1>11. Play(g[6], k, L, a, Null, Null, b, W)
  BY <1>1, <1>3, <1>5, <1>10, DoTest, DoLoad
<1>12. PICK M : Dropped(g[7].mem, L, b, M) /\ M \subseteq B
  <2>1. CASE g[7].mem.pp_ref[b] = 0
    BY <1>4, <1>5, <2>1 DEF Dropped
  <2>2. CASE g[7].mem.pp_ref[b] # 0
    BY <1>4, <2>2 DEF Dropped
  <2> QED BY <2>1, <2>2
<1>13. B \subseteq Frame /\ C \subseteq Frame
  BY <1>4, <1>11 DEF Play, Scene, Three
<1>14. Mappable(k, 2, c, L, M, a) /\ Null \notin M
  BY <1>4, <1>5, <1>12, <1>13 DEF Mappable
<1>15. Play(g[7], k, M, a, Null, Null, c, W)
  BY <1>1, <1>3, <1>11, <1>12, <1>14, DoInsert
<1>16. Play(g[8], k, M, a, Null, Null, c, W)
  BY <1>1, <1>3, <1>5, <1>15, DoLoad
<1>17. Play(g[9], k, M, a, Null, Null, c, W) /\ g[9].mem = g[8].mem
  BY <1>1, <1>3, <1>16, DoTest
<1>18. g[7].mem.pp_ref[b] = 0
  <2>1. g[8].mem.pp_ref = g[7].mem.pp_ref
    BY <1>1, <1>3, <1>15, LoadCounts DEF Play, Scene
  <2>2. g[9].mem.pp_ref[b] = 0
    BY <1>1, <1>3, <1>5, <1>17, DoRef DEF Play
  <2> QED BY <1>17, <2>1, <2>2
<1>19. M = B
  BY <1>4, <1>5, <1>12, <1>18 DEF Dropped
<1>20. Play(g[10], k, B, a, Null, Null, c, W)
  BY <1>1, <1>3, <1>17, <1>19, DoTest
<1>21. g[11].pp = k.pp
  <2>1. sc[11][1] # "take" /\ sc[11][1] # "steal"
    BY <1>1 DEF IsRemove
  <2> QED BY <1>3, <1>20, <2>1, Statement DEF Play
<1>22. g[11].mem.pp_ref[c] = 0
  BY <1>1, <1>3, <1>5, <1>21, DoRef
<1>23. Dropped(g[11].mem, B, c, C) /\ Null \notin C
  BY <1>4, <1>5, <1>13, <1>22 DEF Dropped
<1>24. Play(g[11], k, C, a, Null, Null, Null, W2)
  BY <1>1, <1>3, <1>5, <1>20, <1>23, DoRemove1
<1>25. Play(g[14], k, C, a, Null, Null, Null, W2)
  BY <1>1, <1>3, <1>24, DoTest
<1>26. Play(g[15], k, C, Null, Null, Null, Null, W2)
  BY <1>1, <1>3, <1>5, <1>25, DoBack0
<1>27. Idle(k, 0, a, C, Null, Null, Null, Null) /\ L2 = C \cup {a}
  BY <1>4, <1>5 DEF Idle, Spare
<1> QED
  BY <1>1, <1>3, <1>26, <1>27, DoFree

----------------------------------------------------------------------------
(* What comes before and after: three pages are taken, the rest of the list
   is put aside, and all is given back.                                    *)

IsTake(o, i)  == o[1] = "take" /\ o[2] = i
Pages3        == [0 .. 2 -> Frame \cup {Null}]

\* Taking a page is page_alloc.
LEMMA DoTake ==
  ASSUME NEW s, NEW s2, NEW o, Does(s, s2, o), NEW i \in 0 .. 2, IsTake(o, i),
         s.pp \in Pages3, s.mem \in Memory,
         NEW F \in SUBSET Frame, IsFreeList(s.mem, F),
         NEW p, p = s.mem.page_free_list
  PROVE  /\ p \in F /\ Relinked(s.mem, s2.mem, p) /\ s2.mem.tab[p] = s.mem.tab[p]
         /\ IsFreeList(s2.mem, F \ {p})
         /\ s2.pp \in Pages3 /\ s2.pp[i] = p /\ \A j \in 0 .. 2 : j # i => s2.pp[j] = s.pp[j]
         /\ s2.fl = s.fl
<1>1. PICK zero \in BOOLEAN : zero = FALSE
  OBVIOUS
<1>2. PICK a : a = page_alloc(s.mem, zero)
  OBVIOUS
<1>3. /\ s2.mem = a.mem /\ s2.pp = [s.pp EXCEPT ![i] = a.pg] /\ s2.fl = s.fl
      /\ a.pg # Null
  BY <1>1, <1>2 DEF Does, perform, IsTake
<1>4. a.pg = p /\ p # Null
  BY <1>2, <1>3 DEF page_alloc
<1>5. /\ p \in F /\ Relinked(s.mem, a.mem, p) /\ IsFreeList(a.mem, F \ {p})
      /\ a.mem.tab[p] = IF zero THEN Blank ELSE s.mem.tab[p]
  BY <1>2, <1>4, AllocEff
<1>6. a.mem.tab[p] = s.mem.tab[p]
  BY <1>1, <1>5
<1> QED
  BY <1>3, <1>4, <1>5, <1>6 DEF Pages3

\* Three pages have been taken from the list F, and nothing else has changed.
Took(s, r, F, a, b, c) ==
  /\ a \in F /\ b \in F /\ c \in F /\ a # b /\ a # c /\ b # c
  /\ r.pp \in Pages3 /\ r.pp[0] = a /\ r.pp[1] = b /\ r.pp[2] = c /\ r.fl = s.fl
  /\ r.mem \in Memory /\ IsFreeList(r.mem, F \ {a, b, c})
  /\ r.mem.cr3 = s.mem.cr3 /\ r.mem.tlb = s.mem.tlb
  /\ \A f \in Frame : r.mem.tab[f] = s.mem.tab[f]
  /\ \A f \in Frame \ {a, b, c} : r.mem.pp_link[f] = s.mem.pp_link[f]

\* Take3 takes three different pages.
LEMMA AfterTake3 ==
  ASSUME NEW s, NEW r, r = runs(s, Take3), r.ok,
         s.pp \in Pages3, s.mem \in Memory, NEW F \in SUBSET Frame, IsFreeList(s.mem, F)
  PROVE  \E a, b, c : Took(s, r, F, a, b, c)
<1> DEFINE sc == Take3
<1>1. Len(sc) = 3 /\ IsTake(sc[1], 0) /\ IsTake(sc[2], 1) /\ IsTake(sc[3], 2)
  BY DEF Take3, IsTake
<1> HIDE DEF sc
<1>2. PICK g : Run(s, sc, 3, r, g)
  BY <1>1, Runs DEF sc
<1>3. /\ g[0] = s /\ g[3] = r
      /\ Does(g[0], g[1], sc[1]) /\ Does(g[1], g[2], sc[2]) /\ Does(g[2], g[3], sc[3])
  BY <1>2 DEF Run
<1>4. PICK a, b, c : a = g[0].mem.page_free_list /\ b = g[1].mem.page_free_list /\ c = g[2].mem.page_free_list
  OBVIOUS
<1>5. /\ a \in F /\ Relinked(s.mem, g[1].mem, a) /\ g[1].mem.tab[a] = s.mem.tab[a]
      /\ IsFreeList(g[1].mem, F \ {a})
      /\ g[1].pp \in Pages3 /\ g[1].pp[0] = a /\ g[1].fl = s.fl
  BY <1>1, <1>3, <1>4, DoTake
<1>6. PICK A \in SUBSET Frame : A = F \ {a}
  OBVIOUS
<1>7. g[1].mem \in Memory /\ IsFreeList(g[1].mem, A)
  BY <1>5, <1>6 DEF Relinked
<1>8. /\ b \in A /\ Relinked(g[1].mem, g[2].mem, b) /\ g[2].mem.tab[b] = g[1].mem.tab[b]
      /\ IsFreeList(g[2].mem, A \ {b})
      /\ g[2].pp \in Pages3 /\ g[2].pp[1] = b /\ g[2].fl = s.fl
      /\ \A j \in 0 .. 2 : j # 1 => g[2].pp[j] = g[1].pp[j]
  <2>1. PICK i \in 0 .. 2 : i = 1
    OBVIOUS
  <2> QED BY <1>1, <1>3, <1>4, <1>5, <1>7, <2>1, DoTake
<1>9. PICK B \in SUBSET Frame : B = A \ {b}
  OBVIOUS
<1>10. g[2].mem \in Memory /\ IsFreeList(g[2].mem, B)
  BY <1>8, <1>9 DEF Relinked
<1>11. /\ c \in B /\ Relinked(g[2].mem, r.mem, c) /\ r.mem.tab[c] = g[2].mem.tab[c]
       /\ IsFreeList(r.mem, B \ {c})
       /\ r.pp \in Pages3 /\ r.pp[2] = c /\ r.fl = s.fl
       /\ \A j \in 0 .. 2 : j # 2 => r.pp[j] = g[2].pp[j]
  <2>1. PICK i \in 0 .. 2 : i = 2
    OBVIOUS
  <2>2. IsTake(sc[3], i) /\ Does(g[2], r, sc[3])
    BY <1>1, <1>3, <2>1
  <2>3. g[2].pp \in Pages3 /\ g[2].fl = s.fl
    BY <1>8
  <2> QED BY <1>4, <1>10, <2>1, <2>2, <2>3, DoTake
<1>12. r.pp[0] = a /\ r.pp[1] = b /\ B \ {c} = F \ {a, b, c}
  BY <1>5, <1>6, <1>8, <1>9, <1>11
<1>13. r.mem \in Memory /\ r.mem.cr3 = s.mem.cr3 /\ r.mem.tlb = s.mem.tlb
  BY <1>5, <1>8, <1>11 DEF Relinked
<1>14. \A f \in Frame : r.mem.tab[f] = s.mem.tab[f]
  <2>1. \A f \in Frame : g[1].mem.tab[f] = s.mem.tab[f]
    BY <1>5 DEF Relinked
  <2>2. \A f \in Frame : g[2].mem.tab[f] = g[1].mem.tab[f]
    BY <1>8 DEF Relinked
  <2>3. \A f \in Frame : r.mem.tab[f] = g[2].mem.tab[f]
    BY <1>11 DEF Relinked
  <2> QED BY <2>1, <2>2, <2>3
<1>15. \A f \in Frame \ {a, b, c} : r.mem.pp_link[f] = s.mem.pp_link[f]
  BY <1>5, <1>8, <1>11 DEF Relinked
<1>16. a # b /\ a # c /\ b # c /\ b \in F /\ c \in F
  BY <1>6, <1>8, <1>9, <1>11
<1>17. Took(s, r, F, a, b, c)
  BY <1>5, <1>11, <1>12, <1>13, <1>14, <1>15, <1>16 DEF Took
<1> QED
  BY <1>17

\* A scene in which nothing is mapped.
LEMMA SceneStart ==
  ASSUME NEW m \in Memory, NEW k, k.d \in Frame, k.play \subseteq Frame, k.d \notin k.play,
         m.tab[k.d][0] = Null, m.tab[k.d][1] = Null, \A va \in Va : m.tlb[va] = Null,
         Untouched(m, k), NEW L, L \subseteq k.play, IsFreeList(m, L), NEW W
  PROVE  Scene(m, k, L, Null, Null, Null, Null, W)
BY DEF Scene, Dir, Mapped_by

\* A memory with the same directory, page tables and free pages as another one
\* is kept as that one is, whatever its free pages hold.
LEMMA KeptSame ==
  ASSUME NEW m, NEW d, NEW S, NEW c, Kept(m, d, S, c), NEW G, G = Unused(m, d, S),
         NEW n \in Memory, IsFreeList(n, G), \A va \in Va : n.tlb[va] = Null,
         \A i \in Ix : n.tab[d][i] = m.tab[d][i],
         \A f \in Frame \ G : f # d => n.tab[f] = m.tab[f]
  PROVE  Kept(n, d, S, c)
<1>1. /\ d \in Frame /\ S \subseteq Frame \ {d} /\ G \subseteq S
      /\ 0 \in Ix /\ 1 \in Ix /\ UVPT \in Ix
  BY Indices2 DEF Kept, Unused
<1>2. Unused(n, d, S) = G
  BY DEF Unused, Below
<1>3. ASSUME NEW va \in Va, va[1] \in Below
      PROVE  Pte(n, d, va) = c[va]
  <2>1. PICK i \in Below : i = va[1]
    BY <1>3
  <2>2. n.tab[d][i] = m.tab[d][i]
    BY DEF Below
  <2>3. Pte(m, d, va) = c[va]
    BY <1>3 DEF Kept
  <2>4. CASE m.tab[d][i] = Null
    BY <2>1, <2>2, <2>3, <2>4 DEF Pte
  <2>5. CASE m.tab[d][i] # Null
    <3>1. PICK t \in S : m.tab[d][i] = Pde(t)
      BY <2>5 DEF Kept
    <3>2. t \notin G
      BY <3>1 DEF Unused
    <3>3. Pde(t).pg = t /\ t \in Frame /\ t # d
      BY <1>1, PdeFields
    <3>4. n.tab[t] = m.tab[t]
      BY <3>2, <3>3
    <3> QED BY <2>1, <2>2, <2>3, <2>5, <3>1, <3>3, <3>4 DEF Pte
  <2> QED BY <2>4, <2>5
<1>4. IsFreeList(n, Unused(n, d, S))
  BY <1>2
<1>5. /\ n.tab[d][UVPT] = [pg |-> d, perm |-> {"U"}]
      /\ n.tab[d][0] = Null /\ n.tab[d][1] = Null
  BY <1>1 DEF Kept
<1>6. /\ \A i \in Below : n.tab[d][i] = Null \/ \E t \in S : n.tab[d][i] = Pde(t)
      /\ \A i, j \in Below : n.tab[d][i] = n.tab[d][j] => i = j \/ n.tab[d][i] = Null
  BY DEF Kept, Below
<1> QED
  BY <1>1, <1>3, <1>4, <1>5, <1>6 DEF Kept

\* A memory with all that was played with on the list is as mem_init left it.
LEMMA KeptAgain ==
  ASSUME NEW m, NEW d, NEW S, NEW c, Kept(m, d, S, c), NEW G, G = Unused(m, d, S),
         NEW k, k.mem = m, k.play = G, k.d = d,
         NEW n, NEW none, none = {}, Scene(n, k, G, Null, Null, Null, Null, none)
  PROVE  Kept(n, d, S, c)
<1>1. n \in Memory /\ IsFreeList(n, G) /\ \A va \in Va : n.tlb[va] = Null
  BY DEF Scene
<1>2. \A i \in Ix : n.tab[d][i] = m.tab[d][i]
  BY DEF Kept, Scene, Dir, Untouched
<1>3. \A f \in Frame \ G : f # d => n.tab[f] = m.tab[f]
  BY DEF Scene, Untouched
<1> QED
  BY <1>1, <1>2, <1>3, KeptSame

\* k is what a check that began with m plays with: three of the free pages G.
\* The others are put aside.
Aside(k, m, d, G) ==
  /\ k.d = d /\ d = kern_pgdir /\ k.pp \in Pages3
  /\ \E a, b, c : Three(k, a, b, c) /\ k.play = {a, b, c}
  /\ k.play \subseteq G /\ G \subseteq Frame \ {d}
  /\ k.fl \in Frame \cup {Null}
  /\ IsFreeList([page_free_list |-> k.fl, pp_link |-> k.mem.pp_link], G \ k.play)
  /\ \A f \in Frame \ k.play : k.mem.pp_link[f] = m.pp_link[f]
  /\ \A f \in Frame \ k.play : k.mem.tab[f] = m.tab[f]
  /\ k.mem.cr3 = m.cr3

\* The scene after the pages have been taken and the others put aside.
LEMMA AfterAlone ==
  ASSUME NEW m, NEW d, NEW S, NEW c, Kept(m, d, S, c), d = kern_pgdir,
         NEW G, G = Unused(m, d, S), NEW s, s = alone(m), s.ok, NEW none, none = {}
  PROVE  \E k : Aside(k, m, d, G) /\ Play(s, k, none, Null, Null, Null, Null, none)
<1>1. /\ m \in Memory /\ d \in Frame /\ G \in SUBSET Frame /\ d \notin G
      /\ m.tab[d][0] = Null /\ m.tab[d][1] = Null /\ \A va \in Va : m.tlb[va] = Null
      /\ IsFreeList(m, G)
  BY DEF Kept, Unused
<1>2. PICK q : q = began(m)
  OBVIOUS
<1>3. q.mem = m /\ q.pp \in Pages3
  BY <1>2 DEF began, Pages3
<1>4. PICK r : r = runs(q, Take3)
  OBVIOUS
<1> DEFINE sc == Steal
<1>5. Len(sc) = 2 /\ sc[1][1] = "steal" /\ IsTest(sc[2])
  BY DEF Steal, IsTest, Assertions
<1> HIDE DEF sc
<1>6. s = runs(r, sc)
  BY <1>2, <1>4 DEF alone, sc
<1>7. PICK g : Run(r, sc, 2, s, g)
  BY <1>5, <1>6, Runs
<1>8. g[0] = r /\ g[2] = s /\ Does(g[0], g[1], sc[1]) /\ Does(g[1], g[2], sc[2])
  BY <1>7 DEF Run
<1>9. /\ r.ok /\ g[1].pp = r.pp /\ g[1].fl = r.mem.page_free_list
      /\ g[1].mem = [r.mem EXCEPT !.page_free_list = Null]
  <2>1. PICK o : o = sc[1] /\ o[1] = "steal"
    BY <1>5
  <2>2. g[1] = perform(r, o) /\ g[1].ok
    BY <1>8, <2>1 DEF Does
  <2>3. Calls(r, o) = [r.mem EXCEPT !.page_free_list = Null]
    BY <2>1 DEF Calls
  <2>4. perform(r, o) = [mem |-> Calls(r, o), pp |-> r.pp, fl |-> r.mem.page_free_list,
                         ok |-> r.ok /\ Asserts(r, o)]
    BY <2>1 DEF perform
  <2>5. g[1].mem = Calls(r, o) /\ g[1].pp = r.pp /\ g[1].fl = r.mem.page_free_list
    BY <2>2, <2>4
  <2>6. r.ok
    BY <1>8, StillOk
  <2> QED BY <2>3, <2>5, <2>6
<1>10. s.mem = g[1].mem /\ s.pp = g[1].pp /\ s.fl = g[1].fl
  <2>1. sc[2][1] # "take" /\ sc[2][1] # "steal"
    BY <1>5 DEF IsTest, Assertions
  <2> QED BY <1>5, <1>8, <2>1, DoTest, Statement
<1>11. PICK x, y, z : Took(q, r, G, x, y, z)
  BY <1>1, <1>3, <1>4, <1>9, AfterTake3
<1>12. PICK T : T = {x, y, z}
  OBVIOUS
<1>13. /\ r.mem \in Memory /\ IsFreeList(r.mem, G \ T)
       /\ r.mem.cr3 = m.cr3 /\ r.mem.tlb = m.tlb
       /\ \A f \in Frame : r.mem.tab[f] = m.tab[f]
       /\ \A f \in Frame \ T : r.mem.pp_link[f] = m.pp_link[f]
       /\ T \subseteq G /\ r.pp \in Pages3
  BY <1>3, <1>11, <1>12 DEF Took
<1>14. /\ s.mem \in Memory /\ s.mem.page_free_list = Null /\ s.mem.pp_link = r.mem.pp_link
       /\ s.mem.tab = r.mem.tab /\ s.mem.cr3 = m.cr3 /\ s.mem.tlb = m.tlb
  BY <1>9, <1>10, <1>13 DEF Memory
<1>15. PICK k : k = [mem |-> s.mem, play |-> T, d |-> d, pp |-> s.pp, fl |-> s.fl]
  OBVIOUS
<1>16. k.mem = s.mem /\ k.play = T /\ k.d = d /\ k.pp = s.pp /\ k.fl = s.fl
  BY <1>15
<1>17. Three(k, x, y, z)
  BY <1>1, <1>9, <1>10, <1>11, <1>12, <1>16 DEF Three, Took
<1>18. IsFreeList([page_free_list |-> k.fl, pp_link |-> k.mem.pp_link], G \ k.play)
  <2>1. PICK l : l = [page_free_list |-> k.fl, pp_link |-> k.mem.pp_link]
    OBVIOUS
  <2>2. l.page_free_list = r.mem.page_free_list /\ l.pp_link = r.mem.pp_link
    BY <1>9, <1>10, <1>14, <1>16, <2>1
  <2>3. IsFreeList(l, G \ T)
    BY <1>13, <2>2, FreeListSame
  <2> QED BY <1>16, <2>1, <2>3
<1>19. k.fl \in Frame \cup {Null}
  BY <1>9, <1>10, <1>13, <1>16 DEF Memory
<1>20. Aside(k, m, d, G)
  BY <1>1, <1>9, <1>10, <1>12, <1>13, <1>14, <1>16, <1>17, <1>18, <1>19 DEF Aside
<1>21. IsFreeList(s.mem, none)
  BY <1>14, FreeListEmpty
<1>22. Untouched(s.mem, k)
  BY <1>16 DEF Untouched
<1>23. Scene(s.mem, k, none, Null, Null, Null, Null, none)
  BY <1>1, <1>13, <1>14, <1>16, <1>21, <1>22, SceneStart
<1> QED
  BY <1>16, <1>20, <1>23 DEF Play

\* All is given back.
LEMMA AfterReturn ==
  ASSUME NEW m, NEW d, NEW S, NEW c, Kept(m, d, S, c), NEW G, G = Unused(m, d, S),
         NEW k, Aside(k, m, d, G), NEW none, none = {},
         NEW s, Play(s, k, none, Null, Null, Null, Null, none),
         NEW r, r = return(s), r.ok
  PROVE  Kept(r.mem, d, S, c)
<1>1. /\ m \in Memory /\ d \in Frame /\ G \in SUBSET Frame /\ d \notin G
  BY DEF Kept, Unused
<1> DEFINE sc == Give
<1>2. Len(sc) = 1 /\ sc[1][1] = "give"
  BY DEF Give
<1> HIDE DEF sc
<1>3. PICK q : q = runs(s, sc)
  OBVIOUS
<1>4. r = runs(q, Free3)
  BY <1>3 DEF return, sc
<1>5. q.ok
  <2>1. Len(Free3) \in Nat \ {0}
    BY DEF Free3
  <2> QED BY <1>4, <2>1, RunsOk
<1>6. PICK g : Run(s, sc, 1, q, g)
  BY <1>2, <1>3, <1>5, Runs
<1>7. Does(s, q, sc[1])
  BY <1>6 DEF Run
<1>8. q.pp = s.pp /\ q.fl = s.fl /\ q.mem = [s.mem EXCEPT !.page_free_list = s.fl]
  BY <1>2, <1>7, Statement, CallGive
<1>9. /\ s.pp = k.pp /\ s.fl = k.fl /\ k.d = d /\ d = kern_pgdir
      /\ Scene(s.mem, k, none, Null, Null, Null, Null, none)
  BY DEF Play, Aside
<1>10. /\ s.mem \in Memory /\ k.fl \in Frame \cup {Null} /\ k.play \subseteq G
  BY <1>9 DEF Scene, Aside
<1>11. /\ q.mem \in Memory /\ q.mem.page_free_list = k.fl /\ q.mem.pp_link = s.mem.pp_link
       /\ q.mem.tab = s.mem.tab /\ q.mem.cr3 = s.mem.cr3 /\ q.mem.tlb = s.mem.tlb
  BY <1>8, <1>9, <1>10 DEF Memory
<1>12. PICK L : L = G \ k.play
  OBVIOUS
<1>13. IsFreeList(q.mem, L)
  <2>1. PICK l : l = [page_free_list |-> k.fl, pp_link |-> k.mem.pp_link]
    OBVIOUS
  <2>2. IsFreeList(l, L)
    BY <1>12, <2>1 DEF Aside
  <2>3. \A f \in L : q.mem.pp_link[f] = l.pp_link[f]
    BY <1>1, <1>9, <1>11, <1>12, <2>1 DEF Scene, Untouched
  <2>4. q.mem.page_free_list = l.page_free_list
    BY <1>11, <2>1
  <2> QED BY <2>2, <2>3, <2>4, FreeListElsewhere
<1>14. PICK k2 : k2 = [mem |-> m, play |-> G, d |-> d, pp |-> k.pp, fl |-> k.fl]
  OBVIOUS
<1>15. k2.mem = m /\ k2.play = G /\ k2.d = d /\ k2.pp = k.pp /\ k2.fl = k.fl
  BY <1>14
<1>16. Untouched(q.mem, k2)
  <2>1. \A f \in Frame \ G : q.mem.pp_link[f] = m.pp_link[f]
    BY <1>9, <1>10, <1>11 DEF Scene, Untouched, Aside
  <2>2. \A f \in Frame \ G : f # d => q.mem.tab[f] = m.tab[f]
    BY <1>9, <1>10, <1>11 DEF Scene, Untouched, Aside
  <2>3. \A i \in Ix : i # 0 /\ i # 1 => q.mem.tab[d][i] = m.tab[d][i]
    BY <1>1, <1>9, <1>10, <1>11 DEF Scene, Untouched, Aside
  <2>4. q.mem.cr3 = m.cr3
    BY <1>9, <1>10, <1>11 DEF Scene, Untouched, Aside
  <2> QED BY <1>15, <2>1, <2>2, <2>3, <2>4 DEF Untouched
<1>17. Scene(q.mem, k2, L, Null, Null, Null, Null, none)
  <2>1. q.mem.tab[d][0] = Null /\ q.mem.tab[d][1] = Null
    BY <1>9, <1>11 DEF Scene, Dir
  <2>2. \A va \in Va : q.mem.tlb[va] = Null
    BY <1>9, <1>11 DEF Scene
  <2>3. L \subseteq k2.play
    BY <1>12, <1>15
  <2> QED BY <1>1, <1>11, <1>13, <1>15, <1>16, <2>1, <2>2, <2>3, SceneStart
<1>18. Play(q, k2, L, Null, Null, Null, Null, none)
  BY <1>8, <1>9, <1>15, <1>17 DEF Play
<1>19. PICK a, b, e : Three(k, a, b, e) /\ k.play = {a, b, e}
  BY DEF Aside
<1>20. Three(k2, a, b, e) /\ {a, b, e} \cap L = {} /\ G = L \cup {a, b, e}
  BY <1>10, <1>12, <1>15, <1>19 DEF Three
<1>21. Play(r, k2, G, Null, Null, Null, Null, none)
  BY <1>4, <1>18, <1>20, AfterFree3
<1>22. Scene(r.mem, k2, G, Null, Null, Null, Null, none)
  BY <1>21 DEF Play
<1> QED
  BY <1>15, <1>22, KeptAgain

----------------------------------------------------------------------------
(* What the checks leave of a memory.                                      *)

\* check_page gives back all that it has taken.
LEMMA CheckPageKeeps ==
  ASSUME NEW m, NEW d, NEW S, NEW c, Kept(m, d, S, c), d = kern_pgdir,
         NEW r, r = check_page(m), r.ok
  PROVE  Kept(r.mem, d, S, c)
<1>1. PICK s0 : s0 = alone(m)
  OBVIOUS
<1>2. PICK s1 : s1 = runs(s0, MapAt0)
  OBVIOUS
<1>3. PICK s2 : s2 = runs(s1, MapAt1)
  OBVIOUS
<1>4. PICK s3 : s3 = runs(s2, ChangePerm)
  OBVIOUS
<1>5. PICK s4 : s4 = runs(s3, Replace)
  OBVIOUS
<1>6. PICK s5 : s5 = runs(s4, Unmap)
  OBVIOUS
<1>7. PICK s6 : s6 = runs(s5, FreshTables)
  OBVIOUS
<1>8. r = return(s6)
  <2> DEFINE parts == <<Take3, Steal, MapAt0, MapAt1, ChangePerm, Replace, Unmap, FreshTables, Give, Free3>>
  <2>1. /\ Len(parts) = 10
        /\ parts[1] = Take3 /\ parts[2] = Steal /\ parts[3] = MapAt0 /\ parts[4] = MapAt1
        /\ parts[5] = ChangePerm /\ parts[6] = Replace /\ parts[7] = Unmap
        /\ parts[8] = FreshTables /\ parts[9] = Give /\ parts[10] = Free3
    OBVIOUS
  <2>2. r = follow(m, parts)
    BY DEF check_page
  <2> HIDE DEF parts
  <2>3. PICK g : /\ g[0] = began(m) /\ g[10] = r
                 /\ \A k \in 1 .. 10 : g[k] = runs(g[k - 1], parts[k])
    <3>1. PICK n \in Nat : n = 10
      OBVIOUS
    <3>2. Len(parts) = n
      BY <2>1, <3>1
    <3>3. PICK g : Stations(m, parts, n, r, g)
      BY <2>2, <3>2, Parts
    <3> QED BY <3>1, <3>3 DEF Stations
  <2>4. /\ g[1] = runs(g[0], Take3) /\ g[2] = runs(g[1], Steal) /\ g[3] = runs(g[2], MapAt0)
        /\ g[4] = runs(g[3], MapAt1) /\ g[5] = runs(g[4], ChangePerm) /\ g[6] = runs(g[5], Replace)
        /\ g[7] = runs(g[6], Unmap) /\ g[8] = runs(g[7], FreshTables) /\ g[9] = runs(g[8], Give)
        /\ r = runs(g[9], Free3)
    BY <2>1, <2>3
  <2>5. g[2] = s0
    BY <1>1, <2>3, <2>4 DEF alone
  <2>6. g[8] = s6
    BY <1>2, <1>3, <1>4, <1>5, <1>6, <1>7, <2>4, <2>5
  <2> QED BY <2>4, <2>6 DEF return
<1>9. s6.ok
  <2>1. PICK q : q = runs(s6, Give)
    OBVIOUS
  <2>2. r = runs(q, Free3)
    BY <1>8, <2>1 DEF return
  <2>3. Len(Give) \in Nat \ {0} /\ Len(Free3) \in Nat \ {0}
    BY DEF Give, Free3
  <2>4. q.ok
    BY <2>2, <2>3, RunsOk
  <2> QED BY <2>1, <2>3, <2>4, RunsOk
<1>10. s5.ok
  <2>1. Len(FreshTables) \in Nat \ {0}
    BY DEF FreshTables
  <2> QED BY <1>7, <1>9, <2>1, RunsOk
<1>11. s4.ok
  <2>1. Len(Unmap) \in Nat \ {0}
    BY DEF Unmap
  <2> QED BY <1>6, <1>10, <2>1, RunsOk
<1>12. s3.ok
  <2>1. Len(Replace) \in Nat \ {0}
    BY DEF Replace
  <2> QED BY <1>5, <1>11, <2>1, RunsOk
<1>13. s2.ok
  <2>1. Len(ChangePerm) \in Nat \ {0}
    BY DEF ChangePerm
  <2> QED BY <1>4, <1>12, <2>1, RunsOk
<1>14. s1.ok
  <2>1. Len(MapAt1) \in Nat \ {0}
    BY DEF MapAt1
  <2> QED BY <1>3, <1>13, <2>1, RunsOk
<1>15. s0.ok
  <2>1. Len(MapAt0) \in Nat \ {0}
    BY DEF MapAt0
  <2> QED BY <1>2, <1>14, <2>1, RunsOk
<1>16. PICK G, none : G = Unused(m, d, S) /\ none = {}
  OBVIOUS
<1>17. PICK k : Aside(k, m, d, G) /\ Play(s0, k, none, Null, Null, Null, Null, none)
  BY <1>1, <1>15, <1>16, AfterAlone
<1>18. PICK a, b, e : Three(k, a, b, e)
  BY <1>17 DEF Aside
<1>19. Play(s1, k, none, a, Null, b, Null, none)
  BY <1>2, <1>14, <1>16, <1>17, <1>18, AfterMapAt0
<1>20. Play(s2, k, none, a, Null, b, e, none) /\ s2.mem.pp_ref[e] = 1
  BY <1>3, <1>13, <1>16, <1>18, <1>19, AfterMapAt1
<1>21. Play(s3, k, none, a, Null, b, e, none)
  BY <1>4, <1>12, <1>16, <1>18, <1>20, AfterChangePerm
<1>22. Play(s4, k, none, a, Null, b, b, none)
  BY <1>5, <1>11, <1>16, <1>18, <1>21, AfterReplace
<1>23. Play(s5, k, none, a, Null, Null, Null, none)
  <2>1. V1 \notin none
    BY <1>16
  <2> QED BY <1>6, <1>10, <1>16, <1>18, <1>22, <2>1, AfterUnmap
<1>24. Play(s6, k, none, Null, Null, Null, Null, none)
  BY <1>7, <1>9, <1>16, <1>18, <1>23, AfterFreshTables
<1> QED
  BY <1>8, <1>16, <1>17, <1>24, AfterReturn

\* check_page_alloc frees the pages it plays with and takes them again.
LEMMA CheckPageAllocKeeps ==
  ASSUME NEW m, NEW d, NEW S, NEW c, Kept(m, d, S, c), d = kern_pgdir,
         NEW r, r = check_page_alloc(m), r.ok
  PROVE  Kept(r.mem, d, S, c)
<1>1. PICK s0 : s0 = alone(m)
  OBVIOUS
<1>2. PICK s1 : s1 = runs(s0, Free3)
  OBVIOUS
<1>3. PICK s2 : s2 = runs(s1, Take3)
  OBVIOUS
<1>4. PICK s3 : s3 = runs(s2, AllocFlags)
  OBVIOUS
<1>5. PICK s4 : s4 = return(s3)
  OBVIOUS
<1>6. r.mem = s4.mem /\ s4.ok
  <2> DEFINE parts == <<Take3, Steal, Free3, Take3, AllocFlags, Give, Free3>>
  <2>1. /\ Len(parts) = 7
        /\ parts[1] = Take3 /\ parts[2] = Steal /\ parts[3] = Free3 /\ parts[4] = Take3
        /\ parts[5] = AllocFlags /\ parts[6] = Give /\ parts[7] = Free3
    OBVIOUS
  <2>2. PICK s : s = follow(m, parts) /\ r.mem = s.mem /\ s.ok
    BY DEF check_page_alloc
  <2> HIDE DEF parts
  <2>3. PICK g : /\ g[0] = began(m) /\ g[7] = s
                 /\ \A k \in 1 .. 7 : g[k] = runs(g[k - 1], parts[k])
    <3>1. PICK n \in Nat : n = 7
      OBVIOUS
    <3>2. Len(parts) = n
      BY <2>1, <3>1
    <3>3. PICK g : Stations(m, parts, n, s, g)
      BY <2>2, <3>2, Parts
    <3> QED BY <3>1, <3>3 DEF Stations
  <2>4. /\ g[1] = runs(g[0], Take3) /\ g[2] = runs(g[1], Steal) /\ g[3] = runs(g[2], Free3)
        /\ g[4] = runs(g[3], Take3) /\ g[5] = runs(g[4], AllocFlags) /\ g[6] = runs(g[5], Give)
        /\ s = runs(g[6], Free3)
    BY <2>1, <2>3
  <2>5. g[2] = s0
    BY <1>1, <2>3, <2>4 DEF alone
  <2>6. g[5] = s3
    BY <1>2, <1>3, <1>4, <2>4, <2>5
  <2>7. s = s4
    BY <1>5, <2>4, <2>6 DEF return
  <2> QED BY <2>2, <2>7
<1>7. s3.ok
  <2>1. PICK q : q = runs(s3, Give)
    OBVIOUS
  <2>2. s4 = runs(q, Free3)
    BY <1>5, <2>1 DEF return
  <2>3. Len(Give) \in Nat \ {0} /\ Len(Free3) \in Nat \ {0}
    BY DEF Give, Free3
  <2>4. q.ok
    BY <1>6, <2>2, <2>3, RunsOk
  <2> QED BY <2>1, <2>3, <2>4, RunsOk
<1>8. s2.ok
  <2>1. Len(AllocFlags) \in Nat \ {0}
    BY DEF AllocFlags
  <2> QED BY <1>4, <1>7, <2>1, RunsOk
<1>9. s1.ok
  <2>1. Len(Take3) \in Nat \ {0}
    BY DEF Take3
  <2> QED BY <1>3, <1>8, <2>1, RunsOk
<1>10. s0.ok
  <2>1. Len(Free3) \in Nat \ {0}
    BY DEF Free3
  <2> QED BY <1>2, <1>9, <2>1, RunsOk
<1>11. PICK G, none : G = Unused(m, d, S) /\ none = {}
  OBVIOUS
<1>12. PICK k : Aside(k, m, d, G) /\ Play(s0, k, none, Null, Null, Null, Null, none)
  BY <1>1, <1>10, <1>11, AfterAlone
<1>13. PICK a, b, e : Three(k, a, b, e) /\ k.play = {a, b, e}
  BY <1>12 DEF Aside
<1>14. PICK T \in SUBSET Frame : T = k.play
  BY <1>12 DEF Aside
<1>15. Play(s1, k, T, Null, Null, Null, Null, none)
  <2>1. {a, b, e} \cap none = {} /\ T = none \cup {a, b, e}
    BY <1>11, <1>13, <1>14
  <2> QED BY <1>2, <1>9, <1>12, <1>13, <2>1, AfterFree3
<1>16. /\ s1.pp \in Pages3 /\ s1.mem \in Memory /\ IsFreeList(s1.mem, T)
       /\ s1.fl = k.fl /\ k.d = d /\ d \in Frame /\ d \notin T
       /\ s1.mem.tab[d][0] = Null /\ s1.mem.tab[d][1] = Null
       /\ \A va \in Va : s1.mem.tlb[va] = Null
       /\ Untouched(s1.mem, k)
  BY <1>11, <1>12, <1>14, <1>15 DEF Play, Scene, Aside, Dir
<1>17. PICK a2, b2, e2 : Took(s1, s2, T, a2, b2, e2)
  BY <1>3, <1>8, <1>16, AfterTake3
<1>18. {a2, b2, e2} = T /\ T \ {a2, b2, e2} = none
  BY <1>11, <1>13, <1>14, <1>17 DEF Took
<1>19. /\ s2.pp \in Pages3 /\ s2.fl = k.fl /\ s2.mem \in Memory /\ IsFreeList(s2.mem, none)
       /\ s2.mem.cr3 = s1.mem.cr3 /\ s2.mem.tlb = s1.mem.tlb
       /\ \A f \in Frame : s2.mem.tab[f] = s1.mem.tab[f]
       /\ \A f \in Frame \ T : s2.mem.pp_link[f] = s1.mem.pp_link[f]
  BY <1>16, <1>17, <1>18 DEF Took
<1>20. PICK k2 : k2 = [mem |-> k.mem, play |-> T, d |-> d, pp |-> s2.pp, fl |-> k.fl]
  OBVIOUS
<1>21. k2.mem = k.mem /\ k2.play = T /\ k2.d = d /\ k2.pp = s2.pp /\ k2.fl = k.fl
  BY <1>20
<1>22. Three(k2, a2, b2, e2) /\ k2.play = {a2, b2, e2}
  BY <1>17, <1>18, <1>21 DEF Three, Took
<1>23. Aside(k2, m, d, G)
  <2>1. IsFreeList([page_free_list |-> k2.fl, pp_link |-> k2.mem.pp_link], G \ k2.play)
    BY <1>12, <1>14, <1>21 DEF Aside
  <2> QED BY <1>12, <1>14, <1>19, <1>21, <1>22, <2>1 DEF Aside
<1>24. Untouched(s2.mem, k2)
  BY <1>14, <1>16, <1>19, <1>21 DEF Untouched
<1>25. Scene(s2.mem, k2, none, Null, Null, Null, Null, none)
  <2>1. none \subseteq k2.play
    BY <1>11
  <2>2. s2.mem.tab[d][0] = Null /\ s2.mem.tab[d][1] = Null
    BY <1>16, <1>19
  <2>3. \A va \in Va : s2.mem.tlb[va] = Null
    BY <1>16, <1>19
  <2> QED BY <1>16, <1>19, <1>21, <1>24, <2>1, <2>2, <2>3, SceneStart
<1>26. Play(s2, k2, none, Null, Null, Null, Null, none)
  BY <1>12, <1>21, <1>19, <1>25 DEF Play, Aside
<1>27. Play(s3, k2, none, Null, Null, Null, Null, none)
  BY <1>4, <1>7, <1>11, <1>22, <1>26, AfterAllocFlags
<1> QED
  BY <1>5, <1>6, <1>11, <1>23, <1>27, AfterReturn

\* check_page_installed_pgdir puts what it has taken back on the list.
LEMMA CheckInstalledKeeps ==
  ASSUME NEW m, NEW d, NEW S, NEW c, Kept(m, d, S, c), d = kern_pgdir, m.cr3 = d,
         NEW r, r = check_page_installed_pgdir(m), r.ok
  PROVE  Kept(r.mem, d, S, c) /\ r.mem.cr3 = d
<1>1. PICK q : q = began(m)
  OBVIOUS
<1>2. PICK s : s = runs(q, Take3)
  OBVIOUS
<1>3. r = runs(s, Installed)
  <2> DEFINE parts == <<Take3, Installed>>
  <2>1. Len(parts) = 2 /\ parts[1] = Take3 /\ parts[2] = Installed
    OBVIOUS
  <2>2. r = follow(m, parts)
    BY DEF check_page_installed_pgdir
  <2> HIDE DEF parts
  <2>3. PICK g : /\ g[0] = began(m) /\ g[2] = r
                 /\ \A k \in 1 .. 2 : g[k] = runs(g[k - 1], parts[k])
    <3>1. PICK n \in Nat : n = 2
      OBVIOUS
    <3>2. Len(parts) = n
      BY <2>1, <3>1
    <3>3. PICK g : Stations(m, parts, n, r, g)
      BY <2>2, <3>2, Parts
    <3> QED BY <3>1, <3>3 DEF Stations
  <2>4. g[1] = runs(g[0], Take3) /\ r = runs(g[1], Installed)
    BY <2>1, <2>3
  <2> QED BY <1>1, <1>2, <2>3, <2>4
<1>4. s.ok
  <2>1. Len(Installed) \in Nat \ {0}
    BY DEF Installed
  <2> QED BY <1>3, <2>1, RunsOk
<1>5. PICK G \in SUBSET Frame : G = Unused(m, d, S)
  BY DEF Kept, Unused
<1>6. /\ m \in Memory /\ d \in Frame /\ d \notin G
      /\ m.tab[d][0] = Null /\ m.tab[d][1] = Null /\ \A va \in Va : m.tlb[va] = Null
      /\ IsFreeList(m, G)
  BY <1>5 DEF Kept, Unused
<1>7. q.mem = m /\ q.pp \in Pages3
  BY <1>1 DEF began, Pages3
<1>8. PICK x, y, z : Took(q, s, G, x, y, z)
  BY <1>2, <1>4, <1>6, <1>7, AfterTake3
<1>9. PICK L : L = G \ {x, y, z}
  OBVIOUS
<1>10. /\ s.mem \in Memory /\ IsFreeList(s.mem, L)
       /\ s.mem.cr3 = m.cr3 /\ s.mem.tlb = m.tlb
       /\ \A f \in Frame : s.mem.tab[f] = m.tab[f]
       /\ \A f \in Frame \ G : s.mem.pp_link[f] = m.pp_link[f]
       /\ {x, y, z} \subseteq G
  BY <1>7, <1>8, <1>9 DEF Took
<1>11. PICK k : k = [mem |-> m, play |-> G, d |-> d, pp |-> s.pp, fl |-> s.fl]
  OBVIOUS
<1>12. k.mem = m /\ k.play = G /\ k.d = d /\ k.pp = s.pp /\ k.fl = s.fl
  BY <1>11
<1>13. Three(k, x, y, z)
  BY <1>8, <1>12 DEF Three, Took
<1>14. Untouched(s.mem, k)
  BY <1>6, <1>10, <1>12 DEF Untouched
<1>15. PICK W, none : none = {} /\ W = none \cup {V1}
  OBVIOUS
<1>16. Scene(s.mem, k, L, Null, Null, Null, Null, W)
  <2>1. L \subseteq k.play /\ k.play \subseteq Frame
    BY <1>9, <1>12
  <2>2. s.mem.tab[d][0] = Null /\ s.mem.tab[d][1] = Null
    BY <1>6, <1>10
  <2>3. \A va \in Va : s.mem.tlb[va] = Null
    BY <1>6, <1>10
  <2> QED BY <1>6, <1>10, <1>12, <1>14, <2>1, <2>2, <2>3, SceneStart
<1>17. Play(s, k, L, Null, Null, Null, Null, W)
  BY <1>12, <1>16 DEF Play
<1>18. Play(r, k, G, Null, Null, Null, Null, none)
  <2>1. {x, y, z} \cap L = {} /\ G = L \cup {x, y, z}
    BY <1>9, <1>10
  <2>2. V1 \in W /\ none = W \ {V1}
    BY <1>15
  <2>3. k.mem.cr3 = k.d
    BY <1>12
  <2> QED BY <1>3, <1>13, <1>17, <2>1, <2>2, <2>3, AfterInstalled
<1>19. Scene(r.mem, k, G, Null, Null, Null, Null, none)
  BY <1>18 DEF Play
<1>20. r.mem.cr3 = d
  BY <1>12, <1>19 DEF Scene, Untouched
<1> QED
  BY <1>5, <1>12, <1>15, <1>19, <1>20, KeptAgain

----------------------------------------------------------------------------
(* check_page_free_list and page_init: the order of the free list.         *)

\* FreeSeq finds the free list.
LEMMA FreeSeqList ==
  ASSUME NEW m, NEW F \in SUBSET Frame, IsFreeList(m, F),
         npages \in Nat, F \subseteq 0 .. npages - 1
  PROVE  \E n : Enum(FreeSeq(m), n, F)
<1>1. PICK N \in Nat : N = npages
  OBVIOUS
<1>2. Cardinality(F) <= N
  <2>1. IsFiniteSet(0 .. npages - 1) /\ Cardinality(0 .. npages - 1) = npages
    BY FS_Interval
  <2> QED BY <1>1, <2>1, FS_Subset
<1>3. PICK n, s : Followed(m, F, N, n, s)
  BY <1>2, ListFollowed
<1> n \in Nat /\ s \in [1 .. n -> F]
  BY <1>3 DEF Followed, Enum
<1>4. /\ Enum(s, n, F) /\ n = Cardinality(F)
  BY <1>3 DEF Followed
<1> DEFINE page == FollowFreeList(m, N)
           Some == {i \in 0 .. N - 1 : page[i] # Null}
<1>5. FreeSeq(m) = [i \in 1 .. Cardinality(Some) |-> page[i - 1]]
  BY <1>1 DEF FreeSeq
<1>6. \A i \in 0 .. N : page[i] = IF i < n THEN s[i + 1] ELSE Null
  BY <1>3 DEF Followed
<1> HIDE DEF page
<1>7. n <= N
  BY <1>2, <1>4
<1>8. Some = 0 .. n - 1
  <2>1. \A i \in 1 .. n : s[i] # Null
    OBVIOUS
  <2>2. ASSUME NEW i \in 0 .. N - 1 PROVE page[i] # Null <=> i < n
    <3>1. i \in 0 .. N /\ (i < n => i + 1 \in 1 .. n)
      OBVIOUS
    <3> QED BY <1>6, <2>1, <3>1
  <2>3. ASSUME NEW i \in Some PROVE i \in 0 .. n - 1
    BY <2>2
  <2>4. ASSUME NEW i \in 0 .. n - 1 PROVE i \in Some
    <3>1. i \in 0 .. N - 1 /\ i < n
      BY <1>7
    <3> QED BY <2>2, <3>1
  <2> QED BY <2>3, <2>4
<1>9. Cardinality(Some) = n
  <2>1. Cardinality(0 .. n - 1) = n
    BY FS_Interval
  <2> QED BY <1>8, <2>1
<1> HIDE DEF Some
<1>10. FreeSeq(m) = s
  <2>1. ASSUME NEW i \in 1 .. n PROVE page[i - 1] = s[i]
    <3>1. i - 1 \in 0 .. N /\ i - 1 < n /\ (i - 1) + 1 = i
      BY <1>7
    <3> QED BY <1>6, <3>1
  <2>2. FreeSeq(m) = [i \in 1 .. n |-> page[i - 1]]
    BY <1>5, <1>9
  <2> QED BY <2>1, <2>2
<1> QED
  BY <1>4, <1>10

\* What Those has found in the first k elements of s.
Finds(s, T, k, g) ==
  g = [i \in 0 .. k |-> IF i = 0 THEN <<>>
                        ELSE IF s[i] \in T THEN Append(g[i - 1], s[i]) ELSE g[i - 1]]

\* Those has a value for each number of elements.
LEMMA FindsExists ==
  ASSUME NEW s, NEW T, NEW n \in Nat
  PROVE  \E g : Finds(s, T, n, g)
<1> DEFINE Bad == {k \in 0 .. n : ~ \E g : Finds(s, T, k, g)}
<1> SUFFICES ASSUME Bad # {} PROVE FALSE
  OBVIOUS
<1>1. PICK x \in Bad : \A y \in Bad : x <= y
  <2>1. Bad \in SUBSET Nat
    OBVIOUS
  <2> HIDE DEF Bad
  <2> QED BY <2>1, LeastExists
<1>2. x \in 0 .. n /\ ~ \E g : Finds(s, T, x, g)
  OBVIOUS
<1>3. x # 0
  <2> SUFFICES ASSUME x = 0 PROVE FALSE
    OBVIOUS
  <2> DEFINE h == [i \in 0 .. 0 |-> <<>>]
  <2>1. Finds(s, T, 0, h)
    BY DEF Finds
  <2> QED BY <1>2, <2>1
<1>4. x - 1 \in 0 .. n /\ x - 1 \notin Bad
  BY <1>1, <1>2, <1>3
<1>5. PICK g : Finds(s, T, x - 1, g)
  BY <1>4
<1> HIDE DEF Bad
<1>6. \A i \in 0 .. x - 1 : g[i] = IF i = 0 THEN <<>>
                        ELSE IF s[i] \in T THEN Append(g[i - 1], s[i]) ELSE g[i - 1]
  BY <1>5 DEF Finds
<1> DEFINE h == [i \in 0 .. x |-> IF i < x THEN g[i]
                                  ELSE IF s[x] \in T THEN Append(g[x - 1], s[x]) ELSE g[x - 1]]
<1>7. ASSUME NEW i \in 0 .. x
      PROVE  h[i] = IF i = 0 THEN <<>>
                    ELSE IF s[i] \in T THEN Append(h[i - 1], s[i]) ELSE h[i - 1]
  <2>1. CASE i = x
    <3>1. x - 1 \in 0 .. x /\ x - 1 < x
      BY <1>2, <1>3
    <3>2. h[i - 1] = g[x - 1]
      BY <2>1, <3>1
    <3>3. h[i] = IF s[x] \in T THEN Append(g[x - 1], s[x]) ELSE g[x - 1]
      BY <2>1
    <3> QED BY <1>3, <2>1, <3>2, <3>3
  <2>2. CASE i # x
    <3>1. i \in 0 .. x - 1 /\ i < x /\ i \in 0 .. x
      BY <1>2, <2>2
    <3>2. h[i] = g[i]
      BY <3>1
    <3>3. i # 0 => i - 1 \in 0 .. x /\ i - 1 < x
      BY <1>2, <3>1
    <3>4. i # 0 => h[i - 1] = g[i - 1]
      BY <3>3
    <3> QED BY <1>6, <3>1, <3>2, <3>4
  <2> QED BY <2>1, <2>2
<1>8. h = [i \in 0 .. x |-> IF i = 0 THEN <<>>
                        ELSE IF s[i] \in T THEN Append(h[i - 1], s[i]) ELSE h[i - 1]]
  BY <1>7
<1>9. Finds(s, T, x, h)
  <2> HIDE DEF h
  <2> QED BY <1>8 DEF Finds
<1> QED
  BY <1>2, <1>9

\* Those keeps the pages of T, once each.
LEMMA ThoseEnum ==
  ASSUME NEW s, NEW n, NEW F, Enum(s, n, F), NEW T
  PROVE  \E k : Enum(Those(s, T), k, F \cap T)
<1> n \in Nat /\ s \in [1 .. n -> F] /\ F \subseteq Frame
  BY DEF Enum
<1>1. Len(s) = n
  OBVIOUS
<1> DEFINE Step(g) == [i \in 0 .. n |-> IF i = 0 THEN <<>>
                        ELSE IF s[i] \in T THEN Append(g[i - 1], s[i]) ELSE g[i - 1]]
           upto == CHOOSE g : g = Step(g)
<1>2. \E g : g = Step(g)
  <2>1. PICK g : Finds(s, T, n, g)
    BY FindsExists
  <2>2. g = Step(g)
    BY <2>1 DEF Finds
  <2> HIDE DEF Step
  <2> QED BY <2>2
<1>3. upto = Step(upto)
  BY <1>2
<1>4. Those(s, T) = upto[n]
  BY <1>1 DEF Those
<1> HIDE DEF upto
<1>5. \A i \in 0 .. n : upto[i] = IF i = 0 THEN <<>>
                        ELSE IF s[i] \in T THEN Append(upto[i - 1], s[i]) ELSE upto[i - 1]
  BY <1>3
<1> DEFINE Found(i) == {f \in F \cap T : \E j \in 1 .. i : s[j] = f}
           Good(i) == \E k : Enum(upto[i], k, Found(i))
<1>6. \A i \in 0 .. n : Good(i)
  <2> DEFINE Bad == {i \in 0 .. n : ~ Good(i)}
  <2> SUFFICES ASSUME Bad # {} PROVE FALSE
    OBVIOUS
  <2>1. PICK x \in Bad : \A y \in Bad : x <= y
    <3>1. Bad \in SUBSET Nat
      OBVIOUS
    <3> HIDE DEF Bad
    <3> QED BY <3>1, LeastExists
  <2>2. x \in 0 .. n /\ ~ Good(x)
    OBVIOUS
  <2>3. x # 0
    <3> SUFFICES ASSUME x = 0 PROVE FALSE
      OBVIOUS
    <3>1. Found(0) = {} /\ upto[0] = <<>>
      BY <1>5
    <3> DEFINE none == <<>>
    <3>2. Enum(none, 0, {})
      BY DEF Enum
    <3>3. Good(0)
      BY <3>1, <3>2
    <3> QED BY <2>2, <3>3
  <2>4. x - 1 \in 0 .. n /\ x - 1 \notin Bad
    <3>1. x - 1 \in 0 .. n /\ ~ (x <= x - 1)
      BY <2>2, <2>3
    <3> HIDE DEF Bad
    <3> QED BY <2>1, <3>1
  <2>5. Good(x - 1)
    BY <2>4
  <2> HIDE DEF Bad
  <2>6. PICK q, k : q = upto[x - 1] /\ Enum(q, k, Found(x - 1))
    BY <2>5
  <2> HIDE DEF Good
  <2>7. x \in 1 .. n /\ s[x] \in F
    BY <2>2, <2>3
  <2>8. CASE s[x] \in T
    <3>1. upto[x] = Append(q, s[x])
      BY <1>5, <2>2, <2>3, <2>6, <2>8
    <3>2. k \in Nat /\ q \in [1 .. k -> Found(x - 1)]
      BY <2>6 DEF Enum
    <3>3. q \in Seq(Frame) /\ Len(q) = k /\ s[x] \in Frame
      BY <2>7, <3>2
    <3> DEFINE r == Append(q, s[x])
    <3>4. /\ r \in Seq(Frame) /\ Len(r) = k + 1
          /\ \A i \in 1 .. k : r[i] = q[i]
          /\ r[k + 1] = s[x]
      BY <3>3
    <3> HIDE DEF r
    <3>5. Found(x) = Found(x - 1) \cup {s[x]}
      <4>1. ASSUME NEW f, f \in Found(x) PROVE f \in Found(x - 1) \cup {s[x]}
        <5>1. PICK j \in 1 .. x : s[j] = f
          BY <4>1
        <5>2. j = x \/ j \in 1 .. x - 1
          BY <2>7
        <5> QED BY <4>1, <5>1, <5>2
      <4>2. ASSUME NEW f, f \in Found(x - 1) PROVE f \in Found(x)
        <5>1. PICK j \in 1 .. x - 1 : s[j] = f
          BY <4>2
        <5>2. j \in 1 .. x
          BY <2>7
        <5> QED BY <4>2, <5>1, <5>2
      <4>3. s[x] \in Found(x)
        <5>1. x \in 1 .. x
          BY <2>7
        <5> QED BY <2>7, <2>8, <5>1
      <4> QED BY <4>1, <4>2, <4>3
    <3>6. s[x] \notin Found(x - 1)
      <4> SUFFICES ASSUME NEW j \in 1 .. x - 1, s[j] = s[x] PROVE FALSE
        OBVIOUS
      <4>1. j \in 1 .. n /\ j # x
        BY <2>7
      <4> QED BY <2>7, <4>1 DEF Enum
    <3>7. Found(x) \subseteq Frame
      OBVIOUS
    <3> HIDE DEF Found
    <3>8. Enum(r, k + 1, Found(x))
      <4>1. \A i \in 1 .. k + 1 : i \in 1 .. k \/ i = k + 1
        BY <3>2
      <4>2. r \in [1 .. k + 1 -> Found(x)]
        <5>1. \A i \in 1 .. k + 1 : r[i] \in Found(x)
          BY <3>2, <3>4, <3>5, <4>1
        <5> QED BY <3>2, <3>4, <5>1
      <4>3. ASSUME NEW p \in Found(x) PROVE \E i \in 1 .. k + 1 : r[i] = p
        <5>1. CASE p = s[x]
          BY <3>2, <3>4, <5>1
        <5>2. CASE p # s[x]
          <6>1. PICK i \in 1 .. k : q[i] = p
            BY <2>6, <3>5, <5>2 DEF Enum
          <6>2. i \in 1 .. k + 1
            BY <3>2
          <6> QED BY <3>4, <6>1, <6>2
        <5> QED BY <5>1, <5>2
      <4>4. ASSUME NEW i \in 1 .. k + 1, NEW j \in 1 .. k + 1, r[i] = r[j] PROVE i = j
        <5>1. \A h \in 1 .. k : r[h] # s[x]
          BY <3>2, <3>4, <3>6
        <5>2. \A a, b \in 1 .. k : q[a] = q[b] => a = b
          BY <2>6 DEF Enum
        <5> QED BY <3>4, <4>1, <4>4, <5>1, <5>2
      <4> QED BY <3>2, <3>7, <4>2, <4>3, <4>4 DEF Enum
    <3>9. Good(x)
      BY <3>1, <3>8 DEF r, Good
    <3> QED BY <2>2, <3>9
  <2>9. CASE s[x] \notin T
    <3>1. upto[x] = q
      BY <1>5, <2>2, <2>3, <2>6, <2>9
    <3>2. Found(x) = Found(x - 1)
      <4>1. ASSUME NEW f, f \in Found(x) PROVE f \in Found(x - 1)
        <5>1. PICK j \in 1 .. x : s[j] = f
          BY <4>1
        <5>2. j \in 1 .. x - 1
          BY <2>7, <2>9, <4>1, <5>1
        <5> QED BY <4>1, <5>1, <5>2
      <4>2. ASSUME NEW f, f \in Found(x - 1) PROVE f \in Found(x)
        <5>1. PICK j \in 1 .. x - 1 : s[j] = f
          BY <4>2
        <5>2. j \in 1 .. x
          BY <2>7
        <5> QED BY <4>2, <5>1, <5>2
      <4> QED BY <4>1, <4>2
    <3>3. Good(x)
      BY <2>6, <3>1, <3>2 DEF Good
    <3> QED BY <2>2, <3>3
  <2> QED BY <2>8, <2>9
<1>7. Found(n) = F \cap T
  BY DEF Enum
<1> HIDE DEF Found
<1>8. PICK k : Enum(upto[n], k, Found(n))
  <2>1. n \in 0 .. n
    OBVIOUS
  <2> QED BY <1>6, <2>1
<1> QED
  BY <1>4, <1>7, <1>8

\* One list after another.
LEMMA ConcatEnum ==
  ASSUME NEW s, NEW n, NEW F, Enum(s, n, F), NEW t, NEW k, NEW G, Enum(t, k, G), F \cap G = {}
  PROVE  Enum(s \o t, n + k, F \cup G)
<1> /\ n \in Nat /\ s \in [1 .. n -> F] /\ F \subseteq Frame
    /\ k \in Nat /\ t \in [1 .. k -> G] /\ G \subseteq Frame
  BY DEF Enum
<1> DEFINE r == s \o t
<1>1. s \in Seq(Frame) /\ t \in Seq(Frame) /\ Len(s) = n /\ Len(t) = k
  OBVIOUS
<1>2. /\ r \in Seq(Frame) /\ Len(r) = n + k
      /\ \A i \in 1 .. n + k : r[i] = IF i <= n THEN s[i] ELSE t[i - n]
  BY <1>1
<1> HIDE DEF r
<1>3. \A i \in 1 .. n : i \in 1 .. n + k /\ r[i] = s[i]
  BY <1>2
<1>4. \A i \in 1 .. k : n + i \in 1 .. n + k /\ r[n + i] = t[i]
  <2> TAKE i \in 1 .. k
  <2>1. n + i \in 1 .. n + k /\ ~ (n + i <= n) /\ (n + i) - n = i
    OBVIOUS
  <2> QED BY <1>2, <2>1
<1>5. \A i \in 1 .. n + k : i \in 1 .. n \/ \E j \in 1 .. k : i = n + j
  <2> TAKE i \in 1 .. n + k
  <2>1. i \in 1 .. n \/ (i - n \in 1 .. k /\ i = n + (i - n))
    OBVIOUS
  <2> QED BY <2>1
<1>6. r \in [1 .. n + k -> F \cup G]
  <2>1. ASSUME NEW i \in 1 .. n + k PROVE r[i] \in F \cup G
    BY <1>3, <1>4, <1>5
  <2> QED BY <1>2, <2>1
<1>7. ASSUME NEW p \in F \cup G PROVE \E i \in 1 .. n + k : r[i] = p
  <2>1. CASE p \in F
    <3>1. PICK i \in 1 .. n : s[i] = p
      BY <2>1 DEF Enum
    <3> QED BY <1>3, <3>1
  <2>2. CASE p \in G
    <3>1. PICK i \in 1 .. k : t[i] = p
      BY <2>2 DEF Enum
    <3> QED BY <1>4, <3>1
  <2> QED BY <2>1, <2>2
<1>8. ASSUME NEW i \in 1 .. n + k, NEW j \in 1 .. n + k, r[i] = r[j] PROVE i = j
  <2>1. \A a, b \in 1 .. n : s[a] = s[b] => a = b
    BY DEF Enum
  <2>2. \A a, b \in 1 .. k : t[a] = t[b] => a = b
    BY DEF Enum
  <2>3. CASE i \in 1 .. n /\ j \in 1 .. n
    BY <1>3, <1>8, <2>1, <2>3
  <2>4. CASE i \in 1 .. n /\ j \notin 1 .. n
    <3>1. PICK b \in 1 .. k : j = n + b
      BY <1>5, <2>4
    <3>2. r[i] = s[i] /\ r[j] = t[b]
      BY <1>3, <1>4, <2>4, <3>1
    <3> QED BY <1>8, <2>4, <3>2
  <2>5. CASE i \notin 1 .. n /\ j \in 1 .. n
    <3>1. PICK a \in 1 .. k : i = n + a
      BY <1>5, <2>5
    <3>2. r[i] = t[a] /\ r[j] = s[j]
      BY <1>3, <1>4, <2>5, <3>1
    <3> QED BY <1>8, <2>5, <3>2
  <2>6. CASE i \notin 1 .. n /\ j \notin 1 .. n
    <3>1. PICK a \in 1 .. k : i = n + a
      BY <1>5, <2>6
    <3>2. PICK b \in 1 .. k : j = n + b
      BY <1>5, <2>6
    <3>3. t[a] = t[b]
      BY <1>4, <1>8, <3>1, <3>2
    <3> QED BY <2>2, <3>1, <3>2, <3>3
  <2> QED BY <2>3, <2>4, <2>5, <2>6
<1>9. Enum(r, n + k, F \cup G)
  BY <1>6, <1>7, <1>8 DEF Enum
<1> QED
  BY <1>9 DEF r

\* A list backwards.
LEMMA ReverseEnum ==
  ASSUME NEW s, NEW n, NEW F, Enum(s, n, F)
  PROVE  Enum([i \in 1 .. Len(s) |-> s[Len(s) + 1 - i]], n, F)
<1> n \in Nat /\ s \in [1 .. n -> F] /\ F \subseteq Frame
  BY DEF Enum
<1>1. Len(s) = n
  OBVIOUS
<1> DEFINE r == [i \in 1 .. n |-> s[n + 1 - i]]
<1>2. \A i \in 1 .. n : n + 1 - i \in 1 .. n /\ n + 1 - (n + 1 - i) = i
  OBVIOUS
<1>3. r \in [1 .. n -> F] /\ \A i \in 1 .. n : r[i] = s[n + 1 - i]
  BY <1>2
<1> HIDE DEF r
<1>4. ASSUME NEW p \in F PROVE \E i \in 1 .. n : r[i] = p
  <2>1. PICK i \in 1 .. n : s[i] = p
    BY DEF Enum
  <2>2. PICK j \in 1 .. n : j = n + 1 - i
    BY <1>2
  <2> QED BY <1>2, <1>3, <2>1, <2>2
<1>5. ASSUME NEW i \in 1 .. n, NEW j \in 1 .. n, r[i] = r[j] PROVE i = j
  <2>1. n + 1 - i = n + 1 - j
    BY <1>2, <1>3, <1>5 DEF Enum
  <2> QED BY <2>1
<1>6. Enum(r, n, F)
  BY <1>3, <1>4, <1>5 DEF Enum
<1> QED
  BY <1>1, <1>6 DEF r

\* Moving the low pages to the front leaves the same pages on the list.
LEMMA LowFirst ==
  ASSUME NEW m \in Memory, NEW F \in SUBSET Frame, IsFreeList(m, F),
         npages \in Nat, F \subseteq 0 .. npages - 1, NEW n, n = low_first(m)
  PROVE  /\ n \in Memory /\ IsFreeList(n, F)
         /\ n.tab = m.tab /\ n.cr3 = m.cr3 /\ n.tlb = m.tlb
<1>1. PICK s, c : s = FreeSeq(m) /\ Enum(s, c, F)
  BY FreeSeqList
<1>2. PICK A, B : A = {p \in Frame : Low(p)} /\ B = {p \in Frame : ~Low(p)}
  OBVIOUS
<1>3. PICK a : Enum(Those(s, A), a, F \cap A)
  BY <1>1, ThoseEnum
<1>4. PICK b : Enum(Those(s, B), b, F \cap B)
  BY <1>1, ThoseEnum
<1>5. (F \cap A) \cap (F \cap B) = {} /\ (F \cap A) \cup (F \cap B) = F
  BY <1>2
<1>6. PICK list : list = Those(s, A) \o Those(s, B)
  OBVIOUS
<1>7. Enum(list, a + b, F)
  BY <1>3, <1>4, <1>5, <1>6, ConcatEnum
<1>8. PICK r : r = [i \in 1 .. Len(list) |-> list[Len(list) + 1 - i]]
  OBVIOUS
<1>9. Enum(r, a + b, F)
  BY <1>7, <1>8, ReverseEnum
<1>10. n = [m EXCEPT !.pp_link = page_init(r).link, !.page_free_list = page_init(r).head]
  BY <1>1, <1>2, <1>6, <1>8 DEF low_first
<1>11. n.page_free_list = page_init(r).head /\ n.pp_link = page_init(r).link
  BY <1>10 DEF Memory
<1>12. PagesPushed(n, F, a + b, r)
  BY <1>9, <1>11 DEF PagesPushed
<1>13. /\ IsFreeList(n, F) /\ n.page_free_list \in Frame \cup {Null}
       /\ n.pp_link \in [Frame -> Frame \cup {Null}]
  BY <1>12, PageInitList
<1> QED
  BY <1>10, <1>13 DEF Memory

\* check_page_free_list scribbles over free pages only.
LEMMA CheckFreeListKeeps ==
  ASSUME NEW m, NEW d, NEW S, NEW c, Kept(m, d, S, c),
         npages \in Nat, S \subseteq 0 .. npages - 1,
         NEW low \in BOOLEAN, NEW r, r = check_page_free_list(m, low)
  PROVE  Kept(r.mem, d, S, c) /\ r.mem.cr3 = m.cr3
<1>1. PICK F \in SUBSET Frame : F = Unused(m, d, S)
  BY DEF Kept, Unused
<1>2. m \in Memory /\ d \in Frame /\ d \notin F /\ IsFreeList(m, F) /\ F \subseteq 0 .. npages - 1
  BY <1>1 DEF Kept, Unused
<1>3. PICK n : n = IF low THEN low_first(m) ELSE m
  OBVIOUS
<1>4. /\ n \in Memory /\ IsFreeList(n, F)
      /\ n.tab = m.tab /\ n.cr3 = m.cr3 /\ n.tlb = m.tlb
  <2>1. CASE low
    BY <1>2, <1>3, <2>1, LowFirst
  <2>2. CASE ~low
    BY <1>2, <1>3, <2>2
  <2> QED BY <2>1, <2>2
<1>5. PICK s, e : s = FreeSeq(n) /\ Enum(s, e, F)
  BY <1>2, <1>4, FreeSeqList
<1>6. PICK free : free = {s[i] : i \in 1 .. Len(s)}
  OBVIOUS
<1>7. free \subseteq F
  <2>1. e \in Nat /\ s \in [1 .. e -> F] /\ Len(s) = e
    BY <1>5 DEF Enum
  <2> QED BY <1>6, <2>1
<1>8. PICK new : new = [f \in Frame |-> IF f \in free /\ (low => Low(f)) THEN Junk(f) ELSE n.tab[f]]
  OBVIOUS
<1>9. r.mem = [n EXCEPT !.tab = new]
  BY <1>3, <1>5, <1>6, <1>8 DEF check_page_free_list
<1>10. new \in [Frame -> [Ix -> Cell]]
  <2>1. ASSUME NEW f \in Frame PROVE Junk(f) \in [Ix -> Cell]
    BY MemInitAssumption DEF Junk, Cell
  <2>2. n.tab \in [Frame -> [Ix -> Cell]]
    BY <1>4 DEF Memory
  <2> QED BY <1>8, <2>1, <2>2
<1>11. /\ r.mem \in Memory /\ r.mem.tab = new /\ r.mem.cr3 = n.cr3 /\ r.mem.tlb = n.tlb
       /\ r.mem.page_free_list = n.page_free_list /\ r.mem.pp_link = n.pp_link
  BY <1>4, <1>9, <1>10 DEF Memory
<1>12. \A f \in Frame \ F : new[f] = m.tab[f]
  BY <1>4, <1>7, <1>8
<1>13. IsFreeList(r.mem, F)
  BY <1>4, <1>11, FreeListSame
<1>14. \A va \in Va : r.mem.tlb[va] = Null
  BY <1>4, <1>11 DEF Kept
<1>15. \A i \in Ix : r.mem.tab[d][i] = m.tab[d][i]
  BY <1>2, <1>11, <1>12
<1>16. \A f \in Frame \ F : f # d => r.mem.tab[f] = m.tab[f]
  BY <1>11, <1>12
<1>17. r.mem.cr3 = m.cr3
  BY <1>4, <1>11
<1>18. Kept(r.mem, d, S, c)
  BY <1>1, <1>11, <1>13, <1>14, <1>15, <1>16, KeptSame
<1> QED
  BY <1>17, <1>18

----------------------------------------------------------------------------
(* Arithmetic *)

\* Quotient and remainder.
Divided(a, n, q, r) == q = a \div n /\ r = a % n

\* They make the number up again.
LEMMA Division ==
  ASSUME NEW a \in Nat, NEW n, n \in Nat \ {0}, NEW q, NEW r, Divided(a, n, q, r)
  PROVE  q \in Nat /\ r \in 0 .. n - 1 /\ a = q * n + r
<1>1. r \in 0 .. n - 1 /\ q \in Nat
  BY DEF Divided
<1>2. a = q * n + r
  BY DEF Divided
<1> QED
  BY <1>1, <1>2

\* They are the only ones.
LEMMA DivisionUnique ==
  ASSUME NEW n \in Nat \ {0}, NEW q \in Nat, NEW r \in 0 .. n - 1,
         NEW q2 \in Nat, NEW r2 \in 0 .. n - 1, q * n + r = q2 * n + r2
  PROVE  q = q2 /\ r = r2
<1>1. ASSUME NEW x \in Nat, NEW y \in Nat, x < y PROVE x * n + n <= y * n
  <2>1. PICK z \in Nat : y = x + 1 + z
    <3>1. y - x - 1 \in Nat /\ y = x + 1 + (y - x - 1)
      BY <1>1
    <3> QED BY <3>1
  <2>2. y * n = x * n + n + z * n
    BY <2>1
  <2>3. z * n \in Nat /\ x * n \in Nat /\ y * n \in Nat
    OBVIOUS
  <2> QED BY <2>2, <2>3
<1>2. q * n \in Nat /\ q2 * n \in Nat
  OBVIOUS
<1>3. ~ (q < q2)
  <2> SUFFICES ASSUME q < q2 PROVE FALSE
    OBVIOUS
  <2>1. q * n + n <= q2 * n
    BY <1>1
  <2> QED BY <1>2, <2>1
<1>4. ~ (q2 < q)
  <2> SUFFICES ASSUME q2 < q PROVE FALSE
    OBVIOUS
  <2>1. q2 * n + n <= q * n
    BY <1>1
  <2> QED BY <1>2, <2>1
<1>5. q = q2
  BY <1>3, <1>4
<1> QED
  BY <1>2, <1>5

\* A product grows with its factors.
LEMMA ProductMonotone ==
  ASSUME NEW a \in Nat, NEW b \in Nat, a <= b, NEW n \in Nat
  PROVE  a * n \in Nat /\ b * n \in Nat /\ a * n <= b * n
<1>1. PICK z \in Nat : b = a + z
  <2>1. b - a \in Nat /\ b = a + (b - a)
    OBVIOUS
  <2> QED BY <2>1
<1>2. b * n = a * n + z * n
  BY <1>1
<1>3. a * n \in Nat /\ z * n \in Nat /\ b * n \in Nat
  OBVIOUS
<1> QED
  BY <1>2, <1>3

\* Rounding up to whole pages.
LEMMA RoundUpIs ==
  ASSUME NEW a \in Nat
  PROVE  RoundUp(a) \in Nat /\ a <= RoundUp(a)
<1>1. PGSIZE \in Nat \ {0}
  BY Zenon, Constants
<1> DEFINE b == a + PGSIZE - 1
<1>2. b \in Nat
  BY <1>1
<1> HIDE DEF b
<1>3. PICK q, r : Divided(b, PGSIZE, q, r)
  BY DEF Divided
<1>4. q \in Nat /\ r \in 0 .. PGSIZE - 1 /\ b = q * PGSIZE + r
  BY <1>1, <1>2, <1>3, Division
<1>5. RoundUp(a) = q * PGSIZE
  BY <1>3 DEF RoundUp, b, Divided
<1>6. q * PGSIZE \in Nat
  BY <1>1, <1>4
<1>7. b = a + PGSIZE - 1
  BY DEF b
<1> QED
  BY <1>1, <1>4, <1>5, <1>6, <1>7

\* The page that an address above another one by a page or more lies in comes
\* after that one's.
LEMMA NextPage ==
  ASSUME NEW a \in Nat, NEW b \in Nat
  PROVE  /\ a \div PGSIZE \in Nat
         /\ a <= b => a \div PGSIZE <= b \div PGSIZE
         /\ a + PGSIZE <= b => a \div PGSIZE < b \div PGSIZE
<1>1. PGSIZE \in Nat \ {0}
  BY Zenon, Constants
<1>2. PICK q, r : Divided(a, PGSIZE, q, r)
  BY DEF Divided
<1>3. PICK x, y : Divided(b, PGSIZE, x, y)
  BY DEF Divided
<1>4. q \in Nat /\ r \in 0 .. PGSIZE - 1 /\ a = q * PGSIZE + r
  BY <1>1, <1>2, Division
<1>5. x \in Nat /\ y \in 0 .. PGSIZE - 1 /\ b = x * PGSIZE + y
  BY <1>1, <1>3, Division
<1>6. ASSUME x < q PROVE b < a
  <2>1. x + 1 \in Nat /\ x + 1 <= q /\ PGSIZE \in Nat
    BY <1>1, <1>4, <1>5, <1>6
  <2>2. (x + 1) * PGSIZE <= q * PGSIZE /\ q * PGSIZE \in Nat
    BY <1>4, <2>1, ProductMonotone
  <2>3. (x + 1) * PGSIZE = x * PGSIZE + PGSIZE /\ x * PGSIZE \in Nat
    BY <1>1, <1>5
  <2> QED BY <1>1, <1>4, <1>5, <2>2, <2>3
<1>7. ASSUME x <= q PROVE b < a + PGSIZE
  <2>1. x * PGSIZE <= q * PGSIZE /\ q * PGSIZE \in Nat /\ x * PGSIZE \in Nat
    BY <1>1, <1>4, <1>5, <1>7, ProductMonotone
  <2> QED BY <1>1, <1>4, <1>5, <2>1
<1>8. q = a \div PGSIZE /\ x = b \div PGSIZE
  BY <1>2, <1>3 DEF Divided
<1> QED
  BY <1>1, <1>4, <1>5, <1>6, <1>7, <1>8

\* The comparison of boot_alloc, with its unsigned sum that may wrap around: it
\* passes only with less memory than fits above KERNBASE, and then what has been
\* handed out lies within it.
LEMMA Fits ==
  ASSUME npages \in Nat, npages <= NPT * NPT, NEW x \in Nat, x > 0,
         ~ (KERNBASE + x > (KERNBASE + npages * PGSIZE) % ADDRS)
  PROVE  npages < MaxPages /\ npages * PGSIZE \in Nat /\ x <= npages * PGSIZE
<1>1. /\ NPT \in Nat \ {0} /\ PGSIZE \in Nat \ {0} /\ KB \in Nat /\ KB < NPT
  BY Zenon, Constants, Numbers
<1>2. PICK K \in Nat, M \in Nat : K = KB * NPT /\ M = MaxPages
  <2>1. KB * NPT \in Nat
    BY <1>1
  <2>2. NPT - KB \in Nat /\ NPT \in Nat
    BY <1>1
  <2>3. MaxPages \in Nat
    BY <2>2 DEF MaxPages
  <2> QED BY <2>1, <2>3
<1>3. NPT * NPT = K + M /\ M > 0
  <2>1. PICK z \in Nat : NPT = KB + z /\ z = NPT - KB /\ z >= 1
    BY <1>1
  <2>2. M = z * NPT
    BY <1>2, <2>1 DEF MaxPages
  <2>3. NPT * NPT = KB * NPT + z * NPT
    BY <1>1, <2>1
  <2>4. 1 * NPT <= z * NPT /\ 1 * NPT = NPT
    BY <1>1, <2>1, ProductMonotone
  <2> QED BY <1>1, <1>2, <2>2, <2>3, <2>4
<1>4. PICK B \in Nat, E \in Nat, T \in Nat : B = K * PGSIZE /\ E = M * PGSIZE /\ T = npages * PGSIZE
  BY <1>1
<1>5. KERNBASE = B
  BY <1>2, <1>4 DEF KERNBASE
<1>6. PICK A \in Nat \ {0} : A = ADDRS /\ A = B + E
  <2>1. ADDRS = (K + M) * PGSIZE
    BY <1>3 DEF ADDRS
  <2>2. (K + M) * PGSIZE = B + E
    BY <1>1, <1>4
  <2>3. 1 * PGSIZE <= M * PGSIZE /\ 1 * PGSIZE = PGSIZE
    BY <1>1, <1>3, ProductMonotone
  <2>4. B + E \in Nat \ {0}
    BY <1>1, <1>4, <2>3
  <2> QED BY <2>1, <2>2, <2>4
<1>7. PICK q, r : Divided(B + T, A, q, r)
  BY DEF Divided
<1>8. q \in Nat /\ r \in 0 .. A - 1 /\ B + T = q * A + r
  <2>1. B + T \in Nat /\ A \in Nat \ {0}
    OBVIOUS
  <2> QED BY <1>7, <2>1, Division
<1>9. B + x <= r
  <2>1. r = (KERNBASE + npages * PGSIZE) % ADDRS
    BY <1>4, <1>5, <1>6, <1>7 DEF Divided
  <2>2. B + x > r \/ B + x <= r
    BY <1>8
  <2> QED BY <1>5, <2>1, <2>2
<1>10. T <= B + E
  <2>1. npages * PGSIZE <= (K + M) * PGSIZE
    BY <1>1, <1>3, ProductMonotone
  <2>2. (K + M) * PGSIZE = B + E
    BY <1>1, <1>4
  <2> QED BY <1>4, <2>1, <2>2
<1>11. npages < M
  <2> SUFFICES ASSUME M <= npages PROVE FALSE
    OBVIOUS
  <2>1. M * PGSIZE <= npages * PGSIZE
    BY <1>1, ProductMonotone
  <2>2. E <= T
    BY <1>4, <2>1
  <2>3. PICK one \in Nat, y \in Nat : one = 1 /\ y = B + T - A
    BY <1>6, <2>2
  <2>4. E > 0
    <3>1. 1 * PGSIZE <= M * PGSIZE /\ 1 * PGSIZE = PGSIZE
      BY <1>1, <1>3, ProductMonotone
    <3> QED BY <1>1, <1>4, <3>1
  <2>5. y \in 0 .. A - 1 /\ one * A + y = B + T /\ y <= B
    BY <1>6, <1>10, <2>3, <2>4
  <2>6. r = y
    BY <1>8, <2>3, <2>5, DivisionUnique
  <2> QED BY <1>8, <1>9, <2>5, <2>6
<1>12. T < E
  <2>1. npages + 1 \in Nat /\ npages + 1 <= M
    BY <1>11
  <2>2. (npages + 1) * PGSIZE <= M * PGSIZE
    BY <1>1, <2>1, ProductMonotone
  <2>3. (npages + 1) * PGSIZE = T + PGSIZE
    BY <1>1, <1>4
  <2> QED BY <1>1, <1>4, <2>2, <2>3
<1>13. r = B + T
  <2>1. PICK zero \in Nat, y \in Nat : zero = 0 /\ y = B + T
    OBVIOUS
  <2>2. y \in 0 .. A - 1 /\ zero * A + y = B + T
    BY <1>6, <1>12, <2>1
  <2>3. r = y
    BY <1>8, <2>1, <2>2, DivisionUnique
  <2> QED BY <2>1, <2>3
<1> QED
  BY <1>2, <1>4, <1>9, <1>11, <1>13

----------------------------------------------------------------------------
(* The steps up to page_init.                                              *)

\* What a boot_alloc that does not panic gives lies below the new nextfree.
LEMMA BootAllocGives ==
  ASSUME Sizes, NEW n \in Nat, NEW here, NEW next, BootAlloc(here, n, next), stage' # "panic"
  PROVE  /\ Sizes' /\ npages' = npages /\ stage = here /\ stage' = next
         /\ nextfree \div PGSIZE \in Nat /\ EXTPAGE <= nextfree \div PGSIZE
         /\ nextfree + n <= nextfree'
         /\ ~ (KERNBASE + nextfree' > (KERNBASE + npages * PGSIZE) % ADDRS)
<1>1. PICK x : x = RoundUp(nextfree + n)
  OBVIOUS
<1>2. nextfree \in Nat /\ nextfree + n \in Nat /\ nextfree <= nextfree + n
  BY DEF Sizes
<1>3. x \in Nat /\ nextfree + n <= x
  BY <1>1, <1>2, RoundUpIs
<1>4. /\ nextfree' = x /\ npages' = npages /\ stage = here /\ stage' = next
      /\ ~ (KERNBASE + x > (KERNBASE + npages * PGSIZE) % ADDRS)
  BY <1>1 DEF BootAlloc, boot_alloc
<1>5. nextfree <= x
  BY <1>2, <1>3
<1>6. nextfree \div PGSIZE \in Nat /\ nextfree \div PGSIZE <= x \div PGSIZE /\ x \div PGSIZE \in Nat
  BY <1>2, <1>3, <1>5, NextPage
<1>7. EXTPAGE \in Nat /\ EXTPAGE <= nextfree \div PGSIZE
  BY Constants DEF Sizes
<1>8. EXTPAGE <= x \div PGSIZE
  BY <1>6, <1>7
<1>9. Sizes'
  BY <1>3, <1>4, <1>8 DEF Sizes
<1> QED
  BY <1>3, <1>4, <1>6, <1>7, <1>9

\* A panic ends it all.
LEMMA PanicStep ==
  ASSUME stage' = "panic"
  PROVE  IInv'
<1>1. stage' \notin Checked
  BY DEF Checked, Last
<1> QED
  BY <1>1 DEF IInv

\* i386_detect_memory sets the sizes alone.
LEMMA DetectStep ==
  ASSUME IInv, Detect
  PROVE  IInv'
<1>1. /\ stage = "detect" /\ stage' = "kern_pgdir" /\ mem' = mem /\ nextfree' = nextfree
      /\ npages' \in Nat /\ npages' <= NPT * NPT
  <2>1. PICK n \in Nvram : /\ stage = "detect" /\ stage' = "kern_pgdir"
                           /\ npages' = Total(n) \div PGKB
                           /\ mem' = mem /\ nextfree' = nextfree
    BY DEF Detect
  <2>2. npages' \in 0 .. NPT * NPT
    BY <2>1, Constants
  <2>3. NPT * NPT \in Int
    BY Zenon, Numbers
  <2> QED BY <2>1, <2>2, <2>3
<1>2. stage \notin Checked /\ stage' \notin Checked
  BY <1>1 DEF Checked, Last
<1>3. mem' \in Memory /\ Sizes'
  BY <1>1 DEF IInv, Sizes
<1>4. \A va \in Va : mem'.tlb[va] = Null
  BY <1>1, <1>2 DEF IInv
<1> QED
  BY <1>1, <1>2, <1>3, <1>4 DEF IInv

\* The first boot_alloc of mem_init gives the directory a page of its own, above
\* the kernel and below the end of memory.
LEMMA AllocPgdirStep ==
  ASSUME IInv, AllocPgdir
  PROVE  IInv'
<1>1. CASE stage' = "panic"
  BY <1>1, PanicStep
<1>2. CASE stage' # "panic"
  <2>1. PGSIZE \in Nat \ {0} /\ UVPT \in Ix
    BY Zenon, Constants, Numbers
  <2>2. PICK here, next : here = "kern_pgdir" /\ next = "pages" /\ BootAlloc(here, PGSIZE, next)
    BY DEF AllocPgdir
  <2>3. stage = "kern_pgdir"
    BY <2>2 DEF BootAlloc
  <2>4. Sizes /\ mem \in Memory /\ stage \notin Checked
    BY <2>3 DEF IInv, Checked, Last
  <2>5. /\ Sizes' /\ npages' = npages /\ stage' = "pages"
        /\ nextfree \div PGSIZE \in Nat /\ EXTPAGE <= nextfree \div PGSIZE
        /\ nextfree + PGSIZE <= nextfree'
        /\ ~ (KERNBASE + nextfree' > (KERNBASE + npages * PGSIZE) % ADDRS)
    BY <1>2, <2>1, <2>2, <2>4, BootAllocGives
  <2>6. PICK x \in Nat : x = nextfree'
    BY <2>5 DEF Sizes
  <2>7. npages \in Nat /\ npages <= NPT * NPT /\ nextfree \in Nat /\ x > 0
    BY <2>1, <2>4, <2>5, <2>6 DEF Sizes
  <2>8. npages < MaxPages /\ npages * PGSIZE \in Nat /\ x <= npages * PGSIZE
    BY <2>5, <2>6, <2>7, Fits
  <2>9. PICK d : d = nextfree \div PGSIZE
    OBVIOUS
  <2>10. d < x \div PGSIZE /\ x \div PGSIZE \in Nat /\ d \in Nat
    BY <2>5, <2>6, <2>7, <2>9, NextPage
  <2>11. d < npages
    <3>1. PICK y \in Nat : y = npages * PGSIZE
      BY <2>8
    <3>2. PICK q, r : Divided(y, PGSIZE, q, r)
      BY DEF Divided
    <3>3. q \in Nat /\ r \in 0 .. PGSIZE - 1 /\ y = q * PGSIZE + r
      BY <2>1, <3>1, <3>2, Division
    <3>4. PICK zero \in 0 .. PGSIZE - 1 : zero = 0
      BY <2>1
    <3>5. npages * PGSIZE + zero = q * PGSIZE + r
      BY <2>8, <3>1, <3>3, <3>4
    <3>6. q = npages
      BY <2>1, <2>7, <3>3, <3>4, <3>5, DivisionUnique
    <3>7. x \div PGSIZE <= y \div PGSIZE
      BY <2>8, <3>1, NextPage
    <3>8. q = y \div PGSIZE
      BY <3>2 DEF Divided
    <3> QED BY <2>7, <2>9, <2>10, <3>6, <3>7, <3>8
  <2>12. d \in Frame
    <3>1. MaxPages \in Int /\ Frame = 0 .. MaxPages - 1 /\ EXTPAGE \in Nat
      BY Zenon, Constants, Numbers
    <3> QED BY <2>7, <2>8, <2>10, <2>11, <3>1
  <2>13. /\ kern_pgdir' = d
         /\ mem' = [mem EXCEPT !.tab[d] = [Blank EXCEPT ![UVPT] = [pg |-> d, perm |-> {"U"}]]]
    BY <1>2, <2>9 DEF AllocPgdir
  <2>14. PICK t : t = [Blank EXCEPT ![UVPT] = [pg |-> d, perm |-> {"U"}]]
    OBVIOUS
  <2>15. t \in [Ix -> Cell] /\ \A i \in Ix : t[i] = IF i = UVPT THEN [pg |-> d, perm |-> {"U"}] ELSE Null
    BY <2>1, <2>10, <2>14 DEF Blank, Cell, Perm
  <2>16. mem' = [mem EXCEPT !.tab[d] = t]
    BY <2>13, <2>14
  <2>17. mem' \in Memory /\ mem'.tab[d] = t /\ mem'.tlb = mem.tlb
    BY <2>4, <2>12, <2>15, <2>16 DEF Memory
  <2>18. \A va \in Va : mem'.tlb[va] = Null
    BY <2>3, <2>4, <2>17 DEF IInv
  <2>19. Allotted'
    <3>1. PICK z \in Nat : z = nextfree' \div PGSIZE
      BY <2>6, <2>10
    <3>2. EXTPAGE \in Nat /\ EXTPAGE <= d /\ d < z
      BY <2>5, <2>6, <2>9, <2>10, <3>1, MemInitAssumption
    <3>3. d \in EXTPAGE .. z - 1
      BY <2>10, <3>2
    <3> QED BY <2>5, <2>8, <2>12, <2>13, <3>1, <3>3 DEF Allotted
  <2>20. stage' \notin Checked
    BY <2>5 DEF Checked, Last
  <2>21. \A i \in Ix : mem'.tab[kern_pgdir'][i] = IF i = UVPT THEN [pg |-> kern_pgdir', perm |-> {"U"}]
                                                  ELSE Null
    BY <2>13, <2>15, <2>17
  <2> QED BY <2>5, <2>17, <2>18, <2>19, <2>20, <2>21 DEF IInv
<1> QED
  BY <1>1, <1>2

\* What is allotted stays so while boot_alloc hands out more.
LEMMA StillAllotted ==
  ASSUME Sizes, Allotted, NEW n \in Nat, nextfree' \in Nat, nextfree + n <= nextfree',
         npages' = npages, kern_pgdir' = kern_pgdir
  PROVE  Allotted'
<1>1. nextfree \in Nat /\ nextfree <= nextfree'
  BY DEF Sizes
<1>2. PICK x \in Nat, y \in Nat : x = nextfree \div PGSIZE /\ y = nextfree' \div PGSIZE /\ x <= y
  BY <1>1, NextPage
<1>3. EXTPAGE \in Nat /\ kern_pgdir \in EXTPAGE .. x - 1
  BY <1>2, MemInitAssumption DEF Allotted
<1>4. kern_pgdir \in EXTPAGE .. y - 1
  BY <1>2, <1>3
<1> QED
  BY <1>2, <1>4 DEF Allotted

\* The array pages[] is allotted above the directory.
LEMMA AllocPagesStep ==
  ASSUME IInv, AllocPages
  PROVE  IInv'
<1>1. CASE stage' = "panic"
  BY <1>1, PanicStep
<1>2. CASE stage' # "panic"
  <2>1. PICK here, next : here = "pages" /\ next = "envs" /\ BootAlloc(here, PAGEINFO * npages, next)
    BY DEF AllocPages
  <2>2. stage = "pages"
    BY <2>1 DEF BootAlloc
  <2>3. Sizes /\ mem \in Memory /\ stage \notin Checked /\ Allotted
    BY <2>2 DEF IInv, Checked, Last
  <2>4. PICK n \in Nat : n = PAGEINFO * npages
    BY <2>3, Constants DEF Sizes
  <2>5. /\ Sizes' /\ npages' = npages /\ stage' = "envs"
        /\ nextfree \div PGSIZE \in Nat
        /\ nextfree + n <= nextfree'
    BY <1>2, <2>1, <2>3, <2>4, BootAllocGives
  <2>6. mem' = mem /\ kern_pgdir' = kern_pgdir /\ pages' \in Nat
    BY <2>5 DEF AllocPages
  <2>7. Allotted'
    BY <2>3, <2>5, <2>6, StillAllotted DEF Sizes
  <2>8. stage' \notin Checked
    BY <2>5 DEF Checked, Last
  <2> QED BY <2>2, <2>3, <2>5, <2>6, <2>7, <2>8 DEF IInv
<1> QED
  BY <1>1, <1>2

\* The array envs[] is allotted above pages[].
LEMMA AllocEnvsStep ==
  ASSUME IInv, AllocEnvs
  PROVE  IInv'
<1>1. CASE stage' = "panic"
  BY <1>1, PanicStep
<1>2. CASE stage' # "panic"
  <2>1. PICK here, next : here = "envs" /\ next = "page_init" /\ BootAlloc(here, ENVBYTES, next)
    BY DEF AllocEnvs
  <2>2. stage = "envs"
    BY <2>1 DEF BootAlloc
  <2>3. Sizes /\ mem \in Memory /\ stage \notin Checked /\ Allotted /\ pages \in Nat
    BY <2>2 DEF IInv, Checked, Last
  <2>4. PICK n \in Nat : n = ENVBYTES
    BY Constants
  <2>5. /\ Sizes' /\ npages' = npages /\ stage' = "page_init"
        /\ nextfree \div PGSIZE \in Nat
        /\ nextfree + n <= nextfree'
    BY <1>2, <2>1, <2>3, <2>4, BootAllocGives
  <2>6. mem' = mem /\ kern_pgdir' = kern_pgdir /\ pages' = pages /\ envs' \in Nat
    BY <2>5 DEF AllocEnvs
  <2>7. Allotted'
    BY <2>3, <2>5, <2>6, StillAllotted DEF Sizes
  <2>8. stage' \notin Checked
    BY <2>5 DEF Checked, Last
  <2> QED BY <2>2, <2>3, <2>5, <2>6, <2>7, <2>8 DEF IInv
<1> QED
  BY <1>1, <1>2

\* page_init frees the pages that nothing lies in.
LEMMA PageInitStep ==
  ASSUME IInv, PageInit
  PROVE  IInv'
<1>1. stage = "page_init" /\ stage' = "check_free_low"
  BY DEF PageInit
<1>2. /\ Sizes /\ mem \in Memory /\ stage \notin Checked /\ Allotted /\ pages \in Nat /\ envs \in Nat
      /\ \A va \in Va : mem.tlb[va] = Null
      /\ \A i \in Ix : mem.tab[kern_pgdir][i] = IF i = UVPT THEN [pg |-> kern_pgdir, perm |-> {"U"}]
                                                ELSE Null
  BY <1>1 DEF IInv, Checked, Last
<1>3. /\ npages' = npages /\ nextfree' = nextfree /\ kern_pgdir' = kern_pgdir
      /\ pages' = pages /\ envs' = envs
  BY DEF PageInit
<1>4. /\ npages \in Nat /\ nextfree \in Nat /\ npages < MaxPages /\ MaxPages \in Int
      /\ kern_pgdir \in Frame
  <2>1. MaxPages \in Int
    BY Zenon, Numbers
  <2> QED BY <1>2, <2>1 DEF Sizes, Allotted
<1>5. PICK all : all = [i \in 1 .. npages |-> i - 1]
  OBVIOUS
<1>6. Enum(all, npages, 0 .. npages - 1)
  <2>1. \A i \in 1 .. npages : i - 1 \in 0 .. npages - 1
    BY <1>4
  <2>2. all \in [1 .. npages -> 0 .. npages - 1]
    BY <1>5, <2>1
  <2>3. 0 .. npages - 1 \subseteq Frame
    <3>1. \A i \in 0 .. npages - 1 : i \in 0 .. MaxPages - 1
      BY <1>4
    <3> QED BY <3>1, Constants
  <2>4. \A p \in 0 .. npages - 1 : \E i \in 1 .. npages : all[i] = p
    <3> TAKE p \in 0 .. npages - 1
    <3>1. p + 1 \in 1 .. npages /\ (p + 1) - 1 = p
      BY <1>4
    <3> QED BY <1>5, <3>1
  <2>5. \A i, j \in 1 .. npages : all[i] = all[j] => i = j
    BY <1>5
  <2> QED BY <1>4, <2>2, <2>3, <2>4, <2>5 DEF Enum
<1>7. PICK T : T = {i \in Frame : ~InUse(i)}
  OBVIOUS
<1>8. PICK free : free = Those(all, T)
  OBVIOUS
<1>9. (0 .. npages - 1) \cap T = Freeable
  <2>1. 0 .. npages - 1 \subseteq Frame
    BY <1>6 DEF Enum
  <2>2. nextfree \div PGSIZE \in Nat /\ IOPAGE \in Nat /\ EXTPAGE \in Nat
    BY <1>4, NextPage, MemInitAssumption
  <2>3. ASSUME NEW p \in 0 .. npages - 1
        PROVE  ~InUse(p) <=> p \in Freeable
    BY <1>4, <2>2 DEF InUse, Freeable
  <2>4. Freeable \subseteq 0 .. npages - 1
    BY <1>4 DEF Freeable
  <2> QED BY <1>7, <2>1, <2>3, <2>4
<1>10. PICK k : Enum(free, k, Freeable)
  <2>1. PICK k : Enum(free, k, (0 .. npages - 1) \cap T)
    BY <1>6, <1>8, ThoseEnum
  <2> QED BY <1>9, <2>1
<1>11. PICK ref : ref = [f \in Frame |-> IF f < npages /\ InUse(f) THEN 1 ELSE 0]
  OBVIOUS
<1>12. mem' = [mem EXCEPT !.pp_ref = ref, !.pp_link = page_init(free).link,
                          !.page_free_list = page_init(free).head]
  BY <1>5, <1>7, <1>8, <1>11 DEF PageInit
<1>13. /\ mem'.pp_ref = ref /\ mem'.pp_link = page_init(free).link
       /\ mem'.page_free_list = page_init(free).head
       /\ mem'.tab = mem.tab /\ mem'.tlb = mem.tlb /\ mem'.cr3 = mem.cr3
  BY <1>2, <1>12 DEF Memory
<1>14. PagesPushed(mem', Freeable, k, free)
  BY <1>10, <1>13 DEF PagesPushed
<1>15. /\ IsFreeList(mem', Freeable) /\ mem'.page_free_list \in Frame \cup {Null}
       /\ mem'.pp_link \in [Frame -> Frame \cup {Null}]
  BY <1>14, PageInitList
<1>16. mem' \in Memory
  <2>1. ref \in [Frame -> Nat]
    BY <1>11
  <2> QED BY <1>2, <1>12, <1>13, <1>15, <2>1 DEF Memory
<1> DEFINE d == kern_pgdir
<1>17. \A i \in Below : mem'.tab[d][i] = Null
  BY <1>2, <1>13 DEF Below
<1>18. Unused(mem', d, Freeable) = Freeable
  <2>1. Freeable \subseteq Frame
    BY <1>10 DEF Enum
  <2>2. ASSUME NEW p \in Freeable, NEW i \in Below PROVE mem'.tab[d][i] # Pde(p)
    BY <1>17, <2>1, PdeFields
  <2> QED BY <2>2 DEF Unused
<1>19. d \notin Freeable
  BY <1>2, <1>4 DEF Allotted, Freeable
<1>20. \A va \in Va : Entries'[va] = Null
  <2> SUFFICES ASSUME NEW va \in Va PROVE Entries'[va] = Null
    OBVIOUS
  <2>1. stage' \notin Past(va[1])
    BY <1>1 DEF Past, Last
  <2> QED BY <2>1 DEF Entries
<1>21. Kept(mem', d, Freeable, Entries')
  <2>1. \A va \in Va : va[1] \in Below => Pte(mem', d, va) = Entries'[va]
    BY <1>17, <1>20 DEF Pte
  <2>2. Freeable \subseteq Frame \ {d}
    BY <1>10, <1>19 DEF Enum
  <2>3. /\ mem'.tab[d][UVPT] = [pg |-> d, perm |-> {"U"}]
        /\ mem'.tab[d][0] = Null /\ mem'.tab[d][1] = Null
    BY <1>2, <1>13, Indices2
  <2>4. \A va \in Va : mem'.tlb[va] = Null
    BY <1>2, <1>13
  <2>5. IsFreeList(mem', Unused(mem', d, Freeable))
    BY <1>15, <1>18
  <2> QED BY <1>4, <1>16, <1>17, <2>1, <2>2, <2>3, <2>4, <2>5 DEF Kept
<1>22. Freeable' = Freeable
  BY <1>3 DEF Freeable
<1>23. Sizes' /\ Allotted'
  BY <1>2, <1>3 DEF Sizes, Allotted
<1>24. stage' \in Checked
  BY <1>1 DEF Checked
<1>25. Kept(mem', kern_pgdir', Freeable', Entries')
  BY <1>3, <1>21, <1>22
<1> QED
  BY <1>1, <1>2, <1>3, <1>16, <1>23, <1>24, <1>25 DEF IInv

----------------------------------------------------------------------------
(* The steps that check.                                                   *)

\* A check that leaves the memory kept.
LEMMA CheckStep ==
  ASSUME IInv, NEW here, NEW c, NEW next, Check(here, c, next), here \in Checked, next \in Checked,
         \A i \in Ix : here \in Past(i) <=> next \in Past(i),
         c.ok => Kept(c.mem, kern_pgdir, Freeable, Entries),
         c.ok /\ next \in {"check_free", "check_installed", "done"} => c.mem.cr3 = kern_pgdir
  PROVE  IInv'
<1>1. CASE ~c.ok
  <2>1. stage' = "panic"
    BY <1>1 DEF Check
  <2> QED BY <2>1, PanicStep
<1>2. CASE c.ok
  <2>1. /\ stage = here /\ stage' = next /\ mem' = c.mem /\ npages' = npages /\ nextfree' = nextfree
        /\ kern_pgdir' = kern_pgdir /\ pages' = pages /\ envs' = envs
    BY <1>2 DEF Check
  <2>2. stage \notin {"detect", "kern_pgdir", "pages", "envs", "page_init", "panic"}
    BY <2>1 DEF Checked, Last
  <2>3. stage' \notin {"detect", "kern_pgdir", "pages", "envs", "page_init", "panic"}
    BY <2>1 DEF Checked, Last
  <2>4. Sizes /\ Allotted /\ pages \in Nat /\ envs \in Nat
    BY <2>1, <2>2 DEF IInv
  <2>5. Sizes' /\ Allotted' /\ Freeable' = Freeable
    BY <2>1, <2>4 DEF Sizes, Allotted, Freeable
  <2>6. Entries' = Entries
    <3>1. ASSUME NEW va \in Va PROVE Layout(va)' = Layout(va)
      BY <2>1 DEF Layout
    <3>2. ASSUME NEW va \in Va PROVE stage' \in Past(va[1]) <=> stage \in Past(va[1])
      <4>1. va[1] \in Ix
        BY DEF Va
      <4> QED BY <2>1, <4>1
    <3> QED BY <3>1, <3>2 DEF Entries
  <2>7. Kept(mem', kern_pgdir', Freeable', Entries')
    BY <1>2, <2>1, <2>5, <2>6
  <2>8. mem' \in Memory
    BY <2>7 DEF Kept
  <2>9. stage' \in {"check_free", "check_installed", "done"} => mem'.cr3 = kern_pgdir'
    BY <1>2, <2>1
  <2> QED BY <2>1, <2>3, <2>4, <2>5, <2>7, <2>8, <2>9 DEF IInv
<1> QED
  BY <1>1, <1>2

\* What the invariant says in a stage in which the free list exists.
LEMMA StageKept ==
  ASSUME IInv, stage \in Checked
  PROVE  /\ Kept(mem, kern_pgdir, Freeable, Entries)
         /\ npages \in Nat /\ Freeable \subseteq 0 .. npages - 1
<1>1. stage # "panic"
  BY DEF Checked, Last
<1>2. npages \in Nat
  BY <1>1 DEF IInv, Sizes
<1> QED
  BY <1>2 DEF IInv, Freeable

\* check_page_free_list with the free pages below 4MB first.
LEMMA CheckFreeLowStep ==
  ASSUME IInv, CheckFreeLow
  PROVE  IInv'
<1>1. PICK here, next : here = "check_free_low" /\ next = "check_alloc"
  OBVIOUS
<1>2. PICK low \in BOOLEAN : low = TRUE
  OBVIOUS
<1> DEFINE c == check_page_free_list(mem, low)
<1>3. Check(here, c, next)
  BY <1>1, <1>2 DEF CheckFreeLow
<1> HIDE DEF c
<1>4. stage = here /\ here \in Checked /\ next \in Checked
  BY <1>1, <1>3 DEF Check, Checked
<1>5. \A i \in Ix : here \in Past(i) <=> next \in Past(i)
  BY <1>1 DEF Past, Last
<1>6. Kept(c.mem, kern_pgdir, Freeable, Entries)
  BY <1>4, StageKept, CheckFreeListKeeps DEF c
<1>7. next \notin {"check_free", "check_installed", "done"}
  BY <1>1
<1> QED
  BY <1>3, <1>4, <1>5, <1>6, <1>7, CheckStep

\* check_page_alloc gives all pages back.
LEMMA CheckAllocStep ==
  ASSUME IInv, CheckAlloc
  PROVE  IInv'
<1>1. PICK here, next : here = "check_alloc" /\ next = "check_page"
  OBVIOUS
<1>2. PICK c : c = check_page_alloc(mem)
  OBVIOUS
<1>3. Check(here, c, next)
  BY <1>1, <1>2 DEF CheckAlloc
<1>4. stage = here /\ here \in Checked /\ next \in Checked
  BY <1>1, <1>3 DEF Check, Checked
<1>5. \A i \in Ix : here \in Past(i) <=> next \in Past(i)
  BY <1>1 DEF Past, Last
<1>6. c.ok => Kept(c.mem, kern_pgdir, Freeable, Entries)
  BY <1>2, <1>4, StageKept, CheckPageAllocKeeps
<1>7. next \notin {"check_free", "check_installed", "done"}
  BY <1>1
<1> QED
  BY <1>3, <1>4, <1>5, <1>6, <1>7, CheckStep

\* check_page gives all pages back, its page tables too.
LEMMA CheckPageStep ==
  ASSUME IInv, CheckPage
  PROVE  IInv'
<1>1. PICK here, next : here = "check_page" /\ next = "map_pages"
  OBVIOUS
<1>2. PICK c : c = check_page(mem)
  OBVIOUS
<1>3. Check(here, c, next)
  BY <1>1, <1>2 DEF CheckPage
<1>4. stage = here /\ here \in Checked /\ next \in Checked
  BY <1>1, <1>3 DEF Check, Checked
<1>5. \A i \in Ix : here \in Past(i) <=> next \in Past(i)
  BY <1>1 DEF Past, Last
<1>6. c.ok => Kept(c.mem, kern_pgdir, Freeable, Entries)
  BY <1>2, <1>4, StageKept, CheckPageKeeps
<1>7. next \notin {"check_free", "check_installed", "done"}
  BY <1>1
<1> QED
  BY <1>3, <1>4, <1>5, <1>6, <1>7, CheckStep

\* check_kern_pgdir only looks.
LEMMA CheckKernStep ==
  ASSUME IInv, CheckKern
  PROVE  IInv'
<1>1. PICK here, next : here = "check_kern" /\ next = "lcr3"
  OBVIOUS
<1>2. PICK c : c = [ok |-> check_kern_pgdir, mem |-> mem]
  OBVIOUS
<1>3. Check(here, c, next) /\ c.mem = mem
  BY <1>1, <1>2 DEF CheckKern
<1>4. stage = here /\ here \in Checked /\ next \in Checked
  BY <1>1, <1>3 DEF Check, Checked, Last
<1>5. \A i \in Ix : here \in Past(i) <=> next \in Past(i)
  BY <1>1 DEF Past, Last
<1>6. Kept(c.mem, kern_pgdir, Freeable, Entries)
  BY <1>3, <1>4, StageKept
<1>7. next \notin {"check_free", "check_installed", "done"}
  BY <1>1
<1> QED
  BY <1>3, <1>4, <1>5, <1>6, <1>7, CheckStep

\* lcr3 flushes the TLB, which is empty.
LEMMA LoadCr3Step ==
  ASSUME IInv, LoadCr3
  PROVE  IInv'
<1>1. PICK here, next : here = "lcr3" /\ next = "check_free"
  OBVIOUS
<1>2. PICK c : c = [ok |-> TRUE, mem |-> lcr3(mem, kern_pgdir)]
  OBVIOUS
<1>3. Check(here, c, next) /\ c.mem = lcr3(mem, kern_pgdir)
  BY <1>1, <1>2 DEF LoadCr3
<1>4. stage = here /\ here \in Checked /\ next \in Checked
  BY <1>1, <1>3 DEF Check, Checked, Last
<1>5. \A i \in Ix : here \in Past(i) <=> next \in Past(i)
  BY <1>1 DEF Past, Last
<1> DEFINE d == kern_pgdir
<1>6. Kept(mem, d, Freeable, Entries)
  BY <1>4, StageKept
<1>7. mem \in Memory /\ d \in Frame
  BY <1>6 DEF Kept
<1>8. /\ c.mem.cr3 = d /\ c.mem.tab = mem.tab /\ \A va \in Va : c.mem.tlb[va] = Null
      /\ c.mem.page_free_list = mem.page_free_list /\ c.mem.pp_link = mem.pp_link
      /\ c.mem \in Memory
  <2>1. PICK t : t = [va \in Va |-> Null]
    OBVIOUS
  <2>2. t \in [Va -> Cell] /\ \A va \in Va : t[va] = Null
    BY <2>1 DEF Cell
  <2>3. c.mem = [mem EXCEPT !.cr3 = d, !.tlb = t]
    BY <1>3, <2>1 DEF lcr3
  <2> QED BY <1>7, <2>2, <2>3 DEF Memory
<1>9. PICK G : G = Unused(mem, d, Freeable)
  OBVIOUS
<1>10. IsFreeList(c.mem, G)
  BY <1>6, <1>8, <1>9, FreeListSame DEF Kept
<1>11. Kept(c.mem, d, Freeable, Entries)
  BY <1>6, <1>8, <1>9, <1>10, KeptSame
<1> QED
  BY <1>3, <1>4, <1>5, <1>8, <1>11, CheckStep

\* check_page_free_list again, with the kernel's directory in %cr3.
LEMMA CheckFreeStep ==
  ASSUME IInv, CheckFree
  PROVE  IInv'
<1>1. PICK here, next : here = "check_free" /\ next = "check_installed"
  OBVIOUS
<1>2. PICK low \in BOOLEAN : low = FALSE
  OBVIOUS
<1> DEFINE c == check_page_free_list(mem, low)
<1>3. Check(here, c, next)
  BY <1>1, <1>2 DEF CheckFree
<1> HIDE DEF c
<1>4. stage = here /\ here \in Checked /\ next \in Checked
  BY <1>1, <1>3 DEF Check, Checked, Last
<1>5. \A i \in Ix : here \in Past(i) <=> next \in Past(i)
  BY <1>1 DEF Past, Last
<1>6. Kept(c.mem, kern_pgdir, Freeable, Entries) /\ c.mem.cr3 = mem.cr3
  BY <1>4, StageKept, CheckFreeListKeeps DEF c
<1>7. mem.cr3 = kern_pgdir
  BY <1>1, <1>4 DEF IInv
<1> QED
  BY <1>3, <1>4, <1>5, <1>6, <1>7, CheckStep

\* check_page_installed_pgdir gives all pages back and leaves no stale translation.
LEMMA CheckInstalledStep ==
  ASSUME IInv, CheckInstalled
  PROVE  IInv'
<1>1. PICK here, next : here = "check_installed" /\ next = "done"
  OBVIOUS
<1>2. PICK c : c = check_page_installed_pgdir(mem)
  OBVIOUS
<1>3. Check(here, c, next)
  BY <1>1, <1>2 DEF CheckInstalled
<1>4. stage = here /\ here \in Checked /\ next \in Checked
  BY <1>1, <1>3 DEF Check, Checked, Last
<1>5. \A i \in Ix : here \in Past(i) <=> next \in Past(i)
  BY <1>1 DEF Past, Last
<1>6. mem.cr3 = kern_pgdir
  BY <1>1, <1>4 DEF IInv
<1>7. c.ok => Kept(c.mem, kern_pgdir, Freeable, Entries) /\ c.mem.cr3 = kern_pgdir
  BY <1>2, <1>4, <1>6, StageKept, CheckInstalledKeeps
<1> QED
  BY <1>3, <1>4, <1>5, <1>7, CheckStep

----------------------------------------------------------------------------
(* The steps that map.                                                     *)

\* The memory after one page of boot_map_region.
Placed(m, pt, j, e) == [m EXCEPT !.tab[pt][j] = e]

\* c2 is c with the entry e for va.
Updated(c, c2, va, e) == \A v \in Va : c2[v] = IF v = va THEN e ELSE c[v]

\* One page of boot_map_region.
LEMMA MapOne ==
  ASSUME NEW m, NEW d, NEW S, NEW c, Kept(m, d, S, c),
         NEW va \in Va, NEW i \in Below, va[1] = i, i # 0, i # 1,
         NEW w, w = Walk(m, d, va), w.pt # Null,
         NEW e \in Cell, NEW r, r = Placed(w.mem, w.pt, va[2], e),
         NEW c2, Updated(c, c2, va, e)
  PROVE  Kept(r, d, S, c2) /\ r.cr3 = m.cr3
<1>1. PICK j \in Ix : j = va[2] /\ va = <<i, j>>
  BY DEF Va
<1>2. PICK G \in SUBSET Frame : G = Unused(m, d, S)
  BY DEF Kept, Unused
<1>3. /\ m \in Memory /\ d \in Frame /\ S \subseteq Frame \ {d} /\ d \notin G /\ G \subseteq S
      /\ m.tab[d][UVPT] = [pg |-> d, perm |-> {"U"}]
      /\ m.tab[d][0] = Null /\ m.tab[d][1] = Null
      /\ \A h \in Below : m.tab[d][h] = Null \/ \E t \in S : m.tab[d][h] = Pde(t)
      /\ \A h, l \in Below : m.tab[d][h] = m.tab[d][l] => h = l \/ m.tab[d][h] = Null
      /\ \A v \in Va : m.tlb[v] = Null
      /\ IsFreeList(m, G)
      /\ i \in Ix /\ i # UVPT
  BY <1>2 DEF Kept, Unused, Below
<1>4. \A v \in Va : v[1] \in Below => Pte(m, d, v) = c[v]
  BY DEF Kept
<1> DEFINE n == w.mem
           t == w.pt
\* What the walk does.
<1>5. /\ n \in Memory /\ t \in S /\ n.tab[d][i] = Pde(t)
      /\ \A h \in Ix : h # i => n.tab[d][h] = m.tab[d][h]
      /\ \A f \in Frame : f # d /\ f # t => n.tab[f] = m.tab[f]
      /\ n.tab[t] = IF m.tab[d][i] = Null THEN Blank ELSE m.tab[t]
      /\ n.cr3 = m.cr3 /\ n.tlb = m.tlb
      /\ IsFreeList(n, G \ {t})
      /\ m.tab[d][i] = Null => t \in G
      /\ m.tab[d][i] # Null => m.tab[d][i] = Pde(t)
  <2>1. CASE m.tab[d][i] = Null
    <3>1. m.page_free_list # Null
      <4> SUFFICES ASSUME m.page_free_list = Null PROVE FALSE
        OBVIOUS
      <4> QED BY <2>1, WalkFails
    <3>2. PICK p : p = m.page_free_list
      OBVIOUS
    <3>3. PICK n2 : n2 = w.mem
      OBVIOUS
    <3>4. w.pt = p /\ p \in G /\ TableAdded(m, n2, d, i, p) /\ IsFreeList(n2, G \ {p})
      BY <1>3, <2>1, <3>1, <3>2, <3>3, WalkEff
    <3>5. p # d /\ p \in Frame
      BY <1>3, <3>4
    <3>6. n2.tab[d] = [m.tab[d] EXCEPT ![i] = Pde(p)]
      BY <3>4 DEF TableAdded
    <3>7. m.tab[d] \in [Ix -> Cell]
      BY <1>3, Fields
    <3>8. n2.tab[d][i] = Pde(p) /\ \A h \in Ix : h # i => n2.tab[d][h] = m.tab[d][h]
      BY <1>3, <3>6, <3>7
    <3> HIDE DEF n, t
    <3>9. n = n2 /\ t = p
      BY <3>3, <3>4 DEF n, t
    <3> QED BY <1>3, <2>1, <3>4, <3>5, <3>8, <3>9 DEF TableAdded
  <2>2. CASE m.tab[d][i] # Null
    <3>1. PICK p \in S : m.tab[d][i] = Pde(p)
      BY <1>3, <2>2
    <3>2. Pde(p).pg = p
      BY <1>3, PdeFields
    <3>3. w.pt = p /\ w.mem = m
      BY <2>2, <3>1, <3>2, WalkFinds
    <3>4. p \notin G
      BY <1>2, <3>1 DEF Unused
    <3>5. G \ {p} = G
      BY <3>4
    <3> HIDE DEF n, t
    <3>6. n = m /\ t = p
      BY <3>3 DEF n, t
    <3> QED BY <1>3, <2>2, <3>1, <3>5, <3>6
  <2> QED BY <2>1, <2>2
<1>6. r = [n EXCEPT !.tab[t][j] = e]
  BY <1>1 DEF Placed
<1> HIDE DEF n, t
<1>7. t \in Frame /\ t # d
  BY <1>3, <1>5
<1>8. /\ r \in Memory /\ r.cr3 = m.cr3 /\ r.tlb = m.tlb
      /\ r.page_free_list = n.page_free_list /\ r.pp_link = n.pp_link
      /\ \A f \in Frame : f # t => r.tab[f] = n.tab[f]
      /\ \A h \in Ix : r.tab[t][h] = IF h = j THEN e ELSE n.tab[t][h]
  <2>1. n.tab \in [Frame -> [Ix -> Cell]]
    BY <1>5, Fields
  <2>2. PICK x : x = [n.tab EXCEPT ![t][j] = e]
    OBVIOUS
  <2>3. /\ x \in [Frame -> [Ix -> Cell]]
        /\ \A f \in Frame : f # t => x[f] = n.tab[f]
        /\ \A h \in Ix : x[t][h] = IF h = j THEN e ELSE n.tab[t][h]
    BY <1>1, <1>7, <2>1, <2>2
  <2>4. r = [n EXCEPT !.tab = x]
    BY <1>5, <1>6, <2>2 DEF Memory
  <2> QED BY <1>5, <2>3, <2>4 DEF Memory
<1>9. /\ r.tab[d][i] = Pde(t)
      /\ \A h \in Ix : h # i => r.tab[d][h] = m.tab[d][h]
  BY <1>3, <1>5, <1>7, <1>8
<1>10. \A h \in Below : h # i => m.tab[d][h] # Pde(t)
  <2> SUFFICES ASSUME NEW h \in Below, h # i, m.tab[d][h] = Pde(t) PROVE FALSE
    OBVIOUS
  <2>1. Pde(t) # Null
    BY <1>7, PdeFields
  <2>2. CASE m.tab[d][i] = Null
    BY <1>2, <1>5, <2>2 DEF Unused
  <2>3. CASE m.tab[d][i] # Null
    BY <1>3, <1>5, <2>1, <2>3
  <2> QED BY <2>2, <2>3
<1>11. Unused(r, d, S) = G \ {t}
  <2>1. ASSUME NEW p \in S PROVE p \in Unused(r, d, S) <=> p \in G /\ p # t
    <3>1. CASE p = t
      BY <1>9, <3>1 DEF Unused
    <3>2. CASE p # t
      <4>1. Pde(p) # Pde(t)
        BY <1>3, <1>7, <3>2, PdeFields
      <4>2. Pde(p) # Null
        BY <1>3, PdeFields
      <4>3. m.tab[d][i] # Pde(p) /\ r.tab[d][i] # Pde(p)
        BY <1>5, <1>9, <4>1, <4>2
      <4>4. \A h \in Below : r.tab[d][h] # Pde(p) <=> m.tab[d][h] # Pde(p)
        BY <1>9, <4>3 DEF Below
      <4> QED BY <1>2, <3>2, <4>4 DEF Unused
    <3> QED BY <3>1, <3>2
  <2>2. Unused(r, d, S) \subseteq S
    BY DEF Unused
  <2> QED BY <1>3, <2>1, <2>2
<1>12. IsFreeList(r, Unused(r, d, S))
  <2>1. IsFreeList(r, G \ {t})
    BY <1>5, <1>8, FreeListSame
  <2> QED BY <1>11, <2>1
<1>13. ASSUME NEW v \in Va, v[1] \in Below
       PROVE  Pte(r, d, v) = c2[v]
  <2>1. PICK a \in Below, b \in Ix : v = <<a, b>> /\ v[1] = a /\ v[2] = b
    BY <1>13 DEF Va
  <2>2. Pde(t) # Null /\ Pde(t).pg = t
    BY <1>7, PdeFields
  <2>3. CASE a = i
    <3>1. Pte(r, d, v) = r.tab[t][b]
      BY <1>9, <2>1, <2>2, <2>3 DEF Pte
    <3>2. n.tab[t][b] = c[v]
      <4>1. CASE m.tab[d][i] = Null
        <5>1. c[v] = Null
          BY <1>4, <2>1, <2>3, <4>1 DEF Pte
        <5>2. n.tab[t] = Blank
          BY <1>5, <4>1
        <5> QED BY <5>1, <5>2 DEF Blank
      <4>2. CASE m.tab[d][i] # Null
        <5>1. m.tab[d][i] = Pde(t) /\ n.tab[t] = m.tab[t]
          BY <1>5, <4>2
        <5>2. Pte(m, d, v) = m.tab[t][b]
          BY <2>1, <2>2, <2>3, <5>1 DEF Pte
        <5> QED BY <1>4, <2>1, <5>1, <5>2
      <4> QED BY <4>1, <4>2
    <3>3. v = va <=> b = j
      BY <1>1, <2>1, <2>3
    <3> QED BY <1>8, <3>1, <3>2, <3>3 DEF Updated
  <2>4. CASE a # i
    <3>1. v # va
      BY <1>1, <2>1, <2>4
    <3>2. a \in Ix /\ r.tab[d][a] = m.tab[d][a]
      BY <1>9, <2>4 DEF Below
    <3>3. c2[v] = c[v] /\ Pte(m, d, v) = c[v]
      BY <1>4, <2>1, <3>1 DEF Updated
    <3>4. CASE m.tab[d][a] = Null
      BY <2>1, <3>2, <3>3, <3>4 DEF Pte
    <3>5. CASE m.tab[d][a] # Null
      <4>1. PICK q \in S : m.tab[d][a] = Pde(q)
        BY <1>3, <3>5
      <4>2. q \in Frame /\ q # d /\ Pde(q).pg = q
        BY <1>3, PdeFields
      <4>3. q # t
        BY <1>10, <2>4, <4>1
      <4>4. r.tab[q] = m.tab[q]
        BY <1>5, <1>8, <4>2, <4>3
      <4> QED BY <2>1, <3>2, <3>3, <3>5, <4>1, <4>2, <4>4 DEF Pte
    <3> QED BY <3>4, <3>5
  <2> QED BY <2>3, <2>4
<1>14. /\ r.tab[d][UVPT] = [pg |-> d, perm |-> {"U"}]
       /\ r.tab[d][0] = Null /\ r.tab[d][1] = Null
  BY <1>3, <1>9, Indices2
<1>15. \A h \in Below : r.tab[d][h] = Null \/ \E q \in S : r.tab[d][h] = Pde(q)
  BY <1>3, <1>5, <1>9 DEF Below
<1>16. \A h, l \in Below : r.tab[d][h] = r.tab[d][l] => h = l \/ r.tab[d][h] = Null
  BY <1>3, <1>9, <1>10 DEF Below
<1>17. \A v \in Va : r.tlb[v] = Null
  BY <1>3, <1>8
<1> QED
  BY <1>3, <1>8, <1>12, <1>13, <1>14, <1>15, <1>16, <1>17 DEF Kept

\* The k-th page from va on, and which page from va on v is.
Ahead(va, k)    == <<va[1] + (va[2] + k - 1) \div NPT, (va[2] + k - 1) % NPT>>
Position(va, v) == (v[1] - va[1]) * NPT + v[2] - va[2]

\* The one is the inverse of the other.
LEMMA AheadPosition ==
  ASSUME NEW va \in Va, NEW k \in Nat \ {0}, Ahead(va, k)[1] \in Ix
  PROVE  /\ Ahead(va, k) \in Va
         /\ \A v \in Va : /\ Position(va, v) \in Int
                          /\ Position(va, v) = k - 1 <=> v = Ahead(va, k)
<1>1. NPT \in Nat \ {0} /\ Ix = 0 .. NPT - 1
  BY Constants
<1>2. PICK i \in Ix, j \in Ix : va = <<i, j>> /\ va[1] = i /\ va[2] = j
  BY DEF Va
<1>3. PICK a \in Nat : a = j + k - 1
  BY <1>1
<1>4. PICK q, r : Divided(a, NPT, q, r)
  BY DEF Divided
<1>5. q \in Nat /\ r \in 0 .. NPT - 1 /\ a = q * NPT + r
  <2>1. PICK N \in Nat \ {0} : N = NPT
    BY <1>1
  <2>2. Divided(a, N, q, r)
    BY <1>4, <2>1
  <2>3. q \in Nat /\ r \in 0 .. N - 1
    BY <2>2, Division
  <2>4. a = q * N + r
    BY <2>2, Division
  <2> QED BY <2>1, <2>3, <2>4
<1>6. Ahead(va, k) = <<i + q, r>>
  BY <1>2, <1>3, <1>4 DEF Ahead, Divided
<1>7. i + q \in Ix /\ <<i + q, r>> \in Va
  BY <1>1, <1>5, <1>6 DEF Va
<1>8. ASSUME NEW v \in Va
      PROVE  /\ Position(va, v) \in Int
             /\ Position(va, v) = k - 1 <=> v = <<i + q, r>>
  <2>1. PICK x \in Ix, y \in Ix : v = <<x, y>> /\ v[1] = x /\ v[2] = y
    BY DEF Va
  <2>2. x \in Nat /\ y \in 0 .. NPT - 1 /\ i \in Nat /\ j \in Nat
    BY <1>1
  <2>3. PICK z \in Int : z = x - i
    BY <2>2
  <2>4. PICK p \in Int : p = z * NPT
    BY <1>1
  <2>5. Position(va, v) = p + y - j
    BY <1>2, <2>1, <2>3, <2>4 DEF Position
  <2>6. ASSUME p + y - j = k - 1
        PROVE  z = q /\ y = r
    <3>1. p + y = a
      BY <1>3, <2>2, <2>6
    <3>2. z \in Nat
      <4> SUFFICES ASSUME z < 0 PROVE FALSE
        OBVIOUS
      <4>1. PICK u \in Nat : z = 0 - 1 - u
        <5>1. 0 - 1 - z \in Nat /\ z = 0 - 1 - (0 - 1 - z)
          OBVIOUS
        <5> QED BY <5>1
      <4>2. z * NPT = 0 - NPT - u * NPT /\ u * NPT \in Nat
        BY <1>1, <4>1
      <4>3. p + NPT <= 0
        BY <1>1, <2>4, <4>2
      <4> QED BY <1>1, <2>2, <3>1, <4>3
    <3>3. q * NPT + r = z * NPT + y
      BY <1>5, <2>4, <3>1
    <3> QED BY <1>1, <1>5, <2>2, <3>2, <3>3, DivisionUnique
  <2>7. ASSUME z = q, y = r
        PROVE  p + y - j = k - 1
    <3>1. p = q * NPT
      BY <2>4, <2>7
    <3>2. p + y = a
      BY <1>5, <2>7, <3>1
    <3> QED BY <1>3, <2>2, <3>2
  <2>8. v = <<i + q, r>> <=> z = q /\ y = r
    <3>1. v = <<i + q, r>> <=> x = i + q /\ y = r
      BY <2>1
    <3> QED BY <1>5, <2>2, <2>3, <3>1
  <2>9. Position(va, v) \in Int
    BY <2>2, <2>5
  <2> QED BY <2>5, <2>6, <2>7, <2>8, <2>9
<1> QED
  BY <1>6, <1>7, <1>8

\* One page more: what boot_map_region makes of the memory before.
NextPlaced(before, va, k, pa, perm) ==
  LET w == pgdir_walk(before, kern_pgdir, Ahead(va, k), TRUE)
  IN  IF before = Null THEN Null
      ELSE IF w.pt = Null THEN Null
      ELSE [w.mem EXCEPT !.tab[w.pt][Ahead(va, k)[2]] = [pg |-> pa + k - 1, perm |-> perm]]

\* The memories after each page up to the k-th.
Places(m, va, pa, perm, k, g) ==
  g = [i \in 0 .. k |-> IF i = 0 THEN m ELSE NextPlaced(g[i - 1], va, i, pa, perm)]

\* They exist for each number of pages.
LEMMA PlacesExists ==
  ASSUME NEW m, NEW va, NEW pa, NEW perm, NEW n \in Nat
  PROVE  \E g : Places(m, va, pa, perm, n, g)
<1> DEFINE Bad == {k \in 0 .. n : ~ \E g : Places(m, va, pa, perm, k, g)}
<1> SUFFICES ASSUME Bad # {} PROVE FALSE
  OBVIOUS
<1>1. PICK x \in Bad : \A y \in Bad : x <= y
  <2>1. Bad \in SUBSET Nat
    OBVIOUS
  <2> HIDE DEF Bad
  <2> QED BY <2>1, LeastExists
<1>2. x \in 0 .. n /\ ~ \E g : Places(m, va, pa, perm, x, g)
  OBVIOUS
<1>3. x # 0
  <2> SUFFICES ASSUME x = 0 PROVE FALSE
    OBVIOUS
  <2> DEFINE h == [i \in 0 .. 0 |-> m]
  <2>1. Places(m, va, pa, perm, 0, h)
    BY DEF Places
  <2> QED BY <1>2, <2>1
<1>4. x - 1 \in 0 .. n /\ x - 1 \notin Bad
  BY <1>1, <1>2, <1>3
<1>5. PICK g : Places(m, va, pa, perm, x - 1, g)
  BY <1>4
<1> HIDE DEF Bad
<1>6. \A i \in 0 .. x - 1 : g[i] = IF i = 0 THEN m ELSE NextPlaced(g[i - 1], va, i, pa, perm)
  BY <1>5 DEF Places
<1> DEFINE h == [i \in 0 .. x |-> IF i < x THEN g[i] ELSE NextPlaced(g[x - 1], va, x, pa, perm)]
<1>7. ASSUME NEW i \in 0 .. x
      PROVE  h[i] = IF i = 0 THEN m ELSE NextPlaced(h[i - 1], va, i, pa, perm)
  <2>1. CASE i = x
    <3>1. x - 1 \in 0 .. x /\ x - 1 < x
      BY <1>2, <1>3
    <3>2. h[i - 1] = g[x - 1]
      BY <2>1, <3>1
    <3>3. h[i] = NextPlaced(g[x - 1], va, x, pa, perm)
      BY <2>1
    <3> QED BY <1>3, <2>1, <3>2, <3>3
  <2>2. CASE i # x
    <3>1. i \in 0 .. x - 1 /\ i < x /\ i \in 0 .. x
      BY <1>2, <2>2
    <3>2. h[i] = g[i]
      BY <3>1
    <3>3. i # 0 => i - 1 \in 0 .. x /\ i - 1 < x
      BY <1>2, <3>1
    <3>4. i # 0 => h[i - 1] = g[i - 1]
      BY <3>3
    <3> QED BY <1>6, <3>1, <3>2, <3>4
  <2> QED BY <2>1, <2>2
<1>8. h = [i \in 0 .. x |-> IF i = 0 THEN m ELSE NextPlaced(h[i - 1], va, i, pa, perm)]
  BY <1>7
<1>9. Places(m, va, pa, perm, x, h)
  <2> HIDE DEF h
  <2> QED BY <1>8 DEF Places
<1> QED
  BY <1>2, <1>9

\* c2 is c with the entries for the first k pages from va on.
Extended(c, c2, va, k, pa, perm) ==
  \A v \in Va : c2[v] = IF Position(va, v) \in 0 .. k - 1
                        THEN [pg |-> pa + Position(va, v), perm |-> perm] ELSE c[v]

\* boot_map_region maps its pages in order, if there is memory for the tables.
LEMMA BootMap ==
  ASSUME NEW m, NEW d, NEW S, NEW c, Kept(m, d, S, c), d = kern_pgdir,
         NEW va \in Va, NEW n \in Nat, NEW pa \in Nat, NEW perm \in SUBSET Perm,
         \A k \in 1 .. n : Ahead(va, k)[1] \in Below \ {0, 1},
         NEW r, r = boot_map_region(m, va, n, pa, perm), r # Null
  PROVE  \E c2 : Extended(c, c2, va, n, pa, perm) /\ Kept(r, d, S, c2) /\ r.cr3 = m.cr3
<1> DEFINE Step(g) == [i \in 0 .. n |-> IF i = 0 THEN m ELSE NextPlaced(g[i - 1], va, i, pa, perm)]
           after == CHOOSE g : g = Step(g)
<1>1. \E g : g = Step(g)
  <2>1. PICK g : Places(m, va, pa, perm, n, g)
    BY PlacesExists
  <2>2. g = Step(g)
    BY <2>1 DEF Places
  <2> HIDE DEF Step
  <2> QED BY <2>2
<1>2. after = Step(after)
  BY <1>1
<1>3. r = after[n]
  BY DEF boot_map_region, NextPlaced, Ahead
<1> HIDE DEF after
<1>4. \A i \in 0 .. n : after[i] = IF i = 0 THEN m ELSE NextPlaced(after[i - 1], va, i, pa, perm)
  BY <1>2
<1> HIDE DEF Step
<1> DEFINE Good(k) == after[k] # Null =>
                        \E c2 : /\ Extended(c, c2, va, k, pa, perm)
                                /\ Kept(after[k], d, S, c2) /\ after[k].cr3 = m.cr3
<1>5. \A k \in 0 .. n : Good(k)
  <2> DEFINE Bad == {k \in 0 .. n : ~ Good(k)}
  <2> SUFFICES ASSUME Bad # {} PROVE FALSE
    OBVIOUS
  <2>1. PICK x \in Bad : \A y \in Bad : x <= y
    <3>1. Bad \in SUBSET Nat
      OBVIOUS
    <3> HIDE DEF Bad
    <3> QED BY <3>1, LeastExists
  <2>2. x \in 0 .. n /\ ~ Good(x)
    OBVIOUS
  <2>3. x # 0
    <3> SUFFICES ASSUME x = 0 PROVE FALSE
      OBVIOUS
    <3>1. after[0] = m
      BY <1>4
    <3>2. PICK zero : zero = 0
      OBVIOUS
    <3>3. Extended(c, c, va, zero, pa, perm)
      BY <3>2 DEF Extended
    <3>4. Good(0)
      BY <3>1, <3>2, <3>3
    <3> QED BY <2>2, <3>4
  <2>4. x - 1 \in 0 .. n /\ x - 1 \notin Bad
    <3>1. x - 1 \in 0 .. n /\ ~ (x <= x - 1)
      BY <2>2, <2>3
    <3> HIDE DEF Bad
    <3> QED BY <2>1, <3>1
  <2>5. Good(x - 1)
    BY <2>4
  <2> HIDE DEF Bad
  <2>6. x \in 1 .. n /\ x \in Nat \ {0}
    BY <2>2, <2>3
  <2>7. PICK b, A, w : b = after[x - 1] /\ A = Ahead(va, x) /\ w = Walk(b, d, A)
    OBVIOUS
  <2>8. PICK e \in Cell : e = [pg |-> pa + x - 1, perm |-> perm]
    <3>1. pa + x - 1 \in Nat
      BY <2>6
    <3> QED BY <3>1 DEF Cell
  <2>9. after[x] # Null
    BY <2>2
  <2>10. b # Null /\ w.pt # Null /\ after[x] = Placed(w.mem, w.pt, A[2], e)
    <3>1. after[x] = NextPlaced(b, va, x, pa, perm)
      BY <1>4, <2>2, <2>3, <2>7
    <3>2. NextPlaced(b, va, x, pa, perm) =
            IF b = Null THEN Null ELSE IF w.pt = Null THEN Null ELSE Placed(w.mem, w.pt, A[2], e)
      BY <2>7, <2>8 DEF NextPlaced, Walk, Placed
    <3> QED BY <2>9, <3>1, <3>2
  <2>11. PICK c1 : Extended(c, c1, va, x - 1, pa, perm) /\ Kept(b, d, S, c1) /\ b.cr3 = m.cr3
    BY <2>5, <2>7, <2>10
  <2> HIDE DEF Good
  <2>12. PICK i \in Below : A[1] = i /\ i # 0 /\ i # 1
    BY <2>6, <2>7
  <2>13. /\ A \in Va
         /\ \A v \in Va : Position(va, v) \in Int /\ (Position(va, v) = x - 1 <=> v = A)
    <3>1. Ahead(va, x)[1] \in Ix
      BY <2>7, <2>12 DEF Below
    <3> QED BY <2>6, <2>7, <3>1, AheadPosition
  <2>14. PICK c2 : c2 = [v \in Va |-> IF Position(va, v) \in 0 .. x - 1
                                      THEN [pg |-> pa + Position(va, v), perm |-> perm] ELSE c[v]]
    OBVIOUS
  <2>15. Extended(c, c2, va, x, pa, perm)
    BY <2>14 DEF Extended
  <2>16. Updated(c1, c2, A, e)
    <3> SUFFICES ASSUME NEW v \in Va PROVE c2[v] = IF v = A THEN e ELSE c1[v]
      BY DEF Updated
    <3>1. PICK p \in Int : p = Position(va, v) /\ (p = x - 1 <=> v = A)
      BY <2>13
    <3>2. c2[v] = IF p \in 0 .. x - 1 THEN [pg |-> pa + p, perm |-> perm] ELSE c[v]
      BY <2>14, <3>1
    <3>3. c1[v] = IF p \in 0 .. (x - 1) - 1 THEN [pg |-> pa + p, perm |-> perm] ELSE c[v]
      BY <2>11, <3>1 DEF Extended
    <3>4. CASE v = A
      <4>1. p = x - 1 /\ p \in 0 .. x - 1 /\ pa + p = pa + x - 1
        BY <2>6, <3>1, <3>4
      <4> QED BY <2>8, <3>2, <3>4, <4>1
    <3>5. CASE v # A
      <4>1. p \in 0 .. x - 1 <=> p \in 0 .. (x - 1) - 1
        BY <2>6, <3>1, <3>5
      <4> QED BY <3>2, <3>3, <3>5, <4>1
    <3> QED BY <3>4, <3>5
  <2>17. PICK y : y = after[x]
    OBVIOUS
  <2>18. Kept(y, d, S, c2) /\ y.cr3 = b.cr3
    BY <2>7, <2>10, <2>11, <2>12, <2>13, <2>16, <2>17, MapOne
  <2>19. Good(x)
    BY <2>11, <2>15, <2>17, <2>18 DEF Good
  <2> QED BY <2>2, <2>19
<1> QED
  <2>1. n \in 0 .. n
    OBVIOUS
  <2> QED BY <1>3, <1>5, <2>1

\* Pages that end before z page tables do lie in the first z of them.
LEMMA AheadInside ==
  ASSUME NEW va, NEW i \in Nat, NEW j \in Nat, va[1] = i, va[2] = j,
         NEW n \in Nat, NEW z \in Nat, j + n <= z * NPT, NEW k \in 1 .. n
  PROVE  Ahead(va, k)[1] \in i .. i + z - 1
<1>1. PICK N \in Nat \ {0} : N = NPT
  BY Constants
<1>2. PICK a \in Nat : a = j + k - 1 /\ a < j + n
  OBVIOUS
<1>3. PICK q, r : Divided(a, N, q, r)
  BY DEF Divided
<1>4. q \in Nat /\ r \in 0 .. N - 1
  BY <1>3, Division
<1>5. a = q * N + r
  BY <1>3, Division
<1>6. Ahead(va, k)[1] = i + q
  BY <1>1, <1>2, <1>3 DEF Ahead, Divided
<1>7. q < z
  <2> SUFFICES ASSUME z <= q PROVE FALSE
    BY <1>4
  <2>1. z * N <= q * N /\ z * N \in Nat /\ q * N \in Nat
    BY <1>4, ProductMonotone
  <2>2. j + n <= z * N
    BY <1>1
  <2> QED BY <1>2, <1>4, <1>5, <2>1, <2>2
<1> QED
  BY <1>4, <1>6, <1>7

\* Where an address is seen from the start of page table i.
LEMMA PositionFrom ==
  ASSUME NEW va, NEW i \in Ix, va[1] = i, va[2] = 0,
         NEW v, NEW x \in Ix, NEW y \in Ix, v[1] = x, v[2] = y
  PROVE  /\ Position(va, v) \in Int
         /\ x = i => Position(va, v) = y /\ y \in 0 .. NPT - 1
         /\ x > i => Position(va, v) >= NPT
         /\ x < i => Position(va, v) < 0
<1>1. PICK N \in Nat \ {0} : N = NPT /\ Ix = 0 .. N - 1
  BY Constants
<1>2. x \in Nat /\ y \in 0 .. N - 1 /\ i \in Nat
  BY <1>1
<1>3. PICK z \in Int : z = x - i
  BY <1>2
<1>4. PICK p \in Int : p = z * N
  BY <1>1
<1>5. Position(va, v) = p + y
  BY <1>1, <1>2, <1>3, <1>4 DEF Position
<1>6. x = i => p = 0
  BY <1>2, <1>3, <1>4
<1>7. x > i => p >= N
  <2> SUFFICES ASSUME x > i PROVE p >= N
    OBVIOUS
  <2>1. z \in Nat /\ 1 <= z
    BY <1>2, <1>3
  <2>2. 1 * N <= z * N /\ 1 * N = N
    BY <2>1, ProductMonotone
  <2> QED BY <1>4, <2>2
<1>8. x < i => p + N <= 0
  <2> SUFFICES ASSUME x < i PROVE p + N <= 0
    OBVIOUS
  <2>1. PICK u \in Nat : u = 0 - z /\ 1 <= u
    BY <1>2, <1>3
  <2>2. 1 * N <= u * N /\ 1 * N = N
    BY <2>1, ProductMonotone
  <2>3. p = 0 - u * N /\ u * N \in Nat
    BY <1>4, <2>1
  <2> QED BY <2>2, <2>3
<1> QED
  BY <1>1, <1>2, <1>5, <1>6, <1>7, <1>8

\* Only the entries for the user's and the kernel's memory count.
LEMMA KeptEntries ==
  ASSUME NEW m, NEW d, NEW S, NEW c, Kept(m, d, S, c),
         NEW c2, \A v \in Va : v[1] \in Below => c2[v] = c[v]
  PROVE  Kept(m, d, S, c2)
BY DEF Kept

\* The entries as they are in a stage.
EntriesIn(c, here) == \A v \in Va : v[1] \in Below =>
                        c[v] = IF here \in Past(v[1]) THEN Layout(v) ELSE Null

\* Entries are those of the stage.
LEMMA EntriesNow == EntriesIn(Entries, stage)
BY DEF EntriesIn, Entries

\* A mapping that brings the directory to the next stage.
LEMMA MapStep ==
  ASSUME IInv, NEW here, NEW m, NEW next, Map(here, m, next), here \in Checked, next \in Checked,
         next \notin {"check_free", "check_installed", "done"},
         m # Null => \E c : Kept(m, kern_pgdir, Freeable, c) /\ EntriesIn(c, next)
  PROVE  IInv'
<1>1. CASE m = Null
  <2>1. stage' = "panic"
    BY <1>1 DEF Map
  <2> QED BY <2>1, PanicStep
<1>2. CASE m # Null
  <2>1. /\ stage = here /\ stage' = next /\ mem' = m /\ npages' = npages /\ nextfree' = nextfree
        /\ kern_pgdir' = kern_pgdir /\ pages' = pages /\ envs' = envs
    BY <1>2 DEF Map
  <2>2. stage \notin {"detect", "kern_pgdir", "pages", "envs", "page_init", "panic"}
    BY <2>1 DEF Checked, Last
  <2>3. stage' \notin {"detect", "kern_pgdir", "pages", "envs", "page_init", "panic"}
    BY <2>1 DEF Checked, Last
  <2>4. Sizes /\ Allotted /\ pages \in Nat /\ envs \in Nat
    BY <2>1, <2>2 DEF IInv
  <2>5. Sizes' /\ Allotted' /\ Freeable' = Freeable
    BY <2>1, <2>4 DEF Sizes, Allotted, Freeable
  <2>6. PICK c : Kept(m, kern_pgdir, Freeable, c) /\ EntriesIn(c, next)
    BY <1>2
  <2>7. \A v \in Va : v[1] \in Below => Entries'[v] = c[v]
    <3>1. ASSUME NEW v \in Va PROVE Layout(v)' = Layout(v)
      BY <2>1 DEF Layout
    <3> QED BY <2>1, <2>6, <3>1 DEF Entries, EntriesIn
  <2>8. Kept(m, kern_pgdir, Freeable, Entries')
    BY <2>6, <2>7, KeptEntries
  <2>9. Kept(mem', kern_pgdir', Freeable', Entries')
    BY <2>1, <2>5, <2>8
  <2>10. mem' \in Memory
    BY <2>9 DEF Kept
  <2> QED BY <2>1, <2>3, <2>4, <2>5, <2>9, <2>10 DEF IInv
<1> QED
  BY <1>1, <1>2

\* A table of entries that boot_map_region fills from its first one on: one of
\* the windows on an array of boot_alloc's.
LEMMA MapTable ==
  ASSUME IInv, stage \in Checked, NEW next, NEW i \in Below \ {0, 1},
         next \in Past(i), stage \notin Past(i),
         \A j \in Below \ {i} : stage \in Past(j) <=> next \in Past(j),
         NEW va \in Va, va[1] = i, va[2] = 0, NEW pa \in Nat, NEW perm \in SUBSET Perm,
         \A v \in Va : v[1] = i => Layout(v) = [pg |-> pa + v[2], perm |-> perm],
         NEW m, m = boot_map_region(mem, va, NPT, pa, perm), m # Null
  PROVE  \E c : Kept(m, kern_pgdir, Freeable, c) /\ EntriesIn(c, next)
<1>1. PICK N \in Nat \ {0} : N = NPT /\ Ix = 0 .. N - 1
  BY Constants
<1>2. i \in Ix /\ i \in Nat
  BY <1>1 DEF Below
<1>3. \A k \in 1 .. N : Ahead(va, k)[1] \in Below \ {0, 1}
  <2> SUFFICES ASSUME NEW k \in 1 .. N PROVE Ahead(va, k)[1] \in Below \ {0, 1}
    OBVIOUS
  <2>1. PICK j, z \in Nat : j = 0 /\ z = 1 /\ va[2] = j /\ j \in Nat /\ j + N <= z * NPT
    BY <1>1
  <2>2. Ahead(va, k)[1] \in i .. i + z - 1
    BY <1>2, <2>1, AheadInside
  <2> QED BY <1>2, <2>1, <2>2
<1>4. PICK old : old = Entries
  OBVIOUS
<1>5. Kept(mem, kern_pgdir, Freeable, old)
  BY <1>4 DEF IInv
<1>6. PICK c : Extended(old, c, va, N, pa, perm) /\ Kept(m, kern_pgdir, Freeable, c)
  <2>1. m = boot_map_region(mem, va, N, pa, perm)
    BY <1>1
  <2>2. PICK d, S : d = kern_pgdir /\ S = Freeable
    OBVIOUS
  <2> QED BY <1>1, <1>3, <1>5, <2>1, <2>2, BootMap
<1>7. EntriesIn(c, next)
  <2> SUFFICES ASSUME NEW v \in Va, v[1] \in Below
               PROVE  c[v] = IF next \in Past(v[1]) THEN Layout(v) ELSE Null
    BY DEF EntriesIn
  <2>1. PICK x \in Ix, y \in Ix : v[1] = x /\ v[2] = y
    BY DEF Va
  <2>2. /\ Position(va, v) \in Int
        /\ x = i => Position(va, v) = y /\ y \in 0 .. N - 1
        /\ x > i => Position(va, v) >= N
        /\ x < i => Position(va, v) < 0
    BY <1>1, <1>2, <2>1, PositionFrom
  <2>3. old[v] = IF stage \in Past(x) THEN Layout(v) ELSE Null
    BY <1>4, <2>1, EntriesNow DEF EntriesIn
  <2>4. c[v] = IF Position(va, v) \in 0 .. N - 1
               THEN [pg |-> pa + Position(va, v), perm |-> perm] ELSE old[v]
    BY <1>6 DEF Extended
  <2>5. CASE x = i
    <3>1. c[v] = [pg |-> pa + v[2], perm |-> perm]
      BY <2>1, <2>2, <2>4, <2>5
    <3> QED BY <2>1, <2>5, <3>1
  <2>6. CASE x # i
    <3>1. Position(va, v) \notin 0 .. N - 1
      BY <1>1, <1>2, <2>2, <2>6
    <3> QED BY <2>1, <2>3, <2>4, <2>6, <3>1
  <2> QED BY <2>5, <2>6
<1> QED
  BY <1>6, <1>7

\* The indices of inc/memlayout.h are all different.
LEMMA Indices ==
  /\ UPAGES \in Below \ {0, 1} /\ UENVS \in Below \ {0, 1} /\ KSTACK \in Below \ {0, 1}
  /\ UPAGES # UENVS /\ UPAGES # KSTACK /\ UENVS # KSTACK
  /\ UPAGES < KB /\ UENVS < KB /\ KSTACK < KB /\ UVPT < KB /\ KB \in Nat /\ KB > 2
<1>1. /\ KB \in Ix /\ UPAGES \in 2 .. KB - 1 /\ UENVS \in 2 .. KB - 1 /\ KSTACK \in 2 .. KB - 1
      /\ UVPT \in 2 .. KB - 1 /\ Ix = 0 .. NPT - 1 /\ NPT \in Nat
  BY MemInitAssumption
<1>2. KB \in Nat /\ KB < NPT
  BY <1>1
<1>3. UPAGES \in Ix /\ UENVS \in Ix /\ KSTACK \in Ix /\ UPAGES \notin {0, 1} /\ UENVS \notin {0, 1} /\ KSTACK \notin {0, 1}
  BY <1>1, <1>2
<1>4. UPAGES \in Nat /\ UENVS \in Nat /\ KSTACK \in Nat /\ UVPT \in Nat
  BY <1>1, <1>2
<1>5. UPAGES < KB /\ UENVS < KB /\ KSTACK < KB /\ UVPT < KB /\ KB > 2
  BY <1>1, <1>2
<1>6. UPAGES # UVPT /\ UENVS # UVPT /\ KSTACK # UVPT
      /\ UPAGES # UENVS /\ UPAGES # KSTACK /\ UENVS # KSTACK
  BY MemInitAssumption
<1> QED
  BY <1>2, <1>3, <1>5, <1>6 DEF Below

\* The window on pages[] at UPAGES.
LEMMA MapPagesStep ==
  ASSUME IInv, MapPages
  PROVE  IInv'
<1>1. PICK here, next : here = "map_pages" /\ next = "map_envs"
  OBVIOUS
<1>2. PICK va : va = <<UPAGES, 0>>
  OBVIOUS
<1>3. PICK perm : perm = {"U"}
  OBVIOUS
<1>4. PICK m : m = boot_map_region(mem, va, NPT, pages, perm) /\ Map(here, m, next)
  BY <1>1, <1>2, <1>3 DEF MapPages
<1>5. stage = here
  BY <1>4 DEF Map
<1>6. /\ here \in Checked /\ next \in Checked
      /\ next \notin {"check_free", "check_installed", "done"}
      /\ here \notin {"detect", "kern_pgdir", "pages", "panic"}
  BY <1>1 DEF Checked
<1>7. pages \in Nat
  BY <1>5, <1>6 DEF IInv
<1>8. va \in Va /\ va[1] = UPAGES /\ va[2] = 0
  BY <1>2, Indices, Indices2 DEF Va, Below
<1>9. next \in Past(UPAGES) /\ here \notin Past(UPAGES)
  BY <1>1, Indices DEF Past, Last
<1>10. \A j \in Below \ {UPAGES} : here \in Past(j) <=> next \in Past(j)
  <2> SUFFICES ASSUME NEW j, j # UPAGES PROVE here \notin Past(j) /\ next \notin Past(j)
    OBVIOUS
  <2>1. CASE j = UENVS
    BY <1>1, <2>1, Indices DEF Past, Last
  <2>2. CASE j # UENVS /\ j = KSTACK
    BY <1>1, <2>2, Indices DEF Past, Last
  <2>3. CASE j # UENVS /\ j # KSTACK
    BY <1>1, <2>3 DEF Past, Last
  <2> QED BY <2>1, <2>2, <2>3
<1>11. \A v \in Va : v[1] = UPAGES => Layout(v) = [pg |-> pages + v[2], perm |-> perm]
  BY <1>3 DEF Layout
<1>12. perm \in SUBSET Perm
  BY <1>3 DEF Perm
<1>13. m # Null => \E c : Kept(m, kern_pgdir, Freeable, c) /\ EntriesIn(c, next)
  BY <1>4, <1>5, <1>6, <1>7, <1>8, <1>9, <1>10, <1>11, <1>12, Indices, MapTable
<1> QED
  BY <1>4, <1>6, <1>13, MapStep

\* The window on envs[] at UENVS.
LEMMA MapEnvsStep ==
  ASSUME IInv, MapEnvs
  PROVE  IInv'
<1>1. PICK here, next : here = "map_envs" /\ next = "map_stack"
  OBVIOUS
<1>2. PICK va : va = <<UENVS, 0>>
  OBVIOUS
<1>3. PICK perm : perm = {"U"}
  OBVIOUS
<1>4. PICK m : m = boot_map_region(mem, va, NPT, envs, perm) /\ Map(here, m, next)
  BY <1>1, <1>2, <1>3 DEF MapEnvs
<1>5. stage = here
  BY <1>4 DEF Map
<1>6. /\ here \in Checked /\ next \in Checked
      /\ next \notin {"check_free", "check_installed", "done"}
  BY <1>1 DEF Checked
<1>7. envs \in Nat
  BY <1>5, <1>6 DEF IInv
<1>8. va \in Va /\ va[1] = UENVS /\ va[2] = 0
  BY <1>2, Indices, Indices2 DEF Va, Below
<1>9. next \in Past(UENVS) /\ here \notin Past(UENVS)
  BY <1>1, Indices DEF Past, Last
<1>10. \A j \in Below \ {UENVS} : here \in Past(j) <=> next \in Past(j)
  <2> SUFFICES ASSUME NEW j, j # UENVS PROVE here \in Past(j) <=> next \in Past(j)
    OBVIOUS
  <2>1. CASE j = UPAGES
    BY <1>1, <2>1 DEF Past, Last
  <2>2. CASE j # UPAGES /\ j = KSTACK
    BY <1>1, <2>2, Indices DEF Past, Last
  <2>3. CASE j # UPAGES /\ j # KSTACK
    BY <1>1, <2>3 DEF Past, Last
  <2> QED BY <2>1, <2>2, <2>3
<1>11. \A v \in Va : v[1] = UENVS => Layout(v) = [pg |-> envs + v[2], perm |-> perm]
  BY <1>3, Indices DEF Layout
<1>12. perm \in SUBSET Perm
  BY <1>3 DEF Perm
<1>13. m # Null => \E c : Kept(m, kern_pgdir, Freeable, c) /\ EntriesIn(c, next)
  BY <1>4, <1>5, <1>6, <1>7, <1>8, <1>9, <1>10, <1>11, <1>12, Indices, MapTable
<1> QED
  BY <1>4, <1>6, <1>13, MapStep

\* The kernel's stack, one page of it in the model, below KSTACKTOP.
LEMMA MapStackStep ==
  ASSUME IInv, MapStack
  PROVE  IInv'
<1>1. PICK here, next : here = "map_stack" /\ next = "map_all"
  OBVIOUS
<1>2. PICK N \in Nat \ {0} : N = NPT /\ Ix = 0 .. N - 1
  BY Constants
<1>3. PICK va : va = <<KSTACK, N - 1>>
  OBVIOUS
<1>4. PICK perm : perm = {"W"}
  OBVIOUS
<1>5. PICK one \in Nat : one = 1
  OBVIOUS
<1>6. PICK m : m = boot_map_region(mem, va, one, bootstack, perm) /\ Map(here, m, next)
  BY <1>1, <1>2, <1>3, <1>4, <1>5 DEF MapStack
<1>7. stage = here
  BY <1>6 DEF Map
<1>8. /\ here \in Checked /\ next \in Checked
      /\ next \notin {"check_free", "check_installed", "done"}
  BY <1>1 DEF Checked
<1>9. bootstack \in Nat
  <2>1. EXTPAGE \in Nat /\ bootstack \in EXTPAGE .. ENDBYTE \div PGSIZE
    BY MemInitAssumption
  <2> QED BY <2>1
<1>10. va \in Va /\ va[1] = KSTACK /\ va[2] = N - 1 /\ KSTACK \in Ix /\ N - 1 \in Ix
  <2>1. KSTACK \in Ix /\ N - 1 \in Ix
    BY <1>2, Indices DEF Below
  <2> QED BY <1>3, <2>1 DEF Va
<1>11. next \in Past(KSTACK) /\ here \notin Past(KSTACK)
  BY <1>1, Indices DEF Past, Last
<1>12. \A j \in Below \ {KSTACK} : here \in Past(j) <=> next \in Past(j)
  <2> SUFFICES ASSUME NEW j, j # KSTACK PROVE here \in Past(j) <=> next \in Past(j)
    OBVIOUS
  <2>1. CASE j = UPAGES
    BY <1>1, <2>1, Indices DEF Past, Last
  <2>2. CASE j # UPAGES /\ j = UENVS
    BY <1>1, <2>2, Indices DEF Past, Last
  <2>3. CASE j # UPAGES /\ j # UENVS
    BY <1>1, <2>3 DEF Past, Last
  <2> QED BY <2>1, <2>2, <2>3
<1>13. perm \in SUBSET Perm
  BY <1>4 DEF Perm
<1>14. /\ KSTACK \in Nat /\ N - 1 \in Nat
       /\ \A v \in Va : v[1] = KSTACK => Layout(v) = IF v[2] = N - 1 THEN [pg |-> bootstack, perm |-> perm] ELSE Null
  <2>1. KSTACK \in Nat /\ N - 1 \in Nat /\ ~ (KSTACK >= KB)
    BY <1>2, <1>10, Indices
  <2> QED BY <1>2, <1>4, <2>1, Indices DEF Layout
<1>15. Ahead(va, one)[1] = KSTACK /\ Ahead(va, one) = va
  <2>1. PICK a \in Nat : a = N - 1 /\ a = va[2] + one - 1
    BY <1>2, <1>5, <1>10
  <2>2. PICK q, r : Divided(a, N, q, r)
    BY DEF Divided
  <2>3. q \in Nat /\ r \in 0 .. N - 1
    BY <2>2, Division
  <2>4. a = q * N + r
    BY <2>2, Division
  <2>5. PICK zero \in Nat : zero = 0
    OBVIOUS
  <2>6. zero * N + a = q * N + r /\ a \in 0 .. N - 1
    BY <2>1, <2>4, <2>5
  <2>7. q = zero /\ r = a
    BY <2>3, <2>5, <2>6, DivisionUnique
  <2>8. Ahead(va, one) = <<KSTACK + q, r>>
    BY <1>2, <1>10, <2>1, <2>2 DEF Ahead, Divided
  <2>9. KSTACK + q = KSTACK
    BY <1>14, <2>5, <2>7
  <2> QED BY <1>3, <2>1, <2>7, <2>8, <2>9
<1>16. \A v \in Va : Position(va, v) \in Int /\ (Position(va, v) = one - 1 <=> v = va)
  <2>1. one \in Nat \ {0} /\ Ahead(va, one)[1] \in Ix
    BY <1>5, <1>10, <1>15
  <2> QED BY <1>10, <1>15, <2>1, AheadPosition
<1>17. m # Null => \E c : Kept(m, kern_pgdir, Freeable, c) /\ EntriesIn(c, next)
  <2> SUFFICES ASSUME m # Null
               PROVE  \E c : Kept(m, kern_pgdir, Freeable, c) /\ EntriesIn(c, next)
    OBVIOUS
  <2>1. PICK old, d, S : old = Entries /\ d = kern_pgdir /\ S = Freeable
    OBVIOUS
  <2>2. Kept(mem, d, S, old)
    BY <1>7, <1>8, <2>1 DEF IInv
  <2>3. \A k \in 1 .. one : Ahead(va, k)[1] \in Below \ {0, 1}
    <3>1. \A k \in 1 .. one : k = one
      BY <1>5
    <3> QED BY <1>15, <3>1, Indices
  <2>4. PICK c : Extended(old, c, va, one, bootstack, perm) /\ Kept(m, d, S, c)
    BY <1>6, <1>9, <1>10, <1>13, <2>1, <2>2, <2>3, BootMap
  <2>5. EntriesIn(c, next)
    <3> SUFFICES ASSUME NEW v \in Va, v[1] \in Below
                 PROVE  c[v] = IF next \in Past(v[1]) THEN Layout(v) ELSE Null
      BY DEF EntriesIn
    <3>1. PICK x \in Ix, y \in Ix : v[1] = x /\ v[2] = y /\ v = <<x, y>>
      BY DEF Va
    <3>2. old[v] = IF here \in Past(x) THEN Layout(v) ELSE Null
      BY <1>7, <2>1, <3>1, EntriesNow DEF EntriesIn
    <3>3. PICK p \in Int : p = Position(va, v) /\ (p \in 0 .. one - 1 <=> v = va) /\ (v = va => p = 0)
      <4>1. PICK p \in Int : p = Position(va, v) /\ (p = one - 1 <=> v = va)
        BY <1>16
      <4> QED BY <1>5, <4>1
    <3>4. c[v] = IF v = va THEN [pg |-> bootstack + p, perm |-> perm] ELSE old[v]
      BY <2>4, <3>3 DEF Extended
    <3>5. CASE x = KSTACK /\ y = N - 1
      <4>1. v = va /\ bootstack + p = bootstack
        BY <1>3, <1>9, <3>1, <3>3, <3>5
      <4>2. c[v] = [pg |-> bootstack, perm |-> perm]
        BY <3>4, <4>1
      <4>3. Layout(v) = [pg |-> bootstack, perm |-> perm]
        BY <1>14, <3>1, <3>5
      <4> QED BY <1>11, <3>1, <3>5, <4>2, <4>3
    <3>6. CASE x = KSTACK /\ y # N - 1
      <4>1. c[v] = Null
        BY <1>10, <1>11, <3>1, <3>2, <3>4, <3>6
      <4>2. Layout(v) = Null
        BY <1>14, <3>1, <3>6
      <4> QED BY <1>11, <3>1, <3>6, <4>1, <4>2
    <3>7. CASE x # KSTACK
      <4>1. c[v] = old[v]
        BY <1>10, <3>1, <3>4, <3>7
      <4> QED BY <1>12, <3>1, <3>2, <3>7, <4>1
    <3> QED BY <3>5, <3>6, <3>7
  <2> QED BY <2>1, <2>4, <2>5
<1> QED
  BY <1>6, <1>8, <1>17, MapStep

\* All of physical memory at KERNBASE.
LEMMA MapAllStep ==
  ASSUME IInv, MapAll
  PROVE  IInv'
<1>1. PICK here, next : here = "map_all" /\ next = "check_kern"
  OBVIOUS
<1>2. PICK N \in Nat \ {0} : N = NPT /\ Ix = 0 .. N - 1
  BY Constants
<1>3. PICK zero \in Nat : zero = 0
  OBVIOUS
<1>4. PICK va : va = <<KB, zero>>
  OBVIOUS
<1>5. PICK perm : perm = {"W"}
  OBVIOUS
<1>6. PICK z \in Nat, K \in Nat : z = N - K /\ K = KB /\ K > 2 /\ K \in Ix /\ N = K + z
  <2>1. KB \in Ix
    BY Zenon, Constants
  <2> QED BY <1>2, <2>1, Indices
<1>7. PICK n \in Nat : n = MaxPages /\ n = z * N
  <2>1. z * N \in Nat
    BY <1>2, <1>6
  <2> QED BY <1>2, <1>6, <2>1 DEF MaxPages
<1>8. PICK m : m = boot_map_region(mem, va, n, zero, perm) /\ Map(here, m, next)
  BY <1>1, <1>3, <1>4, <1>5, <1>7 DEF MapAll
<1>9. stage = here
  BY <1>8 DEF Map
<1>10. /\ here \in Checked /\ next \in Checked
       /\ next \notin {"check_free", "check_installed", "done"}
  BY <1>1 DEF Checked, Last
<1>11. va \in Va /\ va[1] = K /\ va[2] = 0
  BY <1>3, <1>4, <1>6, Indices2 DEF Va
<1>12. perm \in SUBSET Perm
  BY <1>5 DEF Perm
<1>13. \A k \in 1 .. n : Ahead(va, k)[1] \in Below \ {0, 1}
  <2> SUFFICES ASSUME NEW k \in 1 .. n PROVE Ahead(va, k)[1] \in Below \ {0, 1}
    OBVIOUS
  <2>1. zero + n <= z * NPT /\ va[2] = zero
    BY <1>2, <1>3, <1>7, <1>11
  <2>2. Ahead(va, k)[1] \in K .. K + z - 1
    BY <1>11, <2>1, AheadInside
  <2>3. PICK a \in Ix : a = Ahead(va, k)[1] /\ a >= K
    BY <1>2, <1>6, <2>2
  <2>4. a # 0 /\ a # 1 /\ a # UVPT
    BY <1>2, <1>6, <2>3, Indices, Indices2
  <2> QED BY <2>3, <2>4 DEF Below
<1>14. m # Null => \E c : Kept(m, kern_pgdir, Freeable, c) /\ EntriesIn(c, next)
  <2> SUFFICES ASSUME m # Null
               PROVE  \E c : Kept(m, kern_pgdir, Freeable, c) /\ EntriesIn(c, next)
    OBVIOUS
  <2>1. PICK old, d, S : old = Entries /\ d = kern_pgdir /\ S = Freeable
    OBVIOUS
  <2>2. Kept(mem, d, S, old)
    BY <1>9, <1>10, <2>1 DEF IInv
  <2>3. PICK c : Extended(old, c, va, n, zero, perm) /\ Kept(m, d, S, c)
    BY <1>8, <1>11, <1>12, <1>13, <2>1, <2>2, BootMap
  <2>4. EntriesIn(c, next)
    <3> SUFFICES ASSUME NEW v \in Va, v[1] \in Below
                 PROVE  c[v] = IF next \in Past(v[1]) THEN Layout(v) ELSE Null
      BY DEF EntriesIn
    <3>1. PICK x \in Ix, y \in Ix : v[1] = x /\ v[2] = y
      BY DEF Va
    <3>2. old[v] = IF here \in Past(x) THEN Layout(v) ELSE Null
      BY <1>9, <2>1, <3>1, EntriesNow DEF EntriesIn
    <3>3. /\ Position(va, v) \in Int
          /\ x = K => Position(va, v) = y
          /\ x > K => Position(va, v) >= N
          /\ x < K => Position(va, v) < 0
      BY <1>2, <1>6, <1>11, <3>1, PositionFrom
    <3>4. PICK p \in Int : p = Position(va, v)
      BY <3>3
    <3>5. c[v] = IF p \in 0 .. n - 1 THEN [pg |-> zero + p, perm |-> perm] ELSE old[v]
      BY <2>3, <3>4 DEF Extended
    <3>6. next \in Past(x)
      BY <1>1 DEF Past, Last
    <3>7. CASE x >= K
      <4>1. PICK u \in Nat : u = x - K /\ u <= z - 1
        BY <1>2, <1>6, <3>7
      <4>2. p = u * N + y
        BY <1>2, <1>11, <3>1, <3>4, <4>1 DEF Position
      <4>3. u + 1 \in Nat /\ u + 1 <= z /\ N \in Nat
        BY <4>1
      <4>4. (u + 1) * N <= z * N
        BY <4>3, ProductMonotone, <1>6
      <4>5. (u + 1) * N = u * N + N /\ u * N \in Nat
        BY <1>2, <4>1
      <4>6. p \in 0 .. n - 1
        BY <1>2, <1>7, <3>1, <4>2, <4>4, <4>5
      <4>7. c[v] = [pg |-> p, perm |-> perm]
        BY <1>3, <3>5, <4>6
      <4>8. p = (x - KB) * NPT + y
        BY <1>2, <1>6, <4>1, <4>2
      <4>9. x >= KB /\ x # UPAGES /\ x # UENVS /\ x # KSTACK
        BY <1>2, <1>6, <3>7, Indices
      <4>10. Layout(v) = [pg |-> p, perm |-> perm]
        BY <1>5, <3>1, <4>8, <4>9 DEF Layout
      <4> QED BY <3>1, <3>6, <4>7, <4>10
    <3>8. CASE ~ (x >= K)
      <4>1. p \notin 0 .. n - 1
        BY <1>2, <1>6, <3>3, <3>4, <3>8
      <4>2. c[v] = old[v]
        BY <3>5, <4>1
      <4>3. CASE x = UPAGES \/ x = UENVS \/ x = KSTACK
        <5>1. here \in Past(x)
          BY <1>1, <4>3, Indices DEF Past, Last
        <5> QED BY <3>1, <3>2, <3>6, <4>2, <5>1
      <4>4. CASE x # UPAGES /\ x # UENVS /\ x # KSTACK
        <5>1. here \notin Past(x)
          BY <1>1, <4>4 DEF Past, Last
        <5>2. Layout(v) = Null
          BY <1>6, <3>1, <3>8, <4>4 DEF Layout
        <5> QED BY <3>1, <3>2, <4>2, <5>1, <5>2
      <4> QED BY <4>3, <4>4
    <3> QED BY <3>7, <3>8
  <2> QED BY <2>1, <2>3, <2>4
<1> QED
  BY <1>8, <1>10, <1>14, MapStep

----------------------------------------------------------------------------
(* The invariant.                                                          *)

\* What entry.S and the linker leave to mem_init satisfies the invariant.
LEMMA InitStep ==
  ASSUME Init
  PROVE  IInv
<1>1. /\ NPT \in Nat \ {0} /\ PGSIZE \in Nat \ {0} /\ ENDBYTE \in Nat /\ EXTPAGE \in Nat /\ KB \in Ix
      /\ Ix = 0 .. NPT - 1 /\ ENDBYTE \div PGSIZE \in Frame
  BY MemInitAssumption
<1>2. Frame \subseteq Nat
  <2>1. MaxPages \in Int
    BY <1>1 DEF MaxPages
  <2> QED BY <2>1, MemInitAssumption
<1>3. PICK last \in Nat : last = ENDBYTE \div PGSIZE /\ last \in Frame
  BY <1>1, <1>2
<1>4. \A p \in EXTPAGE .. last : p \in Frame /\ p \in Nat
  <2>1. MaxPages \in Int /\ Frame = 0 .. MaxPages - 1
    BY <1>1, MemInitAssumption DEF MaxPages
  <2> QED BY <1>1, <1>3, <2>1
<1>5. entry_pgdir \in Frame /\ entry_pgtable \in Nat /\ EXTPAGE <= last
  <2>1. entry_pgdir \in EXTPAGE .. last /\ entry_pgtable \in EXTPAGE .. last
    BY <1>3, MemInitAssumption
  <2> QED BY <1>1, <1>3, <1>4, <2>1
<1>6. mem \in Memory
  <2>1. \A i \in Ix : i \in Nat
    BY <1>1
  <2>2. EntryTables \in [Frame -> [Ix -> Cell]]
    <3> SUFFICES ASSUME NEW f \in Frame PROVE EntryTables[f] \in [Ix -> Cell]
      BY DEF EntryTables
    <3>1. CASE f = entry_pgdir
      BY <1>5, <3>1 DEF EntryTables, Cell, Perm
    <3>2. CASE f # entry_pgdir /\ f = entry_pgtable
      BY <2>1, <3>2 DEF EntryTables, Cell, Perm
    <3>3. CASE f # entry_pgdir /\ f # entry_pgtable
      <4>1. EntryTables[f] = Junk(f)
        BY <3>3 DEF EntryTables
      <4>2. Junk(f) \in [Ix -> Cell]
        BY <1>2 DEF Junk, Cell, Perm
      <4> QED BY <4>1, <4>2
    <3> QED BY <3>1, <3>2, <3>3
  <2>3. PICK T \in [Frame -> [Ix -> Cell]] : T = EntryTables
    BY <2>2
  <2>4. mem = [pp_ref |-> [f \in Frame |-> 0], pp_link |-> [f \in Frame |-> Null],
               page_free_list |-> Null, tab |-> T, cr3 |-> entry_pgdir,
               tlb |-> [va \in Va |-> Null]]
    BY <2>3 DEF Init
  <2> QED BY <1>5, <2>4 DEF Memory, Cell
<1>7. Sizes
  <2>1. nextfree \in Nat /\ ENDBYTE <= nextfree
    BY <1>1, RoundUpIs DEF Init
  <2>2. last <= nextfree \div PGSIZE /\ nextfree \div PGSIZE \in Nat
    BY <1>1, <1>3, <2>1, NextPage
  <2>3. npages = 0
    BY DEF Init
  <2>4. NPT * NPT \in Nat
    BY <1>1
  <2> QED BY <1>1, <1>3, <1>5, <2>1, <2>2, <2>3, <2>4 DEF Sizes
<1>8. \A va \in Va : mem.tlb[va] = Null
  BY DEF Init
<1>9. stage = "detect" /\ stage \notin Checked
  BY DEF Init, Checked, Last
<1> QED
  BY <1>6, <1>7, <1>8, <1>9 DEF IInv

\* Each statement of mem_init preserves the invariant.
LEMMA NextStep ==
  ASSUME IInv, [Next]_vars
  PROVE  IInv'
<1>1. CASE Detect
  BY <1>1, DetectStep
<1>2. CASE AllocPgdir
  BY <1>2, AllocPgdirStep
<1>3. CASE AllocPages
  BY <1>3, AllocPagesStep
<1>4. CASE AllocEnvs
  BY <1>4, AllocEnvsStep
<1>5. CASE PageInit
  BY <1>5, PageInitStep
<1>6. CASE CheckFreeLow
  BY <1>6, CheckFreeLowStep
<1>7. CASE CheckAlloc
  BY <1>7, CheckAllocStep
<1>8. CASE CheckPage
  BY <1>8, CheckPageStep
<1>9. CASE MapPages
  BY <1>9, MapPagesStep
<1>10. CASE MapEnvs
  BY <1>10, MapEnvsStep
<1>11. CASE MapStack
  BY <1>11, MapStackStep
<1>12. CASE MapAll
  BY <1>12, MapAllStep
<1>13. CASE CheckKern
  BY <1>13, CheckKernStep
<1>14. CASE LoadCr3
  BY <1>14, LoadCr3Step
<1>15. CASE CheckFree
  BY <1>15, CheckFreeStep
<1>16. CASE CheckInstalled
  BY <1>16, CheckInstalledStep
<1>17. CASE UNCHANGED vars
  BY <1>17 DEF IInv, vars, Sizes, Allotted, Freeable, Entries, Layout
<1> QED
  BY <1>1, <1>2, <1>3, <1>4, <1>5, <1>6, <1>7, <1>8, <1>9, <1>10, <1>11, <1>12,
     <1>13, <1>14, <1>15, <1>16, <1>17 DEF Next

\* Throughout mem_init: the types of its variables, what boot_alloc has given
\* out, and from page_init on the free list, the page tables and the entries.
THEOREM Inductive == Spec => []IInv
<1>1. Init => IInv
  BY InitStep
<1>2. IInv /\ [Next]_vars => IInv'
  BY NextStep
<1> QED
  BY <1>1, <1>2, PTL DEF Spec

\* The free list is never wrong: from page_init on, after every check and every
\* mapping, it holds each page that is nobody's once, and no other page.
THEOREM FreeListExact == Spec => []FreeExact
<1>1. ASSUME IInv PROVE FreeExact
  <2> SUFFICES ASSUME stage \in Checked
               PROVE  IsFreeChain(mem, {p \in 1 .. npages - 1 : p \notin IOPAGE .. EXTPAGE - 1
                                           /\ p \notin EXTPAGE .. (nextfree \div PGSIZE) - 1
                                           /\ p \notin Tables})
    BY <1>1 DEF FreeExact, IInv
  <2>1. PICK d, S : d = kern_pgdir /\ S = Freeable /\ Kept(mem, d, S, Entries)
    BY <1>1 DEF IInv
  <2>2. d \in Frame /\ S \subseteq Frame /\ d \notin S /\ mem \in Memory /\ Null \notin Frame
    BY <2>1, PmapAssumption DEF Kept
  <2>3. \A p \in S : p \in Tables <=> \E i \in Below : mem.tab[d][i] = Pde(p)
    <3> TAKE p \in S
    <3>1. ASSUME p \in Tables PROVE \E i \in Below : mem.tab[d][i] = Pde(p)
      <4>1. PICK i \in Ix : mem.tab[d][i] # Null /\ mem.tab[d][i].pg = p
        BY <2>1, <3>1 DEF Tables
      <4>2. CASE i = UVPT
        <5>1. mem.tab[d][i] = [pg |-> d, perm |-> {"U"}]
          BY <2>1, <4>2 DEF Kept
        <5>2. p = d
          BY <4>1, <5>1
        <5> QED BY <2>2, <5>2
      <4>3. CASE i # UVPT
        <5>1. i \in Below
          BY <4>3 DEF Below
        <5>2. PICK t \in S : mem.tab[d][i] = Pde(t)
          BY <2>1, <4>1, <5>1 DEF Kept
        <5>3. t = p
          BY <2>2, <4>1, <5>2, PdeFields
        <5> QED BY <5>1, <5>2, <5>3
      <4> QED BY <4>2, <4>3
    <3>2. ASSUME \E i \in Below : mem.tab[d][i] = Pde(p) PROVE p \in Tables
      <4>1. PICK i \in Below : mem.tab[d][i] = Pde(p)
        BY <3>2
      <4>2. p \in Frame /\ i \in Ix /\ kern_pgdir # Null
        BY <2>1, <2>2 DEF Below
      <4>3. mem.tab[kern_pgdir][i] # Null /\ mem.tab[kern_pgdir][i].pg = p
        BY <2>1, <4>1, <4>2, PdeFields
      <4> QED BY <4>2, <4>3 DEF Tables
    <3> QED BY <3>1, <3>2
  <2>4. Unused(mem, d, S) = {p \in S : p \notin Tables}
    BY <2>3 DEF Unused
  <2>5. {p \in S : p \notin Tables} =
          {p \in 1 .. npages - 1 : p \notin IOPAGE .. EXTPAGE - 1
                                /\ p \notin EXTPAGE .. (nextfree \div PGSIZE) - 1
                                /\ p \notin Tables}
    BY <2>1 DEF Freeable
  <2>6. PICK F \in SUBSET Frame : F = Unused(mem, d, S)
    BY <2>2 DEF Unused
  <2>7. IsFreeList(mem, F)
    BY <2>1, <2>6 DEF Kept
  <2>8. IsFreeChain(mem, F)
    BY <2>7, ListIsChain
  <2> QED BY <2>4, <2>5, <2>6, <2>8
<1> QED
  BY <1>1, Inductive, PTL

\* When mem_init is done, %cr3 holds the kernel's directory, and it is the map
\* of inc/memlayout.h: the windows on pages[] and envs[], the kernel's stack
\* with nothing mapped below it, all memory above KERNBASE and nothing else.
THEOREM MemoryLaidOut == Spec => []LayoutOK
<1>1. ASSUME IInv PROVE LayoutOK
  <2> SUFFICES ASSUME stage = "done"
               PROVE  /\ mem.cr3 = kern_pgdir
                      /\ \A va \in Va : va[1] # UVPT =>
                           /\ translate(mem, kern_pgdir, va) = Layout(va)
                           /\ mem.tlb[va] = Null
                      /\ mem.tab[kern_pgdir][UVPT] = [pg |-> kern_pgdir, perm |-> {"U"}]
    BY DEF LayoutOK
  <2>1. stage \in Checked
    BY DEF Checked, Last
  <2>2. PICK d, S : d = kern_pgdir /\ S = Freeable /\ Kept(mem, d, S, Entries)
    BY <1>1, <2>1 DEF IInv
  <2>3. mem.cr3 = d
    BY <1>1, <2>2 DEF IInv
  <2>4. d \in Frame /\ S \subseteq Frame /\ mem \in Memory
    BY <2>2 DEF Kept
  <2>5. ASSUME NEW va \in Va, va[1] # UVPT
        PROVE  translate(mem, d, va) = Layout(va) /\ mem.tlb[va] = Null
    <3>1. PICK i \in Below, j \in Ix : va[1] = i /\ va[2] = j
      BY <2>5 DEF Va, Below
    <3>2. "done" \in Past(i)
      BY DEF Past, Last
    <3>3. Pte(mem, d, va) = Layout(va)
      BY <2>2, <3>1, <3>2, EntriesNow DEF Kept, EntriesIn
    <3>4. mem.tlb[va] = Null
      BY <2>2 DEF Kept
    <3>5. CASE mem.tab[d][i] = Null
      BY <3>1, <3>3, <3>4, <3>5 DEF Pte, translate
    <3>6. CASE mem.tab[d][i] # Null
      <4>1. PICK t \in S : mem.tab[d][i] = Pde(t)
        BY <2>2, <3>1, <3>6 DEF Kept
      <4>2. PICK pde : pde = Pde(t) /\ pde # Null /\ pde.pg = t /\ pde.perm = Perm
        BY <2>4, <4>1, PdeFields
      <4>3. PICK e \in Cell : e = mem.tab[t][j]
        BY <2>4, <3>1, <4>1 DEF Memory
      <4>4. e = Layout(va)
        BY <3>1, <3>3, <4>1, <4>2, <4>3 DEF Pte
      <4>5. translate(mem, d, va) = IF e = Null THEN Null ELSE [e EXCEPT !.perm = @ \cap Perm]
        BY <3>1, <4>1, <4>2, <4>3 DEF translate
      <4>6. e # Null => [e EXCEPT !.perm = @ \cap Perm] = e
        BY DEF Cell
      <4> QED BY <3>4, <4>4, <4>5, <4>6
    <3> QED BY <3>5, <3>6
  <2>6. mem.tab[d][UVPT] = [pg |-> d, perm |-> {"U"}]
    BY <2>2 DEF Kept
  <2> QED BY <2>2, <2>3, <2>5, <2>6
<1> QED
  BY <1>1, Inductive, PTL

=============================================================================
