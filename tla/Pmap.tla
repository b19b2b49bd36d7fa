-------------------------------- MODULE Pmap --------------------------------
(***************************************************************************)
(* kern/pmap.c after page_init, under any sequence of calls that respects  *)
(* the comments above its functions: the allocator, the page tables below  *)
(* UTOP of the directories Dir, and the processor that caches what it      *)
(* finds in the current one.  One action is one call of the kernel.        *)
(***************************************************************************)
EXTENDS PmapOps

CONSTANTS
  Dir,        \* the directories callers name, all of them boot_alloc'ed
  PermChoice, \* the values of perm that callers pass to page_insert
  Words,      \* the frames that data, were it read as entries, would name
  MaxMap      \* bound: callers keep a page mapped at fewer than MaxMap places

ASSUME DirAssumption ==
  /\ Dir \subseteq Root /\ Dir # {}
  /\ PermChoice \subseteq SUBSET Perm
  /\ Words \subseteq Frame /\ Words # {}
  /\ MaxMap \in Nat

VARIABLES
  mem,   \* the state the operations act on
  held   \* ghost: pages page_alloc returned that are neither mapped nor freed

vars == <<mem, held>>

\* The frames that directory entries of m name as page tables.
Tables(m) == {f \in Frame : \E d \in Dir, i \in Ix :
                 m.tab[d][i] # Null /\ m.tab[d][i].pg = f}

\* A slot <<f, i>> is entry i of a directory or of a page table in use.
Slots(m) == (Dir \cup Tables(m)) \X Ix

\* The slots of m that name frame p.
Refs(m, p) == {s \in Slots(m) : /\ m.tab[s[1]][s[2]] # Null
                               /\ m.tab[s[1]][s[2]].pg = p}

\* The pages that should be on the free list when callers hold h: nobody
\* holds or references them.
FreePages(m, h) == {p \in Page : m.pp_ref[p] = 0 /\ p \notin h}

\* Pages a caller may write or map: it holds them or has mapped them.
DataPage == {p \in Page \ Tables(mem) : p \in held \/ mem.pp_ref[p] > 0}

----------------------------------------------------------------------------
(* page_init leaves every page it manages on the free list, and nothing is
   known of what they contain.                                             *)

\* Some order of the pages of S: the code pushes them in ascending order.
Order(S) == CHOOSE s \in [1 .. Cardinality(S) -> S] :
              /\ \A p \in S : \E i \in 1 .. Cardinality(S) : s[i] = p
              /\ \A i, j \in 1 .. Cardinality(S) : s[i] = s[j] => i = j

Init ==
  /\ mem = [pp_ref  |-> [f \in Frame |-> IF f \in Root THEN 1 ELSE 0],
            pp_link |-> page_init(Order(Page)).link,
            page_free_list |-> page_init(Order(Page)).head,
            tab  |-> [f \in Frame |-> IF f \in Root THEN Blank
                                          ELSE Junk(CHOOSE q \in Words : TRUE)],
            cr3  |-> CHOOSE d \in Dir : TRUE,
            tlb  |-> [va \in Va |-> Null]]
  /\ held = {}

Alloc_unchecked(zero) ==
  LET a == page_alloc(mem, zero)
  IN  /\ mem' = a.mem
      /\ held' = held \cup {a.pg}

\* page_alloc hands a page to the caller; a NULL result changes nothing.
Alloc(zero) ==
  LET a == page_alloc(mem, zero)
  IN  /\ a.pg # Null
      /\ mem' = a.mem
      /\ held' = held \cup {a.pg}

\* "This function should only be called when pp->pp_ref reaches 0."
Free(p) ==
  /\ p \in held
  /\ mem' = page_free(mem, p)
  /\ held' = held \ {p}

\* The caller fills a page it may write with words of its choice.
Write(p, q) ==
  /\ p \in DataPage
  /\ mem' = [mem EXCEPT !.tab[p] = Junk(q)]
  /\ UNCHANGED held

\* page_insert.  Its return value tells the caller whether it still holds p.
Insert(d, p, va, perm) ==
  LET r == page_insert(mem, d, p, va, perm)
  IN  /\ p \in DataPage /\ mem.pp_ref[p] < MaxMap
      /\ mem' = r.mem
      /\ held' = IF r.ok THEN held \ {p} ELSE held

Remove(d, va) ==
  /\ mem' = page_remove(mem, d, va)
  /\ UNCHANGED held

\* pgdir_walk(create) by itself, as boot_map_region and check_page call it.
Walk(d, va) ==
  /\ mem' = pgdir_walk(mem, d, va, TRUE).mem
  /\ UNCHANGED held

\* check_page "forcibly takes back" a page table it has emptied.
TakeBack(d, i) ==
  LET pt == mem.tab[d][i].pg
  IN  /\ mem.tab[d][i] # Null
      /\ mem.tab[pt] = Blank
      /\ mem' = [mem EXCEPT !.tab[d][i] = Null, !.pp_ref[pt] = 0]
      /\ held' = held \cup {pt}

Lcr3(d) ==
  /\ mem' = lcr3(mem, d)
  /\ UNCHANGED held

\* The processor, at any moment, caches a translation it finds present.
TlbFill(va) ==
  /\ translate(mem, mem.cr3, va) # Null
  /\ mem' = tlb_fill(mem, va)
  /\ UNCHANGED held

Next ==
  \/ \E zero \in BOOLEAN : Alloc(zero)
  \/ \E p \in Page : Free(p)
  \/ \E p \in Page, q \in Words : Write(p, q)
  \/ \E d \in Dir, p \in Page, va \in Va, perm \in PermChoice : Insert(d, p, va, perm)
  \/ \E d \in Dir, va \in Va : Remove(d, va) \/ Walk(d, va)
  \/ \E d \in Dir, i \in Ix : TakeBack(d, i)
  \/ \E d \in Dir : Lcr3(d)
  \/ \E va \in Va : TlbFill(va)

Spec == Init /\ [][Next]_vars

----------------------------------------------------------------------------
(* Properties *)

\* Every variable has its type.
TypeOK == mem \in Mem /\ held \in SUBSET Page

\* The free list holds exactly the pages that are neither held nor referenced:
\* page_alloc, page_free and page_decref never lose a page, link one in twice
\* or leave a page in use on the list.
FreeListOK == IsFreeList(mem, FreePages(mem, held))

\* "pp_ref is the count of pointers (usually in page table entries) to this
\* page": of the directory and table entries that name it, through every
\* remapping, re-insertion at the same place, and reuse of a page as a table.
RefExact == \A p \in Page : mem.pp_ref[p] = Cardinality(Refs(mem, p))

\* A page serves as a page table for one directory entry and is not mapped
\* as data at the same time: no mapping can be edited through another.
TablesUnshared ==
  \A p \in Tables(mem) : p \in Page /\ Cardinality(Refs(mem, p)) = 1

(***************************************************************************)
(* The inductive invariant behind FreeListOK, RefExact and TablesUnshared. *)
(* Inside page_insert the count of the page being mapped is one ahead of   *)
(* the entries: x is that page, and Null between calls.                    *)
(***************************************************************************)
Consistent(m, h, x) ==
  /\ m \in Mem /\ h \in SUBSET Page
  /\ IsFreeList(m, FreePages(m, h))
  /\ \A f \in Root : Refs(m, f) = {}
  /\ \A p \in Page : m.pp_ref[p] = Cardinality(Refs(m, p)) + (IF p = x THEN 1 ELSE 0)
  /\ \A p \in Tables(m) : \A s, t \in Refs(m, p) : s = t
  /\ \A p \in h : m.pp_ref[p] = 0
  /\ x # Null => x \in Page /\ x \notin h /\ x \notin Tables(m)

Inv == Consistent(mem, held, Null)

\* What the processor has cached is still in the current directory: page_remove
\* and page_insert invalidate whatever they change, on every path.
TlbCoherent ==
  \A va \in Va : mem.tlb[va] # Null =>
    LET now == translate(mem, mem.cr3, va)
    IN  /\ now # Null
        /\ now.pg = mem.tlb[va].pg /\ mem.tlb[va].perm \subseteq now.perm

(***************************************************************************)
(* The inductive invariant behind TlbCoherent and ImplementsVSpace: an     *)
(* entry of a directory never restricts what its table grants, and what is *)
(* cached is exactly what the directory in %cr3 says.                      *)
(***************************************************************************)
PdesOpen(m) ==
  \A d \in Dir, i \in Ix : m.tab[d][i] # Null => m.tab[d][i].perm = Perm

TlbExact(m) ==
  \A va \in Va : m.tlb[va] # Null => m.tlb[va] = translate(m, m.cr3, va)

MmuInv == Inv /\ mem.cr3 \in Dir /\ PdesOpen(mem) /\ TlbExact(mem)

(***************************************************************************)
(* The address spaces that the page tables stand for, as VSpace sees them. *)
(***************************************************************************)
Space == [s \in Dir \X Va |-> translate(mem, s[1], s[2])]

VS == INSTANCE VSpace WITH space <- Space, PermSet <- PermChoice

\* pmap.c implements VSpace: whatever the calls, each is a single abstract
\* operation or changes nothing; no page in use is ever given out, no address
\* is affected but the one named, and a failed page_insert changes no mapping.
ImplementsVSpace == VS!VSSpec

=============================================================================
