------------------------------ MODULE MemInit ------------------------------
(***************************************************************************)
(* mem_init of kern/pmap.c: from the memory that the CMOS reports to a     *)
(* free list, a kernel directory in %cr3 and a machine that has passed its *)
(* own checks.  Each action is a statement of mem_init.  Frames are page   *)
(* numbers; addresses are counted in bytes of a small page.                *)
(***************************************************************************)
EXTENDS PmapOps

CONSTANTS
  NPT,         \* NPDENTRIES = NPTENTRIES; also the pages that entry_pgdir maps
  PGSIZE,      \* bytes per page
  KB,          \* PDX(KERNBASE)
  UENVS, UPAGES, UVPT, KSTACK,  \* PDX of UENVS, UPAGES, UVPT, KSTACKTOP - 1
  IOPAGE,      \* IOPHYSMEM / PGSIZE
  EXTPAGE,     \* EXTPHYSMEM / PGSIZE, where the kernel is loaded
  entry_pgdir, entry_pgtable, bootstack,  \* pages of the kernel's image
  ENDBYTE,     \* the address "end", less KERNBASE
  PAGEINFO, ENVBYTES,  \* sizeof(struct PageInfo), NENV * sizeof(struct Env)
  PGKB, KB1, KB16, EXT16UNIT,  \* a page, 1MB, 16MB and the unit of ext16mem in KB
  Nvram,       \* what the CMOS may report: [base, ext, ext16]
  Enough       \* with this many pages or more the kernel must boot

MaxPages == (NPT - KB) * NPT          \* the 256MB that fit above KERNBASE
ADDRS    == NPT * NPT * PGSIZE        \* 2^32
KERNBASE == KB * NPT * PGSIZE

\* The memory that the CMOS reports, in KB.
Total(n) ==
  IF n.ext16 # 0 THEN KB16 + n.ext16 * EXT16UNIT
  ELSE IF n.ext # 0 THEN KB1 + n.ext
  ELSE n.base

\* The layout of inc/memlayout.h, with a kernel that fits above KERNBASE, and no
\* more than 4GB of memory.
ASSUME MemInitAssumption ==
  /\ {NPT, PGSIZE, PAGEINFO, ENVBYTES, PGKB} \subseteq Nat \ {0} /\ ENDBYTE \in Nat
  /\ Ix = 0 .. NPT - 1 /\ Frame = 0 .. MaxPages - 1
  /\ KB \in Ix /\ {UENVS, UPAGES, UVPT, KSTACK} \subseteq 2 .. KB - 1
  /\ UVPT \notin {UENVS, UPAGES, KSTACK} /\ UENVS \notin {UPAGES, KSTACK} /\ UPAGES # KSTACK
  /\ IOPAGE \in Nat \ {0} /\ EXTPAGE \in Nat /\ IOPAGE < EXTPAGE
  /\ {entry_pgdir, entry_pgtable, bootstack} \subseteq EXTPAGE .. ENDBYTE \div PGSIZE
  /\ ENDBYTE \div PGSIZE \in Frame
  /\ \A n \in Nvram : Total(n) \div PGKB \in 0 .. NPT * NPT
  /\ Null \notin Nat /\ Null \notin [pg : Nat, perm : SUBSET Perm]

VARIABLES
  stage,        \* the statement of mem_init that is next
  mem,
  npages, npages_basemem,
  nextfree,     \* boot_alloc's static variable, less KERNBASE
  kern_pgdir, pages, envs   \* the frames boot_alloc gave to each

vars == <<stage, mem, npages, npages_basemem, nextfree, kern_pgdir, pages, envs>>

RoundUp(n) == ((n + PGSIZE - 1) \div PGSIZE) * PGSIZE

----------------------------------------------------------------------------
(* entry.S has loaded entry_pgdir, which maps one page table's worth of
   memory at 0 and at KERNBASE.                                            *)

EntryTables ==
  [f \in Frame |->
     IF f = entry_pgdir
     THEN [i \in Ix |-> IF i = 0 THEN [pg |-> entry_pgtable, perm |-> {}]
                        ELSE IF i = KB THEN [pg |-> entry_pgtable, perm |-> {"W"}]
                        ELSE Null]
     ELSE IF f = entry_pgtable THEN [i \in Ix |-> [pg |-> i, perm |-> {"W"}]]
     ELSE Junk(f)]

Init ==
  /\ stage = "detect"
  /\ mem = [pp_ref |-> [f \in Frame |-> 0], pp_link |-> [f \in Frame |-> Null],
            page_free_list |-> Null, tab |-> EntryTables, cr3 |-> entry_pgdir,
            tlb |-> [va \in Va |-> Null]]
  /\ npages = 0 /\ npages_basemem = 0
  /\ nextfree = RoundUp(ENDBYTE)
  /\ kern_pgdir = Null /\ pages = Null /\ envs = Null

\* i386_detect_memory
Detect ==
  \E n \in Nvram :
    /\ stage = "detect" /\ stage' = "kern_pgdir"
    /\ npages' = Total(n) \div PGKB
    /\ npages_basemem' = n.base \div PGKB
    /\ UNCHANGED <<mem, nextfree, kern_pgdir, pages, envs>>

\* boot_alloc of n > 0 bytes panics when nextfree, rounded up, exceeds the end
\* of memory: a comparison of two unsigned addresses, of which the second may
\* have wrapped around.
boot_alloc(n) ==
  LET next == RoundUp(nextfree + n)
  IN  [pg    |-> nextfree \div PGSIZE,
       next  |-> next,
       panic |-> KERNBASE + next > (KERNBASE + npages * PGSIZE) % ADDRS]

\* One boot_alloc of mem_init, and what it does with the memory.
BootAlloc(here, n, next) ==
  LET a == boot_alloc(n)
  IN  /\ stage = here
      /\ stage' = IF a.panic THEN "panic" ELSE next
      /\ nextfree' = IF a.panic THEN nextfree ELSE a.next
      /\ UNCHANGED <<npages, npages_basemem>>

AllocPgdir ==
  LET d == nextfree \div PGSIZE
  IN  /\ BootAlloc("kern_pgdir", PGSIZE, "pages")
      /\ kern_pgdir' = d
      /\ mem' = IF stage' = "panic" THEN mem
                ELSE [mem EXCEPT !.tab[d] = [Blank EXCEPT ![UVPT] = [pg |-> d, perm |-> {"U"}]]]
      /\ UNCHANGED <<pages, envs>>

AllocPages ==
  /\ BootAlloc("pages", PAGEINFO * npages, "envs")
  /\ pages' = nextfree \div PGSIZE
  /\ UNCHANGED <<mem, kern_pgdir, envs>>

AllocEnvs ==
  /\ BootAlloc("envs", ENVBYTES, "page_init")
  /\ envs' = nextfree \div PGSIZE
  /\ UNCHANGED <<mem, kern_pgdir, pages>>

----------------------------------------------------------------------------
(* page_init *)

InUse_image(i) ==
  \/ i = 0
  \/ i >= IOPAGE /\ i < EXTPAGE
  \/ i >= EXTPAGE /\ i <= ENDBYTE \div PGSIZE

\* The pages that page_init marks as used: page 0, the hole, the kernel with
\* what boot_alloc has handed out.
InUse(i) == \/ i = 0
            \/ i >= IOPAGE /\ i < EXTPAGE
            \/ i >= EXTPAGE /\ i < nextfree \div PGSIZE

\* The elements of s that are in T, in their order.
Those(s, T) ==
  LET upto[k \in 0 .. Len(s)] ==
        IF k = 0 THEN <<>> ELSE IF s[k] \in T THEN Append(upto[k - 1], s[k]) ELSE upto[k - 1]
  IN  upto[Len(s)]

PageInit ==
  LET free == Those([i \in 1 .. npages |-> i - 1], {i \in Frame : ~InUse(i)})
  IN  /\ stage = "page_init" /\ stage' = "check_free_low"
      /\ mem' = [mem EXCEPT
           !.pp_ref  = [f \in Frame |-> IF f < npages /\ InUse(f) THEN 1 ELSE 0],
           !.pp_link = page_init(free).link,
           !.page_free_list = page_init(free).head]
      /\ UNCHANGED <<npages, npages_basemem, nextfree, kern_pgdir, pages, envs>>

----------------------------------------------------------------------------
(* The checks.  Each is the whole function: its calls in their order, and the
   conjunction of its assertions.                                          *)

Low(f) == f < NPT           \* PDX(page2pa(pp)) < 1

\* The pages on the free list, first to last.
FreeSeq(m) ==
  LET page == FollowFreeList(m, npages)
      n    == Cardinality({i \in 0 .. npages - 1 : page[i] # Null})
  IN  [i \in 1 .. n |-> page[i - 1]]

low_first_kept(m) == m

\* The list with the pages entry_pgdir maps moved to the front.
low_first(m) ==
  LET s    == FreeSeq(m)
      list == Those(s, {p \in Frame : Low(p)}) \o Those(s, {p \in Frame : ~Low(p)})
      back == page_init([i \in 1 .. Len(list) |-> list[Len(list) + 1 - i]])
  IN  [m EXCEPT !.pp_link = back.link, !.page_free_list = back.head]

check_page_free_list(m, only_low) ==
  LET n    == IF only_low THEN low_first(m) ELSE m
      s    == FreeSeq(n)
      free == {s[i] : i \in 1 .. Len(s)}
  IN  [ok  |-> /\ m.page_free_list # Null
               /\ free \cap {0, IOPAGE, EXTPAGE - 1, EXTPAGE} = {}
               /\ \A p \in free : p < EXTPAGE \/ p >= nextfree \div PGSIZE
               /\ \E p \in free : p < EXTPAGE
               /\ \E p \in free : p >= EXTPAGE,
       mem |-> [n EXCEPT !.tab = [f \in Frame |->
                  IF f \in free /\ (only_low => Low(f)) THEN Junk(f) ELSE @[f]]]]

\* check_va2pa: the page at va, or Null for ~0.
check_va2pa(m, d, va) == page_lookup(m, d, va)

\* What the processor reads at va: the contents of the page it translates to,
\* through the TLB when va is cached there.
read(m, va) == m.tab[(IF m.tlb[va] # Null THEN m.tlb[va] ELSE translate(m, m.cr3, va)).pg]

(***************************************************************************)
(* The other checks are scripts about three pages, pp0 to pp2: calls of    *)
(* the functions above and assertions.  s.pp are the pages, s.fl is the    *)
(* free list they put aside, s.ok whether every assertion has held.  A     *)
(* statement is <<what, page, address, argument>>, as far as it has them.  *)
(***************************************************************************)
Calls(s, o) ==
  LET m == s.mem
      p == s.pp[o[2]]
      d == kern_pgdir
  IN  CASE o[1] = "free"   -> page_free(m, p)
        [] o[1] = "insert" -> page_insert(m, d, p, o[3], o[4]).mem
        [] o[1] = "remove" -> page_remove(m, d, o[3])
        [] o[1] = "walk"   -> pgdir_walk(m, d, o[3], TRUE).mem
        [] o[1] = "alloc"  -> page_alloc(m, o[4]).mem
        [] o[1] = "back"   -> [m EXCEPT !.tab[d][o[3][1]] = Null, !.pp_ref[p] = 0]
        [] o[1] = "memset" -> [m EXCEPT !.tab[p] = Junk(p)]
        [] o[1] = "load"   -> tlb_fill(m, o[3])
        [] o[1] = "steal"  -> [m EXCEPT !.page_free_list = Null]
        [] o[1] = "give"   -> [m EXCEPT !.page_free_list = s.fl]
        [] OTHER           -> m

\* Whether the assertion o, or the one about the result of the call o, holds.
Asserts(s, o) ==
  LET m == s.mem
      p == s.pp[o[2]]
      d == kern_pgdir
  IN  CASE o[1] = "none"   -> page_alloc(m, FALSE).pg = Null
        [] o[1] = "alloc"  -> page_alloc(m, o[4]).pg = p
        [] o[1] = "insert" -> page_insert(m, d, p, o[3], o[4]).ok
        [] o[1] = "full"   -> ~page_insert(m, d, p, o[3], {"W"}).ok
        [] o[1] = "nomap"  -> check_va2pa(m, d, o[3]) = Null
        [] o[1] = "map"    -> check_va2pa(m, d, o[3]) = p
        [] o[1] = "table"  -> pgdir_walk(m, d, o[3], FALSE).pt = p
        [] o[1] = "has"    -> o[4] \subseteq m.tab[m.tab[d][o[3][1]].pg][o[3][2]].perm
        [] o[1] = "lacks"  -> o[4] \cap m.tab[m.tab[d][o[3][1]].pg][o[3][2]].perm = {}
        [] o[1] = "dirhas" -> o[4] \subseteq m.tab[d][o[3][1]].perm
        [] o[1] = "ref"    -> m.pp_ref[p] = o[4]
        [] o[1] = "counted" -> m.pp_ref[p] # 0 /\ m.pp_link[p] = Null
        [] o[1] = "blank"  -> m.tab[p] = Blank
        [] o[1] = "load"   -> read(tlb_fill(m, o[3]), o[3]) = m.tab[p]
        [] OTHER           -> TRUE

\* "take" is the assignment of a new page to pp[o[2]].
perform(s, o) ==
  IF o[1] = "take"
  THEN LET a == page_alloc(s.mem, FALSE)
       IN  [mem |-> a.mem,
            pp  |-> [s.pp EXCEPT ![o[2]] = a.pg],
            fl  |-> s.fl,
            ok  |-> s.ok /\ a.pg \notin {Null} \cup {s.pp[j] : j \in 0 .. o[2] - 1}]
  ELSE [mem |-> Calls(s, o),
        pp  |-> s.pp,
        fl  |-> IF o[1] = "steal" THEN s.mem.page_free_list ELSE s.fl,
        ok  |-> s.ok /\ Asserts(s, o)]

\* What a check starts with, where a part of its script leads from s, and where
\* all of them lead.
began(m) == [mem |-> m, pp |-> [i \in 0 .. 2 |-> Null], fl |-> Null, ok |-> TRUE]

runs(s, script) ==
  LET after[k \in 0 .. Len(script)] ==
        IF k = 0 THEN s
        ELSE IF after[k - 1].ok THEN perform(after[k - 1], script[k]) ELSE after[k - 1]
  IN  after[Len(script)]

follow(m, parts) ==
  LET after[k \in 0 .. Len(parts)] ==
        IF k = 0 THEN began(m) ELSE runs(after[k - 1], parts[k])
  IN  after[Len(parts)]

\* Three pages are taken, and the rest of the list put aside; at the end all is
\* given back.
Take3 == << <<"take", 0>>, <<"take", 1>>, <<"take", 2>> >>
Free3 == << <<"free", 0>>, <<"free", 1>>, <<"free", 2>> >>
Steal == << <<"steal", 0>>, <<"none", 0>> >>
Give  == << <<"give", 0>> >>

AllocFlags == << <<"none", 0>>, <<"memset", 0>>, <<"free", 0>>,
                 <<"alloc", 0, "", TRUE>>, <<"blank", 0>> >>

check_page_alloc(m) ==
  LET s == follow(m, <<Take3, Steal, Free3, Take3, AllocFlags, Give, Free3>>)
  IN  [ok |-> s.ok /\ Len(FreeSeq(s.mem)) = Len(FreeSeq(m)), mem |-> s.mem]

V0 == <<0, 0>>      \* the address 0
V1 == <<0, 1>>      \* PGSIZE
VT == <<1, 0>>      \* PTSIZE
VX == <<1, 1>>      \* PTSIZE + PGSIZE

\* The parts of check_page: a mapping at 0, for which the page table has to be
\* made; the same page mapped at PGSIZE again and again; other permissions;
\* another page in its place; both mappings removed; page tables of pages that
\* have been used.
MapAt0 == <<
  <<"nomap", 0, V0>>, <<"full", 1, V0>>,
  <<"free", 0>>, <<"insert", 1, V0, {"W"}>>,
  <<"table", 0, V0>>, <<"map", 1, V0>>, <<"ref", 1, V0, 1>>, <<"ref", 0, V0, 1>> >>

MapAt1 == <<
  <<"insert", 2, V1, {"W"}>>, <<"map", 2, V1>>, <<"ref", 2, V1, 1>>, <<"none", 0>>,
  <<"insert", 2, V1, {"W"}>>, <<"map", 2, V1>>, <<"ref", 2, V1, 1>>, <<"none", 0>>,
  <<"table", 0, V1>> >>

ChangePerm == <<
  <<"insert", 2, V1, {"W", "U"}>>, <<"map", 2, V1>>, <<"ref", 2, V1, 1>>, <<"has", 0, V1, {"U"}>>, <<"dirhas", 0, V0, {"U"}>>,
  <<"insert", 2, V1, {"W"}>>, <<"has", 0, V1, {"W"}>>, <<"lacks", 0, V1, {"U"}>>,
  <<"full", 0, VT>> >>

Replace == <<
  <<"insert", 1, V1, {"W"}>>, <<"lacks", 0, V1, {"U"}>>,
  <<"map", 1, V0>>, <<"map", 1, V1>>, <<"ref", 1, V1, 2>>, <<"ref", 2, V1, 0>>,
  <<"alloc", 2, V1, FALSE>> >>

Unmap == <<
  <<"remove", 0, V0>>, <<"nomap", 0, V0>>, <<"map", 1, V1>>, <<"ref", 1, V1, 1>>, <<"ref", 2, V1, 0>>,
  <<"insert", 1, V1, {}>>, <<"counted", 1>>,
  <<"remove", 0, V1>>, <<"nomap", 0, V0>>, <<"nomap", 0, V1>>, <<"ref", 1, V1, 0>>, <<"ref", 2, V1, 0>>,
  <<"alloc", 1, V1, FALSE>>, <<"none", 0>> >>

FreshTables == <<
  <<"table", 0, V0>>, <<"ref", 0, V0, 1>>, <<"back", 0, V0>>, <<"free", 0>>,
  <<"walk", 0, VX>>, <<"back", 0, VX>>, <<"memset", 0>>, <<"free", 0>>,
  <<"walk", 0, V0>>, <<"blank", 0>>, <<"back", 0, V0>> >>

check_page(m) ==
  follow(m, <<Take3, Steal, MapAt0, MapAt1, ChangePerm, Replace, Unmap, FreshTables, Give, Free3>>)

\* The store of check_page_installed_pgdir through PGSIZE is left out: it takes
\* the translation that the load before it took, which the TLB holds.
Installed == <<
  <<"free", 0>>, <<"memset", 1>>, <<"memset", 2>>,
  <<"insert", 1, V1, {"W"}>>, <<"ref", 1, V1, 1>>, <<"load", 1, V1>>,
  <<"insert", 2, V1, {"W"}>>, <<"load", 2, V1>>, <<"ref", 2, V1, 1>>, <<"ref", 1, V1, 0>>,
  <<"remove", 0, V1>>, <<"ref", 2, V1, 0>>,
  <<"table", 0, V0>>, <<"ref", 0, V0, 1>>, <<"back", 0, V0>>, <<"free", 0>> >>

check_page_installed_pgdir(m) == follow(m, <<Take3, Installed>>)

\* A check panics when an assertion fails.
Check(here, c, next) ==
  /\ stage = here
  /\ stage' = IF c.ok THEN next ELSE "panic"
  /\ mem' = c.mem
  /\ UNCHANGED <<npages, npages_basemem, nextfree, kern_pgdir, pages, envs>>

CheckFreeLow == Check("check_free_low", check_page_free_list(mem, TRUE), "check_alloc")
CheckAlloc   == Check("check_alloc", check_page_alloc(mem), "check_page")
CheckPage    == Check("check_page", check_page(mem), "map_pages")

----------------------------------------------------------------------------
(* boot_map_region: the n pages from pa on, at va and up.  Null for a panic. *)

boot_map_region(m, va, n, pa, perm) ==
  LET Addr(k)  == <<va[1] + (va[2] + k - 1) \div NPT, (va[2] + k - 1) % NPT>>
      after[k \in 0 .. n] ==
        IF k = 0 THEN m
        ELSE LET before == after[k - 1]
                 w      == pgdir_walk(before, kern_pgdir, Addr(k), TRUE)
             IN  IF before = Null THEN Null
                 ELSE IF w.pt = Null THEN Null
                 ELSE [w.mem EXCEPT !.tab[w.pt][Addr(k)[2]] = [pg |-> pa + k - 1, perm |-> perm]]
  IN  after[n]

Map(here, m, next) ==
  /\ stage = here
  /\ stage' = IF m = Null THEN "panic" ELSE next
  /\ mem' = IF m = Null THEN mem ELSE m
  /\ UNCHANGED <<npages, npages_basemem, nextfree, kern_pgdir, pages, envs>>

MapPages  == Map("map_pages", boot_map_region(mem, <<UPAGES, 0>>, NPT, pages, {"U"}), "map_envs")
MapEnvs   == Map("map_envs", boot_map_region(mem, <<UENVS, 0>>, NPT, envs, {"U"}), "map_stack")
MapStack  == Map("map_stack", boot_map_region(mem, <<KSTACK, NPT - 1>>, 1, bootstack, {"W"}), "map_all")

MapAll_open == Map("map_all", boot_map_region(mem, <<KB, 0>>, MaxPages, 0, Perm), "check_kern")

MapAll    == Map("map_all", boot_map_region(mem, <<KB, 0>>, MaxPages, 0, {"W"}), "check_kern")

\* The pages of an array of n bytes.
PagesOf(n) == 0 .. (RoundUp(n) \div PGSIZE) - 1

check_kern_pgdir ==
  LET at(i, j) == check_va2pa(mem, kern_pgdir, <<i, j>>)
      pde      == mem.tab[kern_pgdir]
  IN  /\ \A j \in PagesOf(PAGEINFO * npages) : at(UPAGES, j) = pages + j
      /\ \A j \in PagesOf(ENVBYTES) : at(UENVS, j) = envs + j
      /\ \A f \in 0 .. npages - 1 : at(KB + f \div NPT, f % NPT) = f
      /\ at(KSTACK, NPT - 1) = bootstack /\ at(KSTACK, 0) = Null
      /\ \A i \in Ix : /\ i \in {UVPT, KSTACK, UPAGES, UENVS} => pde[i] # Null
                       /\ i >= KB => pde[i] # Null /\ "W" \in pde[i].perm
                       /\ i \notin {UVPT, KSTACK, UPAGES, UENVS} /\ i < KB => pde[i] = Null

CheckKern == Check("check_kern", [ok |-> check_kern_pgdir, mem |-> mem], "lcr3")
LoadCr3   == Check("lcr3", [ok |-> TRUE, mem |-> lcr3(mem, kern_pgdir)], "check_free")
CheckFree == Check("check_free", check_page_free_list(mem, FALSE), "check_installed")
CheckInstalled == Check("check_installed", check_page_installed_pgdir(mem), "done")

Next ==
  \/ Detect \/ AllocPgdir \/ AllocPages \/ AllocEnvs \/ PageInit
  \/ CheckFreeLow \/ CheckAlloc \/ CheckPage
  \/ MapPages \/ MapEnvs \/ MapStack \/ MapAll
  \/ CheckKern \/ LoadCr3 \/ CheckFree \/ CheckInstalled

Spec == Init /\ [][Next]_vars

----------------------------------------------------------------------------
(* Properties *)

Tables == {f \in Frame : \E i \in Ix : /\ kern_pgdir # Null
                                       /\ mem.tab[kern_pgdir][i] # Null
                                       /\ mem.tab[kern_pgdir][i].pg = f}

\* From page_init on, after every check and every mapping, the free list holds
\* just the pages that are nobody's: not page 0, not the hole, not the kernel
\* or an array of boot_alloc's, not a page table; and none of those is missing.
FreeExact ==
  stage \notin {"detect", "kern_pgdir", "pages", "envs", "page_init", "panic"} =>
    IsFreeChain(mem, {p \in 1 .. npages - 1 : p \notin IOPAGE .. EXTPAGE - 1
                                           /\ p \notin EXTPAGE .. (nextfree \div PGSIZE) - 1
                                           /\ p \notin Tables})

\* Every page that mem_init clears, fills or enters a mapping in, the directory in
\* %cr3 maps at its address above KERNBASE: until lcr3 that is the first NPT pages
\* of memory only, which is why check_page_free_list moves those to the front of
\* the list.  (What is written to the arrays pages and envs is not followed as the
\* contents of pages.)
Mapped(f) == LET x == translate(mem, mem.cr3, <<KB + f \div NPT, f % NPT>>)
             IN  x # Null /\ x.pg = f /\ "W" \in x.perm

Reachable == [][\A f \in Frame : mem.tab'[f] # mem.tab[f] => Mapped(f)]_vars

\* The kernel boots exactly if there is enough memory, and less than the 256MB
\* that pmap.h calls "the machine's maximum": on its way no boot_alloc and no
\* boot_map_region panics and no assertion of the checks fails.
Boots ==
  /\ stage = "panic" => npages \notin Enough .. MaxPages - 1
  /\ stage = "done"  => npages \in Enough .. MaxPages - 1

\* When the checks are passed the directory is the map of inc/memlayout.h.
Layout(va) ==
  LET i == va[1]
      j == va[2]
      k == (i - KB) * NPT + j
  IN  IF i = UPAGES THEN [pg |-> pages + j, perm |-> {"U"}]
      ELSE IF i = UENVS THEN [pg |-> envs + j, perm |-> {"U"}]
      ELSE IF i = KSTACK /\ j = NPT - 1 THEN [pg |-> bootstack, perm |-> {"W"}]
      ELSE IF i >= KB THEN [pg |-> k, perm |-> {"W"}]
      ELSE Null

LayoutOK == stage = "done" => /\ mem.cr3 = kern_pgdir
                              /\ \A va \in Va : va[1] # UVPT =>
                                   /\ translate(mem, kern_pgdir, va) = Layout(va)
                                   /\ mem.tlb[va] = Null
                              /\ mem.tab[kern_pgdir][UVPT] = [pg |-> kern_pgdir, perm |-> {"U"}]

=============================================================================
