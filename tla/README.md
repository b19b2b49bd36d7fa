# A TLA+ specification of the JOS lab 3 kernel

The repository is the JOS teaching kernel (MIT 6.828) as of lab 3: a C kernel
for one x86 processor that manages physical memory and page tables, runs one
user environment at a time, takes its traps and system calls, and has a console
with a small monitor.  The modules in this directory model that code, TLC
checks them on small machines, and TLAPS proves for machines of any size what the
modules of the memory manager, its set-up, the environments, the traps, the console's input,
the keyboard and the screen promise, and three of the algorithms.

Facts about the program that every module relies on:

* There is one processor, and the kernel runs with interrupts off from the boot
  loader on (`cli` in boot/boot.S; no gate and no environment sets IF).  A call
  of the kernel is therefore one atomic step, except where something that is
  not the kernel's code goes on during it: the devices (Console), the MMU and
  its TLB (Pmap, Env), a fault in the kernel's own code (Trap).
* `i386_init` runs cons_init, mem_init, env_init, trap_init, creates one
  environment and runs it (init.c:16-48).  There is no scheduler.
* `env_destroy` and `_panic` end in the monitor, which never returns
  (no command answers a negative number; monitor.c:25-28, 144-149).

## 1. Inventory

| Component | State | Operations | Talks to |
|---|---|---|---|
| page allocator, page tables (kern/pmap.c) | `pages[]` with `pp_ref` (16 bits) and `pp_link`, `page_free_list`, the contents of directories and tables | page_init, page_alloc, page_free, page_decref, pgdir_walk, page_lookup, page_insert, page_remove, tlb_invalidate | the MMU, which reads the same tables and caches what it finds; every component that needs memory |
| memory detection, mem_init (kern/pmap.c, entrypgdir.c) | `npages`, boot_alloc's `nextfree`, `kern_pgdir`, `pages`, `envs` | i386_detect_memory, boot_alloc, boot_map_region, the self checks, lcr3 | the CMOS; the allocator, which it sets up and tests |
| environments (kern/env.c) | `envs[]`, `env_free_list`, `curenv`, %cr3 | env_init, env_alloc, env_setup_vm, region_alloc, load_icode, env_create, env_run, env_free, env_destroy, envid2env | page tables (one directory each), traps |
| traps and system calls (kern/trap.c, trapentry.S, syscall.c, lib/syscall.c) | the IDT, the kernel's stack, the saved `env_tf` | the stubs, _alltraps, trap, trap_dispatch, page_fault_handler, syscall, env_pop_tf | user mode, the console, env_destroy, the monitor |
| console input (kern/console.c) | `cons.buf/rpos/wpos`, the decoder's `shift` | serial_intr, kbd_intr, cons_intr, kbd_proc_data, cons_getc, getchar | the serial port and the keyboard controller, which deliver at any time |
| console output, readline (kern/console.c, lib/readline.c) | `crt_buf`, `crt_pos`, readline's `buf` and `i` | cga_putc, cputchar, readline | the monitor |
| user memory checks (kern/pmap.c) | `user_mem_check_addr` | user_mem_check, user_mem_assert | sys_cputs, page tables |
| boot loader (boot/) | memory before paging | bootmain, readseg, readsect | the disk |
| library (lib/string.c, printfmt.c, printf.c) | the 256-byte printbuf of one call | memmove, memset, strnlen, strtol, vprintfmt, cprintf | everything that copies or prints |
| kernel monitor (kern/monitor.c) | argv of one call | runcmd | readline |
| debugging information (kern/kdebug.c) | the stabs, read-only | stab_binsearch, debuginfo_eip | mon_backtrace, which is in no command table |
| user-level runtime (lib/) | `thisenv`, the buffer of cprintf on the stack | libmain, cprintf, exit, panic | the kernel, by system calls and int $3 |
| user programs (user/) | their pages | thirteen umains, each for one way to use or to misuse the kernel | the runtime |

What is hard in them, and what would make each correct:

* **pmap.c**: one structure (a page) is at the same time a member of a list, the
  target of counted pointers from other pages, and perhaps itself a page of such
  pointers, with whatever it held before.  The free list must hold exactly the
  unreferenced pages; the counts must equal the entries; a table must not be
  shared or mapped as data; what the TLB holds must be what the tables say; and a
  failed call must have changed nothing that a caller can see.
* **mem_init** runs on one page table's worth of mapped memory until it loads its own
  directory, and tests itself with calls that steal and rearrange the free list.
* **env.c**: creation can run out of memory at any page, teardown frees the
  directory the processor may be using, slots and ids are reused, and ids must not
  come back too soon or turn negative.
* **trap.c, trapentry.S**: the layout of a frame depends on the exception, on whether
  it came from user mode, and on which of two stubs was generated.
* **console**: a producer that is not under the kernel's control and a buffer that
  wraps around; a keyboard protocol with prefixes, repeats and fake shifts.
* **the whole**: a program must not see any of this.  Its instructions take effect
  once and in order, across faults, system calls, page tables and a TLB that nobody
  flushes for it; the answer of a call reaches the caller; and whatever it does,
  the console says so, its pages are given back and the machine ends in the monitor.
* **the algorithms**: boundaries (a sector shared by two segments, overlapping
  moves, the last place of argv, the first bad byte inside a page), and a search that
  changes what it looks for on the way (stab_binsearch).

`PROJECT.json` lists the hazards with their lines and the properties that cover them.

## 2. Modules

| Module | Models | Composes |
|---|---|---|
| PmapOps | the functions of pmap.c, the MMU and the TLB, as operators on a record `Mem` | |
| Pmap | any legal sequence of those calls, one action per function | PmapOps |
| VSpace | what pmap.c promises: address spaces and a supply of pages, with no tables or counts | refined by Pmap |
| PmapLemmas | facts about the operators of PmapOps: free lists, counts, one entry written | PmapOps |
| PmapProofs | the theorems about Pmap, and that it implements VSpace | Pmap, PmapLemmas |
| MemInit | mem_init, one action per statement | PmapOps |
| MemInitProofs | the theorems about MemInit | MemInit, PmapLemmas |
| Env | envs[] and the address spaces | PmapOps |
| EnvProofs | the theorems about Env: envs[] and ids; memory | Env, PmapLemmas |
| Trap | a trap from the gate to the return to user mode | |
| TrapProofs | the theorems about Trap | Trap |
| Programs | the programs of user/ and the library under them, as sequences of instructions | |
| Kernel | i386_init from ENV_CREATE on: an environment that runs a program until the monitor | Env, Trap, UserMem, Programs |
| Process | what a program is promised by the comments of the system calls: a machine of its own, with no page tables, TLB or trap frames; the four cases in which the kernel does not keep it are named there (Departs), with what it does then | refined by Kernel |
| CharQueue, Console | what input promises; the circular buffer with its two drivers | CharQueue is refined by Console |
| Keyboard | kbd_proc_data with the keyboard that feeds it | |
| ConsoleProofs | the theorems about Console, that it implements CharQueue, and the theorems about Keyboard | Console, Keyboard |
| Screen, ScreenProofs | cga_putc under readline; the theorems about it | |
| Strings, Cprintf, Monitor, Kdebug, Bootload, UserMem | the stateless algorithms, as operators | |
| Library | one call of any of them, with a definition of what it should return | those six |
| LibraryProofs | the theorems about memmove, user_mem_check and the boot loader | Library |
| MCPmap, MCEnv, ... | constants for TLC | one each |

**How the state corresponds.**  A physical page is a *frame*; its contents are seen as
the entries it would hold as a page table (`tab[f]`), which is how the MMU and the
kernel would read it.  A page of data that is used as a table without being
cleared shows up as `Junk`, entries that are present and open to everybody, so
forgetting to clear one has its consequences.  A virtual address is the pair
<<PDX, PTX>>.  `pp_ref` counts modulo `RefMod` (65536 in the code).
The TLB fills itself at any moment with what it finds through %cr3, and only
invlpg and lcr3 empty it.

**How Kernel is composed.**  Its variables are those of Env and of Trap, which it
INSTANCEs, and three of its own: the program, %cr2 and the console.  A step is a step of Env
(a page is loaded or freed, the TLB fills itself), a step of Trap (the frame is built,
copied, dispatched, restored), or one of each at once (env_run, a system call that destroys
its caller, a page fault).  What the two share is an expression: Trap's `status` is what Env's slot says.
Whether an instruction faults is found by the MMU in Env's tables or in the TLB, and not by what
the program owns; where sys_cputs may read is found by user_mem_check in the same tables.
A page holds one word all over, or zeros, so that a store can be seen by a later load, by a string
that is printed, and by the kernel; an address counts half pages, so that a string can begin and
end inside a page.  A program is a sequence of instructions, and `eip` its index: what a program computes
in registers is left out, every access to memory, exception and system call is there.
The lines that trap() prints at every trap ("Incoming TRAP frame") are left out of the console.

`held` in Pmap, `lost` and `retired` in Env, `typed`, `waiting` and `ready` in Console,
`pending` in Keyboard, `cause` and `was` in Trap and `console` in Kernel are history variables: no
action's guard on a real step reads them except to express what a caller may do
(one frees only pages one holds) and to bound the input.

**Suffixes.**  A definition such as `page_free_unlinked`, `Alloc_unchecked` or
`EnvRun_unswitched` is what the next definition would be with a plausible mistake in
the code.  It is not part of the specification: every property is tried against one
of them, so that we know it can fail (PROJECT.json, "mutants").

**What is atomic.**  In Pmap and Trap a C function is an action; in MemInit a
statement of mem_init; in Env env_alloc and env_run are single actions, but the
loops of load_icode and env_free are one action per page (in Kernel too), since the processor
goes on translating through tables that are half built or half gone.  In Console each
iteration of a polling loop is an action, as characters arrive in between.

**What callers may do.**  In Pmap the comments above the functions are the contract:
page_free is called for a page that is held and not mapped, page_insert for one that
is held or mapped, fewer than `MaxMap` times.  In Env, `env_create` only before the
first env_run, and env_free of `curenv` only through env_destroy: afterwards
curenv still points to the freed slot.

## 3. Runs

The number is that of distinct states.

| Run | States | Shows |
|---|---|---|
| pmap | 7,940 | TypeOK, FreeListOK, RefExact, TablesUnshared, TlbCoherent, the inductive invariant MmuInv, and that Pmap implements VSpace |
| env_pair | 112,414 | Private, KernelShared, Cr3Live, Isolation for two complete environments |
| env_scarce | 407,690 | TypeOK, PagesAccounted, SlotsOK, StaleIdsRejected, LoopsEnd where memory runs out and ids wrap around |
| meminit_boot | 565 | FreeExact, Boots, LayoutOK, Reachable for 62 reports of the CMOS |
| console | 115,444 | ImplementsQueue, ZeroMeansNone, EveryCharArrives (liveness) |
| keyboard | 837,240 | DecodedAsTyped, InStep |
| screen | 653,103 | TypeOK, EchoShowsLine |
| trap | 112,334 | FrameDescribesTrap, Resumes, KernelTrapsAreFatal |
| library | 846,684 | one property for each algorithm |
| kernel | 55,480 | Kernel implements Process (ImplementsProcess), AsGraded, EveryProgramEnds (liveness) |
| console_full | - | *violated*: ZeroMeansNone with a full buffer |
| kernel_promises | - | *violated*: KeepsPromises, the comments of the system calls |

A violated run checks what a comment of the code says, and finds a behaviour of the code that contradicts it; section 5 has the comments.
kernel_promises runs one program; its cfg names three others, each of which violates KeepsPromises in another place.

Where a comment is wrong the passing runs do not leave the case out.  They name it, and say what happens then:
ImplementsProcess has the four cases of `Departs` and how each ends; Boots has the machine with all of the memory, which does not boot; EipFound has the
neighbouring stabs (`Followed`), for which the answer is at most too far; ChecksEveryByte has the ranges that are empty or wrap around.
What the comments say is in the operators EveryEipFound, AcceptsReachable and RefusesErroneous; as an INVARIANT of Library.cfg each of them is violated.

**Bounds, and why they are enough.**

* *pmap*: three pages, two directories, two indices.  Three pages let a table, a
  mapped page and a free one exist at once, so that page_insert fails for lack of a table,
  re-inserts at its own address, replaces the last mapping of another page, and a
  page goes from data to table and back.  Two directories make sharing and stale
  translations after lcr3 possible.  `RefMod` is the real one; MaxMap does not bind.
  The theorems hold for all sizes.
* *env_pair*: six pages are two environments with a directory, a table and a page each
  (the stack is the program), so both run, die and are made again with the other's pages.
  *env_scarce*: five pages and a program page, so that the second environment fails
  at each of its allocations; `IDMOD = 24` with `GENSTEP = 4` has two generations
  before the sign bit.  `env_status` of a fresh slot is arbitrary, as memory is.
* *meminit_boot*: 24 entries per table, every size from 4 to 48 pages in the three
  ways the CMOS reports it, so that memory ends below, in and above the window of
  entry_pgdir.  `Enough` is the least size with which this scaled machine can hold
  the image and the tables; below it a panic is right.  48 pages are all that fits above KERNBASE.
* *console*: three cells, five characters, two unread: the buffer wraps around several times
  and both drivers store in one poll.  MaxWaiting is CONSBUFSIZE - 1, because with
  one more the property is false (console_full).
* *keyboard*: one key of each kind of entry in the tables, three down and four bytes
  unread: an E0 code may be split by any other event.
* *screen*: three rows of three, a prompt of one and a line of up to three: every line wraps
  and most scroll.
* *trap*: one exception of each kind (with and without error code, with and without a gate, with and without
  a privileged gate).
* *library*: words of two bytes, sectors of four, a buffer of five, three places in argv:
  each boundary is met with one to spare on both sides.  debuginfo_eip is asked for every
  address in and around every program of up to three lines: several files, functions with and without parameters,
  assembly files without functions, included files, string tables that are cut off, tables that may not be read.
  Lines are one to three bytes long: where one of one byte is followed by another stab of the same type the search goes wrong
  (`Followed`).  user_mem_check gets every start and every length in an address space of five pages, the last two of them the
  kernel's: ranges that are empty, that begin or end anywhere in a page, that end in the last page and that wrap around.
* *kernel*: all thirteen programs of user/, and all programs of two out of 26 pieces of the same
  instructions (`Pieces`): each kind of access to each kind of page, strings that begin or end
  inside a page, reach into an unmapped one, have a NUL, have none, or are empty (at the start of a page and inside one), good and bad system calls.
  No string wraps around the top of the address space.
  Two pieces are enough for the second to see what the first left behind, in memory, in the frame or in the TLB.
  A page table has six entries, the least for a page of each kind; the TLB is followed at two addresses,
  one of the program's and one of its stack's; of eight free frames six are needed, and
  the order of the free list and what is in the pages is the same in all behaviours.

**Symmetry.**  PageSymmetry permutes the allocator's pages.  No action names one, and the
only choice among them is `Init`, which takes one order of the free list; the
reachable states from another order are the permuted ones, and every property is
symmetric.  The runs with symmetry check invariants and action properties, and the
refinement of Pmap, whose abstract specification is symmetric too; none checks
liveness.  In Env the page `p1`, which the kernel's table maps, is left out of the symmetry.

**Fairness.**  Two modules assume any, and the same: the processor goes on executing.  In Console it is
`WF_vars(KernelStep)`: getchar is a loop around cons_getc with nothing else to run and no interrupts
(console.c:461-469).  In Kernel it is `WF_vars(Processor)`, all of the next-state relation but the
TLB: there is one processor, with interrupts off, that never halts or waits before the monitor.  The
devices and the TLB are not fair: they may stop.  That env_free and load_icode end is also an action property
(LoopsEnd: every step leaves less to do), which needs no fairness.

**Deadlock.**  Pmap, Env, MemInit, Console, Trap, Kernel and Library really stop: all pages in
use and no legal call, the monitor or a panic, a finished boot, a typist who has
typed enough.  Keyboard and Screen are checked for deadlock.

## 4. What is proved

Every theorem below is for all values of the constants that meet the assumption named in its
module (PmapAssumption, EnvAssumption, ...), which TLC evaluates in the runs of that module.

| Module | Theorem | States |
|---|---|---|
| PmapProofs | TypeCorrect | `Spec => []TypeOK` |
| | FreeListCorrect | `[]FreeListOK`: the list from page_free_list visits each page that is neither held nor referenced once, and nothing else |
| | RefCountCorrect | `[]RefExact`: pp_ref is the number of entries that name the page |
| | TablesUnsharedCorrect | `[]TablesUnshared`: a page table hangs from one directory entry and is nobody's data |
| | MmuInvariance, TlbCorrect | `[]MmuInv` and `[]TlbCoherent`: no translation is cached that the tables have lost |
| | Refinement | `Spec => ImplementsVSpace`: every call is one step of VSpace or changes no mapping |
| MemInitProofs | FreeListExact | `[]FreeExact`: after page_init and between any two statements from there on, the list is the pages that nobody uses |
| | MemoryLaidOut | `[]LayoutOK`: when mem_init is done, the directory in %cr3 is the map of inc/memlayout.h, page by page, and the TLB holds nothing else |
| | Inductive | the invariant the two rest on |
| EnvProofs | TypesCorrect | `[]TypeOK` |
| | SlotsCorrect, StaleIdsAreRejected | `[]SlotsOK`, `[]StaleIdsRejected` |
| | EnvironmentsPrivate, KernelPartShared, DirectoryLive | `[]Private`, `[]KernelShared`, `[]Cr3Live` |
| | ProgramsIsolated, NoPageLost | `[]Isolation`, `[]PagesAccounted` |
| | LoopsProgress | `Spec => LoopsEnd`: each pass of load_icode and env_free leaves less to do |
| TrapProofs | FrameCorrect, ResumesCorrect, KernelTrapsEnd | `[]FrameDescribesTrap`; `Spec => Resumes`, `Spec => KernelTrapsAreFatal` |
| ConsoleProofs | ZeroOnlyWhenNone, BufferIsQueue | `[]ZeroMeansNone`; `Spec => ImplementsQueue` |
| | InStepCorrect, DecodedCorrect | `KeySpec => []InStep`; `KeySpec => DecodedAsTyped` |
| ScreenProofs | CursorInside, EchoCorrect | `[]TypeOK`, `[]EchoShowsLine` |
| LibraryProofs | MemmoveCorrect, ChecksCorrect, ImageCorrect | `[]MemmoveCopies`, `[]ChecksEveryByte`, `[]ImageLoaded` |

**What they assume beyond types.**

* *PmapProofs*: `MaxMap < RefMod`, that callers keep a page at fewer places
  than the 16-bit counter can count.  The code does not enforce that;
  it is the one thing the callers must promise.  With `MaxMap >= RefMod` RefExact
  is false: at the 65536th mapping pp_ref becomes 0 (pmap.c:472, memlayout.h:184).
  EnvProofs needs nothing of the kind: load_icode maps fresh pages only, so every count is 0 or 1.
* *EnvProofs*: EnvAssumption.  NENV divides the step of the generations and the
  generations divide the width of an id, as 1024, 4096 and 2^32 do (env.c:20, 221); no entry of a page table of the kernel
  is both writable and open to the user, as mem_init maps the kernel's stack and memory without PTE_U and
  `pages` and `envs` without PTE_W (pmap.c:187-219); NULL is not the address of a slot.
* *MemInitProofs*: MemInitAssumption.  The directory entries of `pages`, `envs`, the kernel's stack and UVPT are different and below
  KERNBASE's, as inc/memlayout.h has them; the kernel's image ends between EXTPHYSMEM and the last page entry_pgdir maps; the CMOS
  reports no more pages than a directory can map.  Too little memory for the kernel's own tables is allowed: boot_alloc panics then.
* *ConsoleProofs*: `MaxWaiting < CONSBUFSIZE`; with CONSBUFSIZE characters unread both are false (console_full).
* *TrapProofs*: TrapAssumption: the kernel's own code executes no `int3`; nothing in kern/ calls breakpoint() (inc/x86.h:7).
* *ConsoleProofs*, for Keyboard: the keys are keys of the tables, and of two keys with the same flag one is down at a
  time: the guard of Press, as the driver has one flag for both.
* *ScreenProofs*: ScreenAssumption: the prompt and a full line fit on the screen less one row, as
  1024 + 3 characters fit in 24 rows of 80.  A longer line scrolls off.
* *LibraryProofs*: LibraryAssumption.  The kernel that the boot loader reads is `Linked`: its segments are in the order of their addresses, each at the same place of a
  sector in memory as in the file, only the last has a BSS, and a sector of memory with bytes of two segments is one sector of the
  file.  kern/kernel.ld lays the image out so, in one piece with .bss at the end, and ld aligns file and memory alike.

**The arguments.**

*Memory manager.*  None of the properties is inductive.  FreeListOK needs the
counts, because page_decref frees a page when its count gets to zero;
the counts need TablesUnshared, because an entry is counted once only if its table is
reached from one place; and that in turn needs FreeListOK, because pgdir_walk takes its
new table from the list and it must not be in use.  `Consistent(m, h, x)` joins the
three.  Its third argument is for the middle of page_insert, where the count of the page being
inserted is ahead of the entries by one: `x` is that page, and `Inv` is
`Consistent(mem, held, Null)`.  The proof has three layers:

1. about the list (PmapLemmas): `FreeListPush`, `FreeListPop`, `FreeListSame`;
2. about the set of slots that name a page, under each of the four ways in which
   an entry changes: `RefsNewTable`, `RefsDropTable`, `RefsClear`, `RefsSet`;
3. for every function of pmap.c that it takes a consistent memory to a consistent one
   (`AllocConsistent`, `FreeConsistent`, `WalkConsistent`, ...), page_insert as the
   sequence walk, count, remove, set that it is; then one step per action.

`MmuInv`, which the run pmap checks too, adds what address spaces need: no directory entry is narrower than
its table's entries, and a cached translation is what the tables of %cr3 say.  Under it each function
changes `translate` at one address or nowhere (`WalkView`, `RemoveView`, `PlaceView`, ...), and that is VSpace's step.

*mem_init.*  IInv says, for each statement, what memory is: `Kept(m, d, S, c)` holds of a memory in which every page table that has been
made is a page of its own among those that page_init freed, the list holds exactly the others, and the entries are those of the mappings made so far.
The self checks break that on purpose: they steal the free list, map pages over each other and put all of it back.  Their scripts
are followed call by call on a `Scene`, a memory with three pages set aside, and each call of pmap.c takes a scene to the next by
the lemmas of PmapLemmas; the last one gives `Kept` again.  A boot_map_region is a matter of positions: the k-th page of
the range goes to the k-th entry, a new table is taken where a directory entry begins.  For boot_alloc, `Fits` is the comparison
that the code makes, with its wrap-around (section 5).  IInv quantifies over sequences and is not evaluated by TLC; the properties that follow from it are.

*Environments.*  SlotInv is about numbers: the slots on env_free_list and the others are
apart, and the ids of a slot are a `History`: the ids that are remembered are the last generations', each a step from
the next, so the current one is none of them until `Generations` steps have been made.
For memory one invariant says what every frame is: `Good(m, kd, up, at)` gives each frame a kind (free, the kernel's,
a directory, a table, a page, lost) and, for tables and pages, the one entry that names it.  Whatever names a
frame agrees with it, so counts are 0 or 1 and no frame has two users.  EnvInv is SlotInv and that there are such `kd`, `up` and `at`
with the environments' directories as the directories.  Each step of load_icode, env_alloc and env_free changes the use of at most two
frames.  EnvInv quantifies over functions on all frames and is not evaluated by TLC; the properties that follow from it are.
LoopsEnd compares the entries and leaves that are left of a directory; sets that lose an element get smaller.

*Traps.*  TrapInv says, for each place in the kernel's code, which frame tells the trap: the one on the stack before it is copied, the one `tf`
points to after that, and the saved one on the way back; `Tells` reads it at the offsets that
the stub's pushes lead to.

*Console.*  ConsoleInv counts: what waits is in the buffer, the receive register or the keyboard, and leaves a place of the buffer
free; then full and empty differ.  `Promised` follows a character that was there when cons_getc was called through the polls.
The two drivers store what they read one by one; that a whole poll is one Put of CharQueue is an induction over the places it fills.

*Keyboard.*  KeyInv says that the bytes that wait still lead the decoder from its flags to those that the held keys
call for, and answer exactly `pending` on the way: `Decodes(wire, pending, shift, Target)`.  It is stated with a run of the decoder, one
state for each byte; reading a byte drops its first state, and a key that is pressed or
released adds one, two or four, whichever form its code has.

*Screen.*  ScreenInv is EchoShowsLine with the types and that readline's buffer has room for its NUL.  `Shows` is preserved by
each of cga_putc's cases, and one character longer after a glyph; the prompt is an induction over its characters.

*Algorithms.*  Each loop gets a closed form for the memory or the address after k passes, which the recursive definition satisfies.
memmove: the bytes moved so far are an interval that grows away from where the source still has to be read (`MovesUp`, `MovesDown`),
whatever the unit.  user_mem_check: the addresses of a page are all bad or all good (`BadPage`, as ULIM begins a page), so the first bad page has
the first bad byte, or the range begins inside it.  That is for ranges whose end, rounded up, stays
below the top; of the others, and of empty ones, the loop is shown to make one pass at most (`ShortRange`, `FirstPageAlone`), so that what ChecksEveryByte
excepts is all that can go wrong.  bootmain: reading whole sectors overwrites bytes of segments read before, with what they
already are (`KeepsLoaded`), and bytes of later ones, which are read afterwards.

**How inductions are done.**  The theorem modules prove them over numbers by the least counterexample
(WellFoundedInduction's `WFMin` on the naturals), with a run of the recursive definition as a function.

**Only model-checked.**

* Liveness: EveryCharArrives, EveryProgramEnds.
* Kernel's refinement of Process, and AsGraded.  Its instructions, faults and system calls join Env and Trap, about which the theorems are;
  the step of each program against the abstract machine is left to TLC.
* MemInit's Reachable, which needs the number of pages below IOPHYSMEM, and Boots, that no assertion of the self checks
  fails: the proofs follow a script as long as its assertions hold, and say nothing of a memory in which one has failed.
* Library's text algorithms (NumbersReadBack, FormatsAsAsked, ArgvIsWords) and debuginfo_eip (EipFound): their definitions go through the
  recursive operators of the community modules (FlattenSeq, SetToSortSeq, ...), of which the provers know nothing.

## 5. Where the code and its comments disagree

Checked as runs that are violated:

* **console.c:403** (console_full): cons_intr ignores `rpos`; when CONSBUFSIZE characters wait, wpos equals rpos
  and cons_getc answers 0, "none waiting" (console.c:409).
* **syscall.c:88** (kernel_promises): the result of sys_env_destroy is dropped, against syscall.c:52 and 76.
* **syscall.c:32** (kernel_promises with PrintsNul): `%.*s` ends at a NUL; "The string is exactly 'len' characters long" (syscall.c:18).
* **printfmt.c:181** (kernel_promises with PrintsToHole): since `%s` looks one character past the precision, sys_cputs of a string that has no NUL
  and ends where the mapped memory does, or of an empty one at an unmapped address, is a page fault in
  the kernel, which panics; "Destroys the environment on memory errors" (syscall.c:19).

In the inputs of the passing runs, and named in the property:

* **pmap.c:112** (Boots): boot_alloc compares with `KERNBASE + npages * PGSIZE`, which is 2^32, that is 0,
  on a machine with the 256 MB that pmap.h:22 calls the maximum.  It then always panics.
* **pmap.c:577** (ChecksEveryByte; AcceptsReachable is violated): a range that wraps around, or ends in the last page, is accepted without a look at any page but perhaps
  the first, though the result should be "0 if the user program can access this range of addresses" (pmap.c:570).
  sys_cputs passes such ranges on as it gets them.
* **pmap.c:577** (ChecksEveryByte; RefusesErroneous is violated): a range of length 0 in the middle of a page is checked as if it were that page, and refused with an
  address that is not "the first erroneous virtual address" (pmap.c:567), as the range has none.  With PrintsNothing it is a case of kernel_promises too.
* **kdebug.c:89** (EipFound; EveryEipFound is violated): stab_binsearch goes on with `addr + 1` after an exact match.  A stab of
  the same type at exactly the next address is then an exact match too, and unless the search has passed it already the function
  returns that one instead of "the single stab entry ... that contains that address" (kdebug.c:29).
  Neighbouring lines of one byte exist in the kernel itself (obj/kern/kernel).
* **env.c:283** (PagesAccounted): region_alloc ignores the result of page_insert, where its comment (env.c:266) asks for a panic.
  The page is neither mapped nor free; PagesAccounted counts it as `lost`.
* **console.c:326** (EveryCharArrives): a byte of the mouse is never read, so the keys behind it do not arrive; "Ignore data from mouse" (console.c:325).
* **env.c:119** (SlotsOK, StaleIdsRejected): env_init does not mark the slots free (comment at env.c:108).  Both hold anyway, as ids are set to 0.
* **env.c:496**: env_run does not make the environment it leaves ENV_RUNNABLE, as its comment (env.c:480) asks.
* **pmap.c:284** (FreeExact): page_init frees all pages below IOPHYSMEM, where the comment at 266 says npages_basemem.

Met while modelling, not in any run:

* pmap.c:472: pp_ref is 16 bits and not checked for overflow; at the 65536th mapping of a page it is 0, not "the count of
  pointers (usually in page table entries)" (memlayout.h:179).  See section 4.
* kdebug.c:97: if no stab lies at or before the address but one lies behind it, the last loop leaves
  `*region_left` at the left end of the search and `*region_right` may not be below it, as the comment (kdebug.c:41)
  says of a failed search.  In debuginfo_eip an address between the N_SO of a file and its
  first N_FUN is then taken for one in a function, whose stab is the N_SO.  A compiler puts nothing there.
* printfmt.c:228: `%-4d` pads with '-' on the left; "flag to pad on the right" (printfmt.c:107).
* printfmt.c: a negative number with a width is one character too wide;
  `%.0s` is `%s`, as a 0 after the point is the flag; `%o` prints XXX and takes no argument.
* kern/printf.c:13: `*cnt++` moves the pointer, so the kernel's cprintf returns 0.
* env.c:316: load_icode maps every program header, whatever its p_type.
* kdebug.c: debuginfo_eip checks that the user can read one struct of the stab table, not the table.

## 6. What is not modelled

* Registers of devices: initialisation, busy waits, the parallel port, the CMOS ports, the cursor.
* Straight-line processor set-up: boot.S, entry.S up to the C code, segment descriptors, the TSS, cr0.
* mon_backtrace, which no command reaches, and which prints what debuginfo_eip finds; help, kerninfo and print_trapframe, which only print.
* The one-line loops of string.c.
* User mode's getchar and cputchar, which no program calls; the panic of the system call's wrapper on a positive answer
  (lib/syscall.c:34), which sys_env_destroy never gets.
* More than one environment in Kernel: i386_init creates one, and no system call makes another.  Env has two.
* A program that types: Kernel's sys_cgetc answers any character or none; Console says which.
* Arithmetic overflow in vprintfmt and strtol (the latter's comment admits it).
* Kernel's programs print no string that wraps around the top of the address space; Library has those ranges.
* load_icode's panic for a binary without ELF_MAGIC: the one binary is linked into the kernel and has it.
* What load_icode does at an arbitrary address, when env_create passes it an uninitialised pointer after env_alloc has failed: Env's
  EnvCreate has a panic, or an environment that exists.
* Two keys that set the same flag, as left and right shift, held at the same time: the driver has one flag for both and clears it when the first is released (Press).
* Build and grading scripts, obj/, and the leftovers of later labs (fs/test.c, user/sendpage.c).

PROJECT.json has the list by component.

## 7. Plan

In order of importance; the first six steps, and the seventh but for what it says, are done.

1. PmapOps, Pmap, VSpace and the theorems about the free list, the counts and the tables.
2. Env on PmapOps; MemInit on PmapOps.
3. Console with CharQueue; Keyboard; Screen.
4. Trap; the algorithms in Library.
5. Kernel: Env and Trap composed, with programs in user mode; Process, which it implements but in the cases named there.
6. debuginfo_eip over nested tables (file, function, line); snprintf.
7. Proofs: the memory manager with its refinement, mem_init, environments, traps, the console with its refinement,
   keyboard, screen, memmove, user_mem_check and the boot loader are done.  Next: AsGraded's safety part on EnvProofs and TrapProofs; Boots.
8. The rest of string.c.

## 8. Running it

    tlc -workers 2 -config Pmap.cfg MCPmap      # any run: its .cfg and MC module, see PROJECT.json
    tlapm PmapProofs.tla                        # the proofs of one module; likewise PmapLemmas, MemInitProofs, EnvProofs,
                                                # TrapProofs, ConsoleProofs, ScreenProofs, LibraryProofs
