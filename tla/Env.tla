-------------------------------- MODULE Env --------------------------------
(***************************************************************************)
(* kern/env.c: the array envs[], its free list, and the address spaces of  *)
(* the environments, on the page tables of PmapOps.  The kernel calls      *)
(* env_alloc, env_create, env_run, env_free and env_destroy in any order   *)
(* that their comments allow.  The kernel is never interrupted, but what   *)
(* it leaves in memory between two steps of a loop matters: the processor  *)
(* goes on translating through %cr3, so the loops of load_icode and        *)
(* env_free take one action per page.                                      *)
(***************************************************************************)
EXTENDS PmapOps

CONSTANTS
  NENV,        \* the number of slots of envs[]
  GENSTEP,     \* 1 << ENVGENSHIFT
  IDMOD,       \* 2^32: envid_t is a signed integer of this many values
  UTOP,        \* PDX(UTOP): the directory indices below are the user's
  UVPT,        \* PDX(UVPT)
  kern_pgdir,  \* the frame of the kernel's directory
  KernTab,     \* [index above UTOP -> frame of the kernel's page table there]
  KernMap,     \* [those frames -> their contents], fixed by mem_init, where
               \* what the user may read is read-only and the rest the kernel's
  FreeOrder,   \* the pages that mem_init leaves free, first pushed first
  Programs,    \* the binaries: sequences of the pages their program headers map,
               \* each with what memcpy puts there, or Null in the bss
  STACK,       \* the Va of USTACKTOP - PGSIZE
  TlbVa,       \* the addresses whose cached translations are followed
  Word         \* a frame that data, were it read as an entry, would name

EnvSlot == 0 .. NENV - 1
UIx     == {i \in Ix : i < UTOP}
ImagePage == [va : UIx \X Ix, word : Root \cup {Null}]
KTables == {KernTab[i] : i \in DOMAIN KernTab}

ASSUME EnvAssumption ==
  /\ NENV \in Nat \ {0} /\ GENSTEP \in Nat \ {0} /\ IDMOD \in Nat
  /\ GENSTEP % NENV = 0 /\ IDMOD % (2 * GENSTEP) = 0 /\ IDMOD > 2 * GENSTEP
  /\ Ix \subseteq Nat /\ UVPT \in Ix \ UIx
  /\ kern_pgdir \in Root /\ Word \in Root
  /\ DOMAIN KernTab \subseteq (Ix \ UIx) \ {UVPT} /\ KTables \subseteq Page
  /\ KernMap \in [KTables -> Table]
  /\ \A t \in KTables, j \in Ix : KernMap[t][j] # Null => KernMap[t][j].perm # Perm
  /\ FreeOrder \in Seq(Page \ KTables)
  /\ \A p \in Page \ KTables : \E i \in DOMAIN FreeOrder : FreeOrder[i] = p
  /\ \A i, j \in DOMAIN FreeOrder : FreeOrder[i] = FreeOrder[j] => i = j
  /\ Programs \subseteq Seq(ImagePage) /\ STACK \in UIx \X Ix
  /\ TlbVa \subseteq Va
  /\ Null \notin EnvSlot

VARIABLES
  mem,            \* physical memory, page tables, processor (PmapOps)
  envs,           \* the slots
  env_free_list,  \* the slots on env_free_list, along env_link
  curenv,
  call,           \* what the processor is executing
  lost,           \* ghost: pages region_alloc neither mapped nor gave back
  retired         \* ghost: the last ids of each slot before its current one

vars == <<mem, envs, env_free_list, curenv, call, lost, retired>>

Slot == [env_id        : 0 .. (IDMOD \div 2) - 1,
         env_parent_id : 0 .. (IDMOD \div 2) - 1,
         env_status    : {"FREE", "RUNNABLE", "RUNNING"},
         env_pgdir     : Frame \cup {Null}]

\* "kernel": between two calls; "user": in user mode, as curenv; "load_icode"
\* and "env_free": inside that loop, for e; "monitor" and "panic": for good.
Call(fn, e, todo, destroy) == [fn |-> fn, e |-> e, todo |-> todo, destroy |-> destroy]
Kernel == Call("kernel", Null, <<>>, FALSE)

Listed(e) == \E i \in DOMAIN env_free_list : env_free_list[i] = e
Live      == {e \in EnvSlot : ~Listed(e)}
Pgdir(e)  == envs[e].env_pgdir

----------------------------------------------------------------------------
(* The state after mem_init and env_init.  env_init sets every env_id and
   links the slots in order; it does not set env_status, and boot_alloc does
   not clear the memory that envs[] lies in.                               *)

kernel_entries ==
  [i \in Ix |-> IF i = UVPT THEN [pg |-> kern_pgdir, perm |-> {"U"}]
                ELSE IF i \in DOMAIN KernTab THEN [pg |-> KernTab[i], perm |-> Perm]
                ELSE Null]

Init ==
  /\ mem = [pp_ref  |-> [f \in Frame |-> IF f \in Root \cup KTables THEN 1 ELSE 0],
            pp_link |-> page_init(FreeOrder).link,
            page_free_list |-> page_init(FreeOrder).head,
            tab  |-> [f \in Frame |-> IF f = kern_pgdir THEN kernel_entries
                                      ELSE IF f \in KTables THEN KernMap[f]
                                      ELSE Junk(Word)],
            cr3  |-> kern_pgdir,
            tlb  |-> [va \in Va |-> Null]]
  /\ \E status \in [EnvSlot -> {"FREE", "RUNNABLE"}] :
       envs = [e \in EnvSlot |-> [env_id |-> 0, env_parent_id |-> 0,
                                  env_status |-> status[e], env_pgdir |-> Null]]
  /\ env_free_list = [i \in 1 .. NENV |-> i - 1]
  /\ curenv = Null
  /\ call = Kernel
  /\ lost = {}
  /\ retired = [e \in EnvSlot |-> <<>>]

----------------------------------------------------------------------------
(* env_alloc *)

env_setup_vm_template(m, d) ==
  [pp_ref_incr(m, d) EXCEPT !.tab[d] = m.tab[kern_pgdir]]

env_setup_vm_uncounted(m, d) ==
  [m EXCEPT
     !.tab[d] = [m.tab[kern_pgdir] EXCEPT ![UVPT] = [pg |-> d, perm |-> {"U"}]]]

\* The directory d of a new environment: the kernel's, except for UVPT.
env_setup_vm(m, d) ==
  [pp_ref_incr(m, d) EXCEPT
     !.tab[d] = [m.tab[kern_pgdir] EXCEPT ![UVPT] = [pg |-> d, perm |-> {"U"}]]]

\* int32_t arithmetic wraps around.
Signed(n) == IF n % IDMOD >= IDMOD \div 2 THEN (n % IDMOD) - IDMOD ELSE n % IDMOD

next_id_signed(id, e) ==
  LET sum == Signed(id + GENSTEP) IN sum - (sum % NENV) + e

next_id(id, e) ==
  LET sum        == Signed(id + GENSTEP)
      generation == sum - (sum % NENV)       \* & ~(NENV - 1)
  IN  (IF generation <= 0 THEN GENSTEP ELSE generation) + e

\* The slot e the call filled, Null when it failed, and the state after it.
env_alloc(parent) ==
  LET a == page_alloc(mem, TRUE)
      e == Head(env_free_list)
  IN  IF env_free_list = <<>> THEN [e |-> Null, mem |-> mem, d |-> Null]
      ELSE IF a.pg = Null THEN [e |-> Null, mem |-> mem, d |-> Null]
      ELSE [e |-> e, mem |-> env_setup_vm(a.mem, a.pg), d |-> a.pg]

\* How many ids a slot goes through before next_id comes round again.
Generations == (IDMOD \div (2 * GENSTEP)) - 1

\* The last n elements of s.
LastOf(s, n) == IF Len(s) <= n THEN s ELSE SubSeq(s, Len(s) - n + 1, Len(s))

\* The assignments of a successful env_alloc; env_free_list is committed last.
Commit(e, parent, d) ==
  /\ envs' = [envs EXCEPT ![e] = [env_id |-> next_id(@.env_id, e),
                                  env_parent_id |-> parent,
                                  env_status |-> "RUNNABLE",
                                  env_pgdir |-> d]]
  /\ env_free_list' = Tail(env_free_list)
  /\ retired' = [retired EXCEPT
       ![e] = IF envs[e].env_id = 0 THEN @
              ELSE LastOf(Append(@, envs[e].env_id), Generations - 1)]

EnvAlloc(parent) ==
  LET r == env_alloc(parent)
  IN  /\ call = Kernel
      /\ r.e # Null
      /\ mem' = r.mem
      /\ Commit(r.e, parent, r.d)
      /\ UNCHANGED <<curenv, call, lost>>

----------------------------------------------------------------------------
(* env_create, "ONLY called during kernel initialization, before running the
   first user-mode environment".  It ignores the result of env_alloc: when
   that fails, load_icode works on whatever p happens to hold: of all the
   addresses that can be, the model has those that make PADDR or the page
   fault handler panic, and those of the environments, as an earlier call may
   have left one there.                                                    *)

EnvCreate(prog) ==
  LET r == env_alloc(0)
  IN  /\ call = Kernel /\ curenv = Null
      /\ \/ /\ r.e # Null
            /\ mem' = lcr3(r.mem, r.d)
            /\ Commit(r.e, 0, r.d)
            /\ call' = Call("load_icode", r.e, prog, FALSE)
         \/ /\ r.e = Null
            /\ \/ /\ call' = Call("panic", Null, <<>>, FALSE)
                  /\ UNCHANGED mem
               \/ \E e \in Live : /\ call' = Call("load_icode", e, prog, FALSE)
                                  /\ mem' = lcr3(mem, Pgdir(e))
            /\ UNCHANGED <<envs, env_free_list, retired>>
      /\ UNCHANGED <<curenv, lost>>

region_alloc_unchecked(m, d, va) ==
  LET a == page_alloc(m, FALSE)
      i == page_insert(a.mem, d, a.pg, va, Perm)
  IN  [panic |-> FALSE, mem |-> i.mem, pg |-> a.pg, mapped |-> i.ok]

\* One iteration of region_alloc: a page from page_alloc (or panic), mapped at
\* va if page_insert can; the result of page_insert is ignored.
region_alloc(m, d, va) ==
  LET a == page_alloc(m, FALSE)
      i == page_insert(a.mem, d, a.pg, va, Perm)
  IN  IF a.pg = Null THEN [panic |-> TRUE, mem |-> m, pg |-> Null, mapped |-> FALSE]
      ELSE [panic |-> FALSE, mem |-> i.mem, pg |-> a.pg, mapped |-> i.ok]

Lose(r) == lost' = IF r.panic \/ r.mapped THEN lost ELSE lost \cup {r.pg}

Content(word) == IF word = Null THEN Blank ELSE Junk(word)

\* load_icode maps a page of a segment and fills it.  (The code maps all of a
\* segment's pages before it fills the first.)  When the page could not
\* be mapped, memset faults on its address and the page fault handler panics.
LoadPage ==
  LET r == region_alloc(mem, Pgdir(call.e), Head(call.todo).va)
  IN  /\ call.fn = "load_icode" /\ call.todo # <<>>
      /\ \/ /\ r.mapped
            /\ mem' = [r.mem EXCEPT !.tab[r.pg] = Content(Head(call.todo).word)]
            /\ call' = [call EXCEPT !.todo = Tail(@)]
         \/ /\ ~r.mapped
            /\ mem' = r.mem
            /\ call' = Call("panic", Null, <<>>, FALSE)
      /\ Lose(r)
      /\ UNCHANGED <<envs, env_free_list, curenv, retired>>

\* The segments are in place: back to kern_pgdir, and a page for the stack.
LoadStack ==
  LET r == region_alloc(lcr3(mem, kern_pgdir), Pgdir(call.e), STACK)
  IN  /\ call.fn = "load_icode" /\ call.todo = <<>>
      /\ mem' = r.mem
      /\ call' = IF r.panic THEN Call("panic", Null, <<>>, FALSE) ELSE Kernel
      /\ Lose(r)
      /\ UNCHANGED <<envs, env_free_list, curenv, retired>>

----------------------------------------------------------------------------
(* env_run, and what happens in user mode until the next trap *)

EnvRun_unswitched(e) ==
  /\ call = Kernel /\ e \in Live
  /\ curenv' = e
  /\ envs' = [envs EXCEPT ![e].env_status = "RUNNING"]
  /\ mem' = IF curenv = Null THEN lcr3(mem, Pgdir(e)) ELSE mem
  /\ call' = Call("user", e, <<>>, FALSE)
  /\ UNCHANGED <<env_free_list, lost, retired>>

EnvRun(e) ==
  /\ call = Kernel /\ e \in Live
  /\ \/ /\ curenv # e
        /\ curenv' = e
        /\ envs' = [envs EXCEPT ![e].env_status = "RUNNING"]
        /\ mem' = lcr3(mem, Pgdir(e))
     \/ /\ curenv = e
        /\ UNCHANGED <<curenv, envs, mem>>
  /\ call' = Call("user", e, <<>>, FALSE)
  /\ UNCHANGED <<env_free_list, lost, retired>>

\* The environment writes where the processor lets it: through the cached
\* translation, or through the tables.
UserWrite(va, word) ==
  /\ call.fn = "user"
  /\ \E x \in {mem.tlb[va], translate(mem, mem.cr3, va)} \ {Null} :
       /\ x.perm = Perm
       /\ mem' = [mem EXCEPT !.tab[x.pg] = Content(word)]
  /\ UNCHANGED <<envs, env_free_list, curenv, call, lost, retired>>

\* An exception or a system call.
Trap ==
  /\ call.fn = "user"
  /\ call' = Kernel
  /\ UNCHANGED <<mem, envs, env_free_list, curenv, lost, retired>>

TlbFill(va) ==
  /\ translate(mem, mem.cr3, va) # Null
  /\ mem' = tlb_fill(mem, va)
  /\ UNCHANGED <<envs, env_free_list, curenv, call, lost, retired>>

----------------------------------------------------------------------------
(* env_free, and env_destroy, which never returns: it stays in the monitor.
   curenv still points to the slot afterwards, so no caller may go on after
   freeing the current environment otherwise.                              *)

env_free_hot(e, destroy) ==
  /\ call = Kernel /\ e \in Live
  /\ e = curenv => destroy
  /\ call' = Call("env_free", e, <<>>, destroy)
  /\ UNCHANGED <<mem, envs, env_free_list, curenv, lost, retired>>

\* The entry of env_free: off the directory that is about to go.
env_free(e, destroy) ==
  /\ call = Kernel /\ e \in Live
  /\ e = curenv => destroy
  /\ mem' = IF e = curenv THEN lcr3(mem, kern_pgdir) ELSE mem
  /\ call' = Call("env_free", e, <<>>, destroy)
  /\ UNCHANGED <<envs, env_free_list, curenv, lost, retired>>

EnvFree(e)    == env_free(e, FALSE)
EnvDestroy(e) == env_free(e, TRUE)

Least(S) == CHOOSE i \in S : \A j \in S : i <= j

\* The directory entries env_free still has to clear, and those of the first
\* table.
Pdes(e)    == {i \in UIx : mem.tab[Pgdir(e)][i] # Null}
Ptes(e, i) == {j \in Ix : mem.tab[mem.tab[Pgdir(e)][i].pg][j] # Null}

FreePage ==
  LET e == call.e
      i == Least(Pdes(e))
  IN  /\ call.fn = "env_free" /\ Pdes(e) # {} /\ Ptes(e, i) # {}
      /\ mem' = page_remove(mem, Pgdir(e), <<i, Least(Ptes(e, i))>>)
      /\ UNCHANGED <<envs, env_free_list, curenv, call, lost, retired>>

FreeTable_kept ==
  LET e == call.e
      i == Least(Pdes(e))
  IN  /\ call.fn = "env_free" /\ Pdes(e) # {} /\ Ptes(e, i) = {}
      /\ mem' = page_decref(mem, mem.tab[Pgdir(e)][i].pg)
      /\ UNCHANGED <<envs, env_free_list, curenv, call, lost, retired>>

FreeTable ==
  LET e == call.e
      i == Least(Pdes(e))
  IN  /\ call.fn = "env_free" /\ Pdes(e) # {} /\ Ptes(e, i) = {}
      /\ mem' = page_decref([mem EXCEPT !.tab[Pgdir(e)][i] = Null],
                            mem.tab[Pgdir(e)][i].pg)
      /\ UNCHANGED <<envs, env_free_list, curenv, call, lost, retired>>

FreeDirectory ==
  LET e == call.e
  IN  /\ call.fn = "env_free" /\ Pdes(e) = {}
      /\ mem' = page_decref(mem, Pgdir(e))
      /\ envs' = [envs EXCEPT ![e].env_pgdir = Null, ![e].env_status = "FREE"]
      /\ env_free_list' = <<e>> \o env_free_list
      /\ call' = IF call.destroy THEN Call("monitor", Null, <<>>, FALSE) ELSE Kernel
      /\ UNCHANGED <<curenv, lost, retired>>

----------------------------------------------------------------------------
\* The parent of an environment the kernel allocates: nobody, or the caller.
Parent == {0} \cup {envs[e].env_id : e \in {curenv} \ {Null}}

InKernel ==
  \/ \E parent \in Parent : EnvAlloc(parent)
  \/ \E prog \in Programs : EnvCreate(prog)
  \/ LoadPage \/ LoadStack
  \/ \E e \in EnvSlot : EnvRun(e) \/ EnvFree(e) \/ EnvDestroy(e)
  \/ FreePage \/ FreeTable \/ FreeDirectory

Next == InKernel \/ Trap \/ (\E va \in Va : UserWrite(va, Word)) \/ (\E va \in TlbVa : TlbFill(va))

Spec == Init /\ [][Next]_vars

----------------------------------------------------------------------------
(* envid2env *)

envid2env_freed(id, checkperm) ==
  LET e == id % NENV
  IN  IF id = 0 THEN curenv ELSE IF envs[e].env_id = id THEN e ELSE Null

\* The slot that envid names, or Null for -E_BAD_ENV (and for a curenv of NULL).
envid2env(id, checkperm) ==
  LET e == id % NENV                                       \* ENVX(id)
  IN  IF id = 0 THEN curenv
      ELSE IF /\ envs[e].env_status # "FREE" /\ envs[e].env_id = id
              /\ checkperm => \/ e = curenv
                              \/ envs[e].env_parent_id = envs[curenv].env_id
           THEN e
           ELSE Null

----------------------------------------------------------------------------
(* Properties *)

\* Every variable has its type.
TypeOK ==
  /\ mem \in Mem
  /\ envs \in [EnvSlot -> Slot]
  /\ env_free_list \in Seq(EnvSlot)
  /\ curenv \in EnvSlot \cup {Null}
  /\ call \in [fn      : {"kernel", "user", "load_icode", "env_free", "monitor", "panic"},
               e       : EnvSlot \cup {Null},
               todo    : Seq(ImagePage),
               destroy : BOOLEAN]
  /\ lost \subseteq Page
  /\ retired \in [EnvSlot -> Seq(1 .. (IDMOD \div 2) - 1)]

\* The pages of e's own: its directory, its page tables below UTOP, and what
\* they map.
UserTables(e) == {f \in Frame : \E i \in UIx : /\ mem.tab[Pgdir(e)][i] # Null
                                               /\ mem.tab[Pgdir(e)][i].pg = f}
UserPages(e)  == {f \in Frame : \E t \in UserTables(e), j \in Ix :
                                  mem.tab[t][j] # Null /\ mem.tab[t][j].pg = f}
Owned(e)      == {Pgdir(e)} \cup UserTables(e) \cup UserPages(e)

\* No two environments share a page, an environment has none of the kernel's,
\* and every page it has is counted once, so that env_free frees it.
Private ==
  \A e \in Live :
    /\ Owned(e) \subseteq Page \ KTables
    /\ Pgdir(e) \notin UserTables(e) \cup UserPages(e)
    /\ UserTables(e) \cap UserPages(e) = {}
    /\ \A f \in Owned(e) : mem.pp_ref[f] = 1
    /\ \A f \in Live \ {e} : Owned(e) \cap Owned(f) = {}

\* Every page is the kernel's, some environment's, or on the free list: at any
\* point of a creation or a teardown nothing is lost (but for the pages that
\* region_alloc drops) and nothing in use is on the list.
PagesAccounted ==
  IsFreeChain(mem, Page \ (KTables \cup lost \cup UNION {Owned(e) : e \in Live}))

\* "The VA space of all envs is identical above UTOP (except at UVPT)": so the
\* kernel runs on any directory, and none of them has a page of its own there.
KernelShared ==
  /\ \A e \in Live, i \in Ix \ UIx :
       mem.tab[Pgdir(e)][i] = IF i = UVPT THEN [pg |-> Pgdir(e), perm |-> {"U"}]
                              ELSE mem.tab[kern_pgdir][i]
  /\ \A t \in KTables : mem.tab[t] = KernMap[t] /\ mem.pp_ref[t] = 1

\* The processor always runs on the kernel's directory or on one that a live
\* environment owns: env_free never pulls the directory from under it.
Cr3Live == mem.cr3 \in {kern_pgdir} \cup {Pgdir(e) : e \in Live}

\* In user mode, an environment reaches only pages of its own, or what the
\* kernel shows everyone; and it can write only its pages, never its tables.
\* This covers what the processor has cached.
Isolation ==
  call.fn = "user" =>
    /\ curenv \in Live /\ envs[curenv].env_status = "RUNNING"
    /\ mem.cr3 = Pgdir(curenv)
    /\ \A va \in Va : \A x \in {mem.tlb[va], translate(mem, mem.cr3, va)} \ {Null} :
         "U" \in x.perm =>
           /\ "W" \in x.perm => x.pg \in UserPages(curenv)
           /\ x.pg \in Owned(curenv) \cup KTables \/ va[1] \in DOMAIN KernTab

\* env_free_list has no slot twice, and the slots off it are the environments:
\* those with a directory and a nonzero id that names their slot.
SlotsOK ==
  /\ \A i, j \in DOMAIN env_free_list : env_free_list[i] = env_free_list[j] => i = j
  /\ \A e \in EnvSlot : e \in Live <=> Pgdir(e) # Null
  /\ \A e \in Live : /\ envs[e].env_status # "FREE"
                     /\ envs[e].env_id % NENV = e
                     /\ envs[e].env_id >= GENSTEP

\* "to ensure that the envid is not stale": envid2env finds only environments
\* that exist, whatever env_status was at boot, and no id of an earlier
\* environment of the slot until the generations have come full circle.
StaleIdsRejected ==
  \A id \in 1 .. (IDMOD \div 2) - 1 :
    LET e == envid2env(id, FALSE)
    IN  e # Null => /\ e \in Live
                    /\ \A i \in DOMAIN retired[e] : retired[e][i] # id

\* The entries that env_free still has to clear, and the pages that load_icode
\* still has to map.
Work ==
  LET e == call.e
  IN  IF call.fn = "env_free"
      THEN Cardinality(Pdes(e)) + Cardinality({va \in Va : va[1] \in Pdes(e) /\ va[2] \in Ptes(e, va[1])})
      ELSE Len(call.todo)

\* The loops of load_icode and env_free end: no step of theirs leaves as much
\* to do as before, and nothing but the TLB changes in between.
LoopsEnd ==
  [][call.fn \in {"load_icode", "env_free"} /\ call'.fn = call.fn =>
       \/ Work' < Work
       \/ [mem EXCEPT !.tlb = mem'.tlb] = mem' /\ call' = call]_vars
=============================================================================
