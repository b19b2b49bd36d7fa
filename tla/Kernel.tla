------------------------------- MODULE Kernel -------------------------------
(***************************************************************************)
(* The kernel as i386_init starts it, from the creation of the one         *)
(* environment to the monitor: the page tables and the environment of Env, *)
(* the traps of Trap, and a program of user/ that runs on both.  A step    *)
(* of the whole is a step of Env, a step of Trap, or one of each at once:  *)
(* a system call that kills its caller is Trap's Syscall and Env's         *)
(* EnvDestroy.                                                             *)
(***************************************************************************)
EXTENDS Programs

CONSTANTS
  Frame, Root, Ix, RefMod, GENSTEP, IDMOD, UTOP, UVPT, kern_pgdir,   \* see Env
  KernTab, KernMap, FreeOrder, TlbVa, Word,
  envs_frame,    \* the frame in which envs[] lies
  ULIM,          \* as a page number
  Image,         \* what the program headers map
  Shown, Hidden, \* the kernel's pages: those that everyone may read, and the others
  SomePrograms   \* the programs to run

VARIABLES
  mem, envs, env_free_list, curenv, call, lost, retired,   \* Env
  pc, regs, stack, env_tf, tf, args, cause, was,           \* Trap
  prog,      \* the binary that was linked with the kernel
  cr2,       \* the address of the last page fault
  console    \* what has been printed

envVars  == <<mem, envs, env_free_list, curenv, call, lost, retired>>
trapVars == <<pc, regs, stack, env_tf, tf, args, cause, was>>
vars     == <<envVars, trapVars, prog, cr2, console>>

Pages   == Cardinality(Ix)
VaOf(p) == <<p \div Pages, p % Pages>>

\* Trap knows of the environment no more than this.
status ==
  IF pc = "run" THEN "RUNNABLE"
  ELSE IF call.fn \in {"env_free", "monitor"} THEN "FREE"
  ELSE envs[0].env_status

E == INSTANCE Env WITH NENV <- 1, Programs <- {Image}, STACK <- VaOf(At.stack)
T == INSTANCE Trap WITH Points <- {}, Ints <- {}, Faults <- {}, KernelFaults <- {}, Syscallno <- {},
                        Caller <- {<<"arg", 0>>, <<"arg", GENSTEP>>}
U == INSTANCE UserMem WITH PGSIZE <- 2, ADDRS <- 2 * Pages * Pages, ULIM <- 2 * ULIM

Out(events) == console' = console \o events

Init ==
  /\ E!Init /\ T!Init
  /\ prog \in SomePrograms /\ cr2 = 0 /\ console = <<>>

----------------------------------------------------------------------------
(* i386_init: ENV_CREATE, then env_run(&envs[0]) *)

Create ==
  /\ pc = "run" /\ E!Live = {}
  /\ E!EnvCreate(Image)
  /\ Out(<< <<"new env", envs'[0].env_id>> >>)
  /\ UNCHANGED <<trapVars, prog, cr2>>

LoadImage ==
  /\ E!LoadPage \/ E!LoadStack
  /\ UNCHANGED <<trapVars, prog, cr2, console>>

\* Also the end of trap: env_run(curenv).
Run ==
  /\ E!EnvRun(0) /\ T!EnvRun
  /\ UNCHANGED <<prog, cr2, console>>

----------------------------------------------------------------------------
(* User mode, on what the MMU finds for it *)

Mmu(p) == IF mem.tlb[VaOf(p)] # Null THEN mem.tlb[VaOf(p)]
          ELSE E!translate(mem, mem.cr3, VaOf(p))

\* The word in a frame, and at a page: of envs[] it is thisenv->env_id.
Data(f)   == IF mem.tab[f][0] = Null THEN Null ELSE mem.tab[f][0].pg
WordAt(p) == IF Mmu(p).pg = envs_frame THEN envs[0].env_id ELSE Data(Mmu(p).pg)

\* The word in eax after a system call.
Answered(eax) ==
  CASE eax = T!W("env_id")   -> envs[0].env_id
    [] eax = T!W("char")     -> Say.char
    [] eax = T!W("-E_INVAL") -> Say.inval
    [] OTHER                 -> Null

eip   == regs.eip[2]
Now   == prog[eip + 1]
After == T!UserRegs(eip + 1)   \* the registers once it is done

Blocked ==
  {k \in DOMAIN Accesses(Now) :
     LET x    == Mmu(Accesses(Now)[k][1])
         need == IF Accesses(Now)[k][2] THEN {"U", "W"} ELSE {"U"}
     IN  IF x = Null THEN TRUE ELSE ~(need \subseteq x.perm)}

\* An instruction that does not trap.
Compute ==
  /\ pc = "user" /\ Blocked = {}
  /\ \/ Now.op = "load"  /\ UNCHANGED envVars /\ T!UserStep(eip + 1)
     \/ /\ Now.op = "expect"
        /\ UNCHANGED envVars
        /\ T!UserStep(IF WordAt(Now.p) = Now.w THEN eip + 1 ELSE PanicAt(prog))
     \/ Now.op = "store" /\ E!UserWrite(VaOf(Now.p), Now.w) /\ T!UserStep(eip + 1)
     \/ Now.op = "save"  /\ E!UserWrite(VaOf(Now.p), Answered(regs.eax)) /\ T!UserStep(eip + 1)
     \/ Now.op = "copy"  /\ E!UserWrite(VaOf(Now.q), WordAt(Now.p)) /\ T!UserStep(eip + 1)
  /\ UNCHANGED <<prog, cr2, console>>

PageFault ==
  /\ pc = "user" /\ Blocked # {}
  /\ LET a    == Accesses(Now)[Min(Blocked)]
         bits == (IF Mmu(a[1]) = Null THEN 0 ELSE 1) + (IF a[2] THEN 2 ELSE 0) + 4
     IN  E!Trap /\ cr2' = 2 * a[1] /\ T!Fault(14, <<"pf", bits>>)
  /\ UNCHANGED <<prog, console>>

\* int $3 and int $48 go on behind the instruction.
Interrupt ==
  /\ pc = "user" /\ E!Trap
  /\ \/ Now.op = "fault" /\ T!Fault(Now.n, T!W(Now.s))
     \/ Now.op = "int" /\ T!SoftInt(Now.n, IF Now.n \in {3, 48} THEN After ELSE regs)
     \/ Now.op = "sys" /\ T!SysCall(Now.s, <<"arg", Now.p>>, <<"arg", Now.n>>, After)
  /\ UNCHANGED <<prog, cr2, console>>

----------------------------------------------------------------------------
(* The kernel, from the frame on *)

Trapped ==
  /\ UNCHANGED <<envVars, prog, cr2, console>>
  /\ T!Trap \/ T!DispatchSyscall

Trapframe == <<"TRAP", T!Field(T!CurrentFrame, "trapno")[2], T!Field(T!CurrentFrame, "err")>>

Breakpoint ==
  /\ UNCHANGED <<envVars, prog, cr2>>
  /\ T!Breakpoint
  /\ Out(<< <<"monitor">>, Trapframe>>)

\* env_destroy, as far as the loop of env_free: what is printed before it, and
\* by env_free.
Destroy(said) ==
  /\ E!EnvDestroy(curenv)
  /\ Out(said \o << <<"free env", envs[curenv].env_id>> >>)

\* page_fault_handler, and the end of trap_dispatch.
Unexpected ==
  /\ pc = "dispatch"
  /\ IF T!Field(T!CurrentFrame, "cs") = T!W("GD_KT") THEN UNCHANGED <<envVars, console>>
     ELSE Destroy((IF T!Is(14) THEN << <<"fault va", cr2>> >> ELSE <<>>) \o <<Trapframe>>)
  /\ T!Unexpected
  /\ UNCHANGED <<prog, cr2>>

\* The permissions that pgdir_walk finds for page p of the environment.
pte(p) ==
  LET pt == E!pgdir_walk(mem, E!Pgdir(curenv), VaOf(p), FALSE).pt
  IN  IF pt = Null THEN {}
      ELSE IF mem.tab[pt][VaOf(p)[2]] = Null THEN {}
      ELSE {"P"} \cup mem.tab[pt][VaOf(p)[2]].perm

\* sys_cputs: user_mem_assert, then cprintf("%.*s"), which looks at the
\* character behind the last one before it stops for the length.
SysCputs ==
  LET s       == args[2][2]
      len     == args[3][2]
      checked == U!user_mem_check([p \in 0 .. Pages * Pages - 1 |-> pte(p)], s, len, {"U"})
      pages   == PagesOf(s, len)
      text    == UpToNul([k \in DOMAIN pages |-> WordAt(pages[k])])
      next    == PageOf(s + len)
      printed == [k \in DOMAIN text |-> <<"user", text[k]>>]
  IN  /\ pc = "syscall" /\ args[1] = T!W("SYS_cputs")
      /\ \/ /\ checked.ok /\ (Len(text) = Len(pages) => Mmu(next) # Null)
            /\ Out(printed)
            /\ UNCHANGED <<envVars, cr2>> /\ T!Syscall
         \/ /\ ~checked.ok
            /\ Destroy(<< <<"user_mem_check", checked.user_mem_check_addr>> >>)
            /\ UNCHANGED cr2 /\ T!Syscall
         \/ /\ checked.ok /\ Len(text) = Len(pages) /\ Mmu(next) = Null
            /\ Out(printed)
            /\ cr2' = s + len
            /\ UNCHANGED envVars /\ T!KernelFault(14)

\* envid2env tells whether there is somebody to destroy.
SysEnvDestroy ==
  /\ pc = "syscall" /\ args[1] = T!W("SYS_env_destroy")
  /\ IF E!envid2env(args[2][2], TRUE) = Null THEN UNCHANGED <<envVars, console>>
     ELSE Destroy(<< <<"exiting gracefully">> >>)
  /\ T!Syscall
  /\ UNCHANGED cr2

OtherCall ==
  /\ pc = "syscall" /\ args[1] \notin {T!W("SYS_cputs"), T!W("SYS_env_destroy")}
  /\ UNCHANGED <<envVars, cr2, console>>
  /\ T!Syscall

Syscall == (SysCputs \/ SysEnvDestroy \/ OtherCall) /\ UNCHANGED prog

\* The rest of env_destroy.
FreeAll ==
  /\ E!FreePage \/ E!FreeTable \/ E!FreeDirectory
  /\ console' = IF call'.fn = "monitor" THEN Append(console, <<"monitor">>) ELSE console
  /\ UNCHANGED <<trapVars, prog, cr2>>

TlbFill(va) == E!TlbFill(va) /\ UNCHANGED <<trapVars, prog, cr2, console>>

Processor ==
  \/ Create \/ LoadImage \/ Run \/ Compute \/ PageFault \/ Interrupt
  \/ Trapped \/ Breakpoint \/ Unexpected \/ Syscall \/ FreeAll

Next == Processor \/ \E va \in TlbVa : TlbFill(va)

Spec == Init /\ [][Next]_vars /\ WF_vars(Processor)

----------------------------------------------------------------------------
(* Properties *)

PageNo(va) == va[1] * Pages + va[2]
Loaded     == [p \in {PageNo(Image[i].va) : i \in DOMAIN Image} |->
                 Image[CHOOSE i \in DOMAIN Image : PageNo(Image[i].va) = p].word]
Own        == DOMAIN Loaded \cup {At.stack}

Dead == call.fn \in {"env_free", "monitor"}

P == INSTANCE Process WITH
  Words  <- {Word},
  Id     <- GENSTEP,
  mode   <- CASE pc = "run" -> "boot"
              [] cause.kind = "kernel" -> "panic"
              [] pc \in {"user", "return"} -> "user"
              [] pc \in {"trap", "dispatch", "syscall"} -> "kernel"
              [] call.fn = "env_free" -> "gone"
              [] OTHER -> "monitor",
  at     <- CASE pc = "user"   -> eip
              [] pc = "return" -> T!Field(env_tf, "eip")[2]
              [] OTHER         -> IF cause.kind = "kernel" \/ (cause.kind = "int" /\ cause.n \in {3, 48})
                                  THEN was.eip[2] - 1 ELSE was.eip[2],
  ret    <- CASE pc = "user"   -> Answered(regs.eax)
              [] pc = "return" -> Answered(T!Field(env_tf, "eax"))
              [] OTHER         -> Null,
  memory <- [p \in Own |-> IF pc = "run" \/ Dead THEN Null
                           ELSE Data(E!translate(mem, E!Pgdir(0), VaOf(p)).pg)],
  out    <- IF pc = "run" THEN <<>> ELSE console

\* Through page tables, TLB, trap frames and the teardown page by page, the
\* program sees a machine of its own: every instruction has its effect once and
\* in order, answers reach the call that asked, and the console shows what the
\* calls printed, why the program ended, and nothing else.  The system calls do
\* what their comments say, but in the four cases that Process names (Departs).
ImplementsProcess == P!Spec

\* The comments of the system calls: sys_cputs prints exactly len characters or
\* destroys the environment on memory errors, and sys_env_destroy answers with
\* an error if there is nobody to destroy.
KeepsPromises == P!Promise

Stopped == pc = "panic" \/ call.fn = "monitor" \/ (pc = "monitor" /\ call.fn = "kernel")

\* "restarting the environment will restart at the trap point": no program
\* hangs between its instructions and the kernel; each of them (none has a loop)
\* comes to the monitor.
EveryProgramEnds == <>Stopped

\* The output that grade-lab3 looks for, and what it must not find.
Expected(name) ==
  LET free == <<"free env", GENSTEP>>
      trap(v, err) == <<"TRAP", v, err>>
      fault(p, bits) == << <<"fault va", 2 * p>>, trap(14, <<"pf", bits>>), free>>
      mem_check(a)   == << <<"user_mem_check", a>>, free>>
      user(words)    == [i \in DOMAIN words |-> <<"user", words[i]>>]
  IN  CASE name = "divzero"          -> <<trap(0, <<"0", 0>>), free>>
        [] name = "softint"          -> <<trap(13, <<"idt", 14>>), free>>
        [] name = "badsegment"       -> <<trap(13, <<"0x28", 0>>), free>>
        [] name = "faultread"        -> fault(At.null, 4)
        [] name = "faultreadkernel"  -> fault(At.kernel, 5)
        [] name = "faultwrite"       -> fault(At.null, 6)
        [] name = "faultwritekernel" -> fault(At.kernel, 7)
        [] name = "breakpoint"       -> << <<"monitor">>, trap(3, <<"0", 0>>)>>
        [] name = "testbss"          -> user(<<Say.making, Say.yes>>) \o fault(At.beyond, 6)
        [] name = "hello"            -> << <<"new env", GENSTEP>> >> \o user(<<Say.hello, GENSTEP>>)
                                          \o << <<"exiting gracefully">>, free, <<"monitor">> >>
        [] name = "buggyhello"       -> mem_check(2 * At.null + 1)
        [] name = "buggyhello2"      -> mem_check(2 * At.beyond)
        [] name = "evilhello"        -> mem_check(2 * At.kernel + 1)

Unexpected_(name) ==
  CASE name \in {"divzero", "faultread", "faultreadkernel"} -> {<<"user", Say.read>>}
    [] name = "breakpoint"  -> {<<"free env", GENSTEP>>}
    [] name = "buggyhello2" -> {<<"user", Say.code>>}
    [] OTHER                -> {}

\* The elements of s occur in t, in this order.
InOrder(s, t) ==
  LET next(k, event) == IF k < Len(s) /\ s[k + 1] = event THEN k + 1 ELSE k
  IN  FoldLeft(next, 0, t) = Len(s)

\* Each program of user/ has printed, by its end, what grade-lab3 expects of it:
\* these lines, in this order, and not those.
AsGraded ==
  \A name \in DOMAIN UserPrograms :
    prog = UserPrograms[name] /\ Stopped =>
      /\ InOrder(Expected(name), console)
      /\ \A i \in DOMAIN console : console[i] \notin Unexpected_(name)
=============================================================================
