-------------------------------- MODULE Trap --------------------------------
(***************************************************************************)
(* From user mode into the kernel and back: the gates of trap_init, the    *)
(* stubs and _alltraps of kern/trapentry.S, trap and trap_dispatch of      *)
(* kern/trap.c, syscall of kern/syscall.c, env_run and env_pop_tf.  There  *)
(* is one environment, as i386_init creates it.  The kernel is not         *)
(* interrupted, but its own code may fault anywhere on the way.            *)
(*                                                                         *)
(* A word of memory or of a register is a pair of a name and a number.     *)
(***************************************************************************)
EXTENDS Naturals, SequencesExt

CONSTANTS
  Points,       \* places in the user's program, as numbers
  Ints,         \* the n for which user mode executes "int $n"
  Faults,       \* the exceptions that user mode causes
  KernelFaults, \* those that the kernel's own code causes
  Syscallno,    \* the numbers in eax: SYS_* and others
  Caller        \* the arguments that envid2env takes for the caller

\* The processor's exceptions have the vectors up to 31.  The kernel's code has
\* no breakpoint in it.
ASSUME TrapAssumption ==
  /\ Points \subseteq Nat /\ Ints \subseteq Nat
  /\ Faults \subseteq 0 .. 31 /\ KernelFaults \subseteq (0 .. 31) \ {3}

VARIABLES
  pc,        \* "run", "user", "trap", "dispatch", "syscall", "return", "monitor", "panic"
  regs,      \* the processor's registers
  stack,     \* the kernel's stack, from KSTACKTOP down
  env_tf,    \* the environment's Trapframe, lowest address first
  status,    \* its env_status
  tf,        \* what tf points to: "env_tf" or "stack"
  args,      \* syscall's arguments
  cause,     \* ghost: what led to the last trap
  was        \* ghost: the user's registers at the last trap from user mode

vars == <<pc, regs, stack, env_tf, status, tf, args, cause, was>>

W(name) == <<name, 0>>

----------------------------------------------------------------------------
(* The processor *)

Pushed == {"edi", "esi", "ebp", "ebx", "edx", "ecx", "eax"}
Reg    == Pushed \cup {"es", "ds", "eip", "cs", "eflags", "esp", "ss"}

\* The environment's registers at a point of its program.
UserRegs(n) == [r \in Reg |-> CASE r = "cs" -> W("GD_UT|3")
                                [] r \in {"es", "ds", "ss"} -> W("GD_UD|3")
                                [] OTHER -> <<r, n>>]

\* The registers in the kernel's code, whatever it computes in them.
KernelRegs == [r \in Reg |-> CASE r = "cs" -> W("GD_KT")
                               [] r \in {"es", "ds", "ss"} -> W("GD_KD")
                               [] OTHER -> W("kernel")]

FromUser(r) == r.cs = W("GD_UT|3")

\* The exceptions with an error code.
HasErr == {8, 10, 11, 12, 13, 14, 17}

gate_open ==
  [v \in ((0 .. 16) \ {2, 15}) \cup {48} |-> 3]

\* trap_init: the gates and their DPL.
gate == [v \in ((0 .. 16) \ {2, 15}) \cup {48} |-> IF v \in {3, 48} THEN 3 ELSE 0]

\* A trap that has no gate, or that user mode may not take through its gate,
\* is a general protection fault.
Vector(v, err, soft, r) ==
  IF v \notin DOMAIN gate THEN [v |-> 13, err |-> <<"idt", v>>]
  ELSE IF soft /\ FromUser(r) /\ gate[v] = 0 THEN [v |-> 13, err |-> <<"idt", v>>]
  ELSE [v |-> v, err |-> IF v \in HasErr /\ ~soft THEN err ELSE W("none")]

\* What the processor pushes; it starts at KSTACKTOP when it leaves user mode.
hw_frame(r, st, err) ==
  (IF FromUser(r) THEN <<r.ss, r.esp>> ELSE st)
    \o <<r.eflags, r.cs, r.eip>>
    \o (IF err = W("none") THEN <<>> ELSE <<err>>)

----------------------------------------------------------------------------
(* trapentry.S *)

\* EC pushes the number, NOEC a 0 in place of the error code first.
stub(v) == (IF v \in {8, 10, 11, 12, 13, 14} THEN <<>> ELSE <<W("0")>>) \o << <<"trapno", v>> >>

\* _alltraps: %ds, %es, and pushal.
alltraps(r) == <<r.ds, r.es, r.eax, r.ecx, r.edx, r.ebx, W("oesp"), r.ebp, r.esi, r.edi>>

Enter(v, err, soft, r) ==
  LET x == Vector(v, err, soft, r)
  IN  /\ stack' = hw_frame(r, stack, x.err) \o stub(x.v) \o alltraps(r)
      /\ regs' = KernelRegs
      /\ pc' = "trap"

----------------------------------------------------------------------------
(* struct Trapframe, from its lowest address up *)

Layout == <<"edi", "esi", "ebp", "oesp", "ebx", "edx", "ecx", "eax", "es", "ds",
            "trapno", "err", "eip", "cs", "eflags", "esp", "ss">>

Field(f, name) == f[CHOOSE i \in DOMAIN Layout : Layout[i] = name]

\* The frame at the stack pointer.
StackFrame == Reverse(stack)

CurrentFrame == IF tf = "env_tf" THEN env_tf ELSE StackFrame

\* env_alloc and load_icode: all zero but the segments, esp and eip.
Init ==
  /\ pc = "run"
  /\ regs = KernelRegs
  /\ stack = <<>>
  /\ env_tf = [i \in DOMAIN Layout |->
                 LET name == Layout[i]
                 IN  CASE name = "cs" -> W("GD_UT|3")
                       [] name \in {"ds", "es", "ss"} -> W("GD_UD|3")
                       [] name \in {"esp", "eip"} -> <<name, 0>>
                       [] OTHER -> W("0")]
  /\ status = "RUNNABLE"
  /\ tf = "env_tf"
  /\ args = <<>>
  /\ cause = [kind |-> "none", n |-> 0, err |-> W("none")]
  /\ was = UserRegs(0)

----------------------------------------------------------------------------
(* User mode *)

\* The program goes on, to the place n; all of its registers change.
UserStep(n) ==
  /\ pc = "user"
  /\ regs' = UserRegs(n)
  /\ UNCHANGED <<pc, stack, env_tf, status, tf, args, cause, was>>

FromUserMode(kind, n, err, r) ==
  /\ pc = "user"
  /\ Enter(n, err, kind = "int", r)
  /\ cause' = [kind |-> kind, n |-> n, err |-> err]
  /\ was' = r
  /\ UNCHANGED <<env_tf, status, tf, args>>

SoftInt(n, r) == FromUserMode("int", n, W("none"), r)
Fault(v, err) == FromUserMode("fault", v, err, regs)

\* lib/syscall.c: the number in eax, the arguments in edx, ecx, ebx, edi, esi.
SysCall(no, a1, a2, r) ==
  SoftInt(48, [r EXCEPT !.eax = W(no), !.edx = a1, !.ecx = a2,
                        !.ebx = W("a3"), !.edi = W("a4"), !.esi = W("a5")])

----------------------------------------------------------------------------
(* The kernel *)

\* The kernel's code is itself interrupted by an exception (bound: once).
KernelFault(v) ==
  /\ pc \in {"trap", "dispatch", "syscall", "return"}
  /\ FromUser(was) /\ cause.kind # "kernel"
  /\ Enter(v, W("err"), FALSE, regs)
  /\ cause' = [kind |-> "kernel", n |-> v, err |-> W("err")]
  /\ UNCHANGED <<env_tf, status, tf, args, was>>

Trap_always ==
  /\ pc = "trap" /\ pc' = "dispatch"
  /\ env_tf' = SubSeq(StackFrame, 1, Len(Layout))
  /\ tf' = "env_tf"
  /\ UNCHANGED <<regs, stack, status, args, cause, was>>

Trap_uncopied ==
  /\ pc = "trap" /\ pc' = "dispatch"
  /\ tf' = "stack"
  /\ UNCHANGED <<regs, stack, env_tf, status, args, cause, was>>

\* trap: the frame of a trap from user mode is copied to the environment.
Trap ==
  /\ pc = "trap" /\ pc' = "dispatch"
  /\ \/ /\ Field(StackFrame, "cs") = W("GD_UT|3")
        /\ env_tf' = StackFrame
        /\ tf' = "env_tf"
     \/ /\ Field(StackFrame, "cs") # W("GD_UT|3")
        /\ tf' = "stack"
        /\ UNCHANGED env_tf
  /\ UNCHANGED <<regs, stack, status, args, cause, was>>

\* env_destroy never returns: it stays in the monitor.
Destroy == pc' = "monitor" /\ status' = "FREE"

Panic == pc' = "panic" /\ UNCHANGED status

Is(v) == Field(CurrentFrame, "trapno") = <<"trapno", v>>

\* page_fault_handler, and the end of trap_dispatch.
Unexpected ==
  /\ pc = "dispatch" /\ ~Is(3) /\ ~Is(48)
  /\ IF Field(CurrentFrame, "cs") = W("GD_KT") THEN Panic ELSE Destroy
  /\ UNCHANGED <<regs, stack, env_tf, tf, args, cause, was>>

\* None of the monitor's commands makes it return.
Breakpoint ==
  /\ pc = "dispatch" /\ Is(3)
  /\ pc' = "monitor"
  /\ UNCHANGED <<regs, stack, env_tf, status, tf, args, cause, was>>

DispatchSyscall_swapped ==
  /\ pc = "dispatch" /\ Is(48)
  /\ pc' = "syscall"
  /\ args' = [i \in 1 .. 6 |-> Field(CurrentFrame, <<"eax", "ecx", "edx", "ebx", "edi", "esi">>[i])]
  /\ UNCHANGED <<regs, stack, env_tf, status, tf, cause, was>>

DispatchSyscall ==
  /\ pc = "dispatch" /\ Is(48)
  /\ pc' = "syscall"
  /\ args' = [i \in 1 .. 6 |-> Field(CurrentFrame, <<"eax", "edx", "ecx", "ebx", "edi", "esi">>[i])]
  /\ UNCHANGED <<regs, stack, env_tf, status, tf, cause, was>>

\* Back in trap_dispatch: the result goes to the frame's eax.
Answer(r) ==
  /\ pc' = "return"
  /\ env_tf' = [env_tf EXCEPT ![8] = r]
  /\ UNCHANGED status

\* syscall.  Whether user_mem_check likes the string, what the console holds
\* and which environment the id names are choices.
Syscall ==
  /\ pc = "syscall"
  /\ \/ args[1] = W("SYS_cputs")    /\ Answer(W("0"))
     \/ args[1] = W("SYS_cputs")    /\ Destroy /\ UNCHANGED env_tf
     \/ args[1] = W("SYS_cgetc")    /\ \E c \in {W("0"), W("char")} : Answer(c)
     \/ args[1] = W("SYS_getenvid") /\ Answer(W("env_id"))
     \/ /\ args[1] = W("SYS_env_destroy") /\ args[2] \in Caller
        /\ Destroy /\ UNCHANGED env_tf
     \/ /\ args[1] = W("SYS_env_destroy") /\ args[2] \notin Caller
        /\ Answer(W("0"))
     \/ /\ args[1] \notin {W("SYS_cputs"), W("SYS_cgetc"), W("SYS_getenvid"), W("SYS_env_destroy")}
        /\ Answer(W("-E_INVAL"))
  /\ UNCHANGED <<regs, stack, tf, args, cause, was>>

env_pop_tf_regs(f) ==
  [r \in Reg |-> CASE r = "ebx" -> f[4] [] r = "edx" -> f[5] [] r = "ecx" -> f[6] [] r = "eax" -> f[7]
                   [] OTHER -> Field(f, r)]

\* popal skips the word of esp; then es, ds; iret pops the rest from eip on.
env_pop_tf(f) ==
  LET popped == <<"edi", "esi", "ebp", "-", "ebx", "edx", "ecx", "eax", "es", "ds", "-", "-",
                  "eip", "cs", "eflags", "esp", "ss">>
  IN  [r \in Reg |-> f[CHOOSE i \in DOMAIN popped : popped[i] = r]]

\* env_run(&envs[0]) at boot, and env_run(curenv) at the end of trap.
EnvRun ==
  /\ pc' = "user"
  /\ \/ pc = "run" /\ status' = "RUNNING"
     \/ pc = "return" /\ status = "RUNNING" /\ UNCHANGED status
  /\ regs' = env_pop_tf(env_tf)
  /\ UNCHANGED <<stack, env_tf, tf, args, cause, was>>

Next ==
  \/ \E n \in Points : UserStep(n)
  \/ \E n \in Ints : SoftInt(n, regs)
  \/ \E v \in Faults : Fault(v, W("err"))
  \/ \E no \in Syscallno, a1 \in {"0", "env_id", "stale"} : SysCall(no, W(a1), W("a2"), regs)
  \/ \E v \in KernelFaults : KernelFault(v)
  \/ Trap \/ Unexpected \/ Breakpoint \/ DispatchSyscall \/ Syscall \/ EnvRun

Spec == Init /\ [][Next]_vars

----------------------------------------------------------------------------
(* Properties *)

\* What the kernel should see of a trap.  User mode may ask for a breakpoint
\* and for a system call; any other "int" is a protection fault, so that a page
\* fault it sees was one, and so is an exception without a gate.
Expected(c) ==
  IF (c.kind = "int" /\ c.n \notin {3, 48}) \/ c.n \notin DOMAIN gate THEN <<13, <<"idt", c.n>> >>
  ELSE <<c.n, IF c.n \in HasErr THEN c.err ELSE W("0")>>

\* trap_dispatch finds in the frame the trap that happened, with its error code
\* or 0, and the registers of the code it interrupted, whoever pushed them.
FrameDescribesTrap ==
  pc = "dispatch" =>
    LET r == IF cause.kind = "kernel" THEN KernelRegs ELSE was
        e == Expected(cause)
    IN  /\ Field(CurrentFrame, "trapno") = <<"trapno", e[1]>> /\ Field(CurrentFrame, "err") = e[2]
        /\ \A name \in Reg \ {"esp", "ss"} : Field(CurrentFrame, name) = r[name]
        /\ cause.kind # "kernel" => Field(CurrentFrame, "esp") = r.esp /\ Field(CurrentFrame, "ss") = r.ss

\* The environment continues with the registers it had, however often it has
\* trapped; only a system call changes one, eax.
Resumes ==
  [][pc = "return" /\ pc' = "user" =>
       /\ cause.kind = "int" /\ cause.n = 48
       /\ \A r \in Reg \ {"eax"} : regs'[r] = was[r]]_vars

\* A trap in the kernel's own code is the end, and leaves what was saved of the
\* environment as it was.
KernelTrapsAreFatal ==
  [][cause.kind = "kernel" => pc' \in {"dispatch", "panic"} /\ env_tf' = env_tf]_vars
=============================================================================
