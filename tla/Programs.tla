------------------------------ MODULE Programs ------------------------------
(***************************************************************************)
(* The programs of user/ with the library they are linked with (libmain,   *)
(* cprintf, exit, panic), as sequences of instructions.  What a program    *)
(* computes in its registers is left out; what remains is every access to  *)
(* memory that matters, every exception and every system call.             *)
(*                                                                         *)
(* An address is counted in half pages, so that a string can start or end  *)
(* in the middle of a page.  A page holds one word all over, or zeros.     *)
(***************************************************************************)
EXTENDS Integers, SequencesExt

CONSTANTS
  Null,   \* the word zero
  At,     \* where things lie: a record of page numbers
  Say     \* the words that are told apart, by name

PageOf(a) == a \div 2

----------------------------------------------------------------------------
(* Instructions *)

Insn(op, p, q, n, w, s) == [op |-> op, p |-> p, q |-> q, n |-> n, w |-> w, s |-> s]

Load(p)           == Insn("load",   p, 0, 0, Null, "")
Expect(p, w)      == Insn("expect", p, 0, 0, w, "")      \* panic unless w is there
Store(p, w)       == Insn("store",  p, 0, 0, w, "")
Copy(p, q)        == Insn("copy",   p, q, 0, Null, "")
Save(p)           == Insn("save",   p, 0, 0, Null, "")   \* the answer of a call
SoftInt(n)        == Insn("int",    0, 0, n, Null, "")
Exception(v, err) == Insn("fault",  0, 0, v, Null, err)
Sys(no, a, len)   == Insn("sys",    a, 0, len, Null, no)

\* What an instruction reads and writes, in this order: pages, and whether it writes.
Accesses(i) ==
  CASE i.op \in {"load", "expect"} -> << <<i.p, FALSE>> >>
    [] i.op \in {"store", "save"}  -> << <<i.p, TRUE>> >>
    [] i.op = "copy"               -> << <<i.p, FALSE>>, <<i.q, TRUE>> >>
    [] OTHER                       -> <<>>

\* The pages of the string of len half pages at a.
PagesOf(a, len) ==
  IF len = 0 THEN <<>> ELSE [k \in 1 .. PageOf(a + len - 1) - PageOf(a) + 1 |-> PageOf(a) + k - 1]

\* A string as far as its first NUL.
UpToNul(s) ==
  LET t == Append(s, Null)
  IN  SubSeq(s, 1, SelectInSubSeq(t, 1, Len(t), LAMBDA w : w = Null) - 1)

----------------------------------------------------------------------------
(* lib/ *)

sys_cputs(a, len) == <<Sys("SYS_cputs", a, len)>>
sys_getenvid      == <<Sys("SYS_getenvid", 0, 0)>>
sys_cgetc         == <<Sys("SYS_cgetc", 0, 0)>>
sys_env_destroy(who) == <<Sys("SYS_env_destroy", who, 0)>>

\* The text is collected in a buffer on the stack, which it does not fill up.
cprintf(w)     == <<Store(At.stack, w)>> \o sys_cputs(2 * At.stack, 1)
cprintf_at(p)  == <<Copy(p, At.stack)>> \o sys_cputs(2 * At.stack, 1)

exit  == sys_env_destroy(0)
panic == sys_getenvid \o cprintf(Say.panic) \o <<SoftInt(3)>>

\* A program: libmain around its umain, and where its calls of panic go.
libmain(umain) == sys_getenvid \o <<Save(At.bss)>> \o umain \o exit \o panic
PanicAt(prog)  == Len(prog) - Len(panic)

----------------------------------------------------------------------------
(* user/: the umain of each program *)

hello            == cprintf(Say.hello) \o cprintf_at(At.envs)
buggyhello       == sys_cputs(2 * At.null + 1, 1)
buggyhello2      == sys_cputs(2 * At.text, 2 * (At.beyond - At.text + 1))
evilhello        == sys_cputs(2 * At.kernel + 1, 1)
faultread        == <<Load(At.null)>> \o cprintf(Say.read)
faultreadkernel  == <<Load(At.kernel)>> \o cprintf(Say.read)
faultwrite       == <<Store(At.null, Null)>>
faultwritekernel == <<Store(At.kernel, Null)>>
divzero          == <<Store(At.array, Null), Exception(0, "none")>> \o cprintf(Say.read)
softint          == <<SoftInt(14)>>
breakpoint       == <<SoftInt(3)>>
badsegment       == <<Exception(13, "0x28")>>
testbss          == cprintf(Say.making)
                      \o <<Expect(At.array, Null), Store(At.array, Say.code), Expect(At.array, Say.code)>>
                      \o cprintf(Say.yes) \o <<Store(At.beyond, Null)>> \o panic

UserPrograms ==
  [hello       |-> libmain(hello),       buggyhello       |-> libmain(buggyhello),
   buggyhello2 |-> libmain(buggyhello2), evilhello        |-> libmain(evilhello),
   faultread   |-> libmain(faultread),   faultreadkernel  |-> libmain(faultreadkernel),
   faultwrite  |-> libmain(faultwrite),  faultwritekernel |-> libmain(faultwritekernel),
   divzero     |-> libmain(divzero),     softint          |-> libmain(softint),
   breakpoint  |-> libmain(breakpoint),  badsegment       |-> libmain(badsegment),
   testbss     |-> libmain(testbss)]
=============================================================================
