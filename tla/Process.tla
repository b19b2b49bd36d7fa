------------------------------ MODULE Process ------------------------------
(***************************************************************************)
(* What the kernel promises a program: a machine of its own.  It has       *)
(* memory, a console that it reaches only through system calls, and an end:*)
(* its own exit, the breakpoint, or being killed for the first thing it    *)
(* does that it may not do.  There are no page tables, trap frames or      *)
(* registers here.                                                         *)
(***************************************************************************)
EXTENDS Programs

CONSTANTS
  Own,     \* the program's pages
  Shown,   \* pages of the kernel that it may read: of these At.envs has words
  Hidden,  \* pages that are mapped for the kernel only
  Loaded,  \* [a subset of Own -> word]: the image; the other pages hold anything
  Words,
  Id       \* its envid_t

VARIABLES
  prog,    \* the program
  mode,    \* "boot", "user", "kernel", "gone", "monitor", "panic"
  at,      \* the next instruction, counted from 0
  ret,     \* what the last system call answered
  memory,  \* [Own -> word]
  out      \* what is on the console

vars == <<prog, mode, at, ret, memory, out>>

Init ==
  /\ mode = "boot" /\ at = 0 /\ ret = Null /\ out = <<>>
  /\ memory = [p \in Own |-> Null]

Start ==
  /\ mode = "boot" /\ mode' = "user"
  /\ memory' \in {m \in [Own -> Words \cup {Null}] : \A p \in DOMAIN Loaded : m[p] = Loaded[p]}
  /\ out' = << <<"new env", Id>> >>
  /\ UNCHANGED <<prog, at, ret>>

----------------------------------------------------------------------------
(* The program *)

This == prog[at + 1]

May(p, write) == p \in Own \cup (IF write THEN {} ELSE Shown)
WordAt(p)     == IF p \in Own THEN memory[p] ELSE Id

Forbidden == {k \in DOMAIN Accesses(This) : ~May(Accesses(This)[k][1], Accesses(This)[k][2])}
Trapping  == Forbidden # {} \/ This.op \in {"int", "fault", "sys"}

Compute ==
  LET i == This
  IN  /\ mode = "user" /\ ~Trapping
      /\ at' = IF i.op = "expect" /\ WordAt(i.p) # i.w THEN PanicAt(prog) ELSE at + 1
      /\ memory' = CASE i.op = "store" -> [memory EXCEPT ![i.p] = i.w]
                     [] i.op = "save"  -> [memory EXCEPT ![i.p] = ret]
                     [] i.op = "copy"  -> [memory EXCEPT ![i.q] = WordAt(i.p)]
                     [] OTHER          -> memory
      /\ ret' = Null
      /\ UNCHANGED <<prog, mode, out>>

Ask ==
  /\ mode = "user" /\ Trapping
  /\ mode' = "kernel" /\ ret' = Null
  /\ UNCHANGED <<prog, at, memory, out>>

----------------------------------------------------------------------------
(* The kernel *)

Answer(r, printed) ==
  /\ mode' = "user" /\ at' = at + 1 /\ ret' = r
  /\ out' = out \o printed
  /\ UNCHANGED memory

\* The end of the program, with what is said about it; its memory is gone.
Die(said) ==
  /\ mode' = "gone"
  /\ out' = out \o said \o << <<"free env", Id>> >>
  /\ memory' = [p \in Own |-> Null]
  /\ UNCHANGED <<at, ret>>

Stop(how, said) ==
  /\ mode' = how /\ out' = out \o said
  /\ UNCHANGED <<at, ret, memory>>

\* The bits of a page fault's error code: protection (1), write (2), user (4).
FaultCode(p, write) ==
  <<"pf", (IF p \in Own \cup Shown \cup Hidden THEN 1 ELSE 0) + (IF write THEN 2 ELSE 0) + 4>>

Killed ==
  /\ Forbidden # {} \/ This.op = "fault" \/ (This.op = "int" /\ This.n \notin {3, 48})
  /\ Die(IF Forbidden # {}
         THEN LET a == Accesses(This)[Min(Forbidden)]
              IN  << <<"fault va", 2 * a[1]>>, <<"TRAP", 14, FaultCode(a[1], a[2])>> >>
         ELSE IF This.op = "int" THEN << <<"TRAP", 13, <<"idt", This.n>> >> >>
         ELSE << <<"TRAP", This.n, <<IF This.s = "none" THEN "0" ELSE This.s, 0>> >> >>)

Stopped ==
  This.op = "int" /\ This.n = 3 /\ Stop("monitor", << <<"monitor">>, <<"TRAP", 3, <<"0", 0>> >> >>)

\* The pages of the string that the program asks to print, and what is in them.
Wanted == PagesOf(This.p, This.n)
Text   == [k \in DOMAIN Wanted |-> WordAt(Wanted[k])]

\* The addresses of it that the program may not read.
Bad == {a \in This.p .. This.p + This.n - 1 : ~May(PageOf(a), FALSE)}

Printed(words) == [k \in DOMAIN words |-> <<"user", words[k]>>]

\* "Print a string to the system console.  The string is exactly 'len'
\* characters long.  Destroys the environment on memory errors."
Cputs ==
  /\ This.op = "sys" /\ This.s = "SYS_cputs"
  /\ \/ Bad = {} /\ Answer(Null, Printed(Text))
     \/ Bad # {} /\ Die(<< <<"user_mem_check", Min(Bad)>> >>)

\* "-E_BAD_ENV if environment envid doesn't currently exist."  The program itself
\* is called 0 or Id.
Env_destroy ==
  /\ This.op = "sys" /\ This.s = "SYS_env_destroy"
  /\ \/ This.p \in {0, Id} /\ Die(<< <<"exiting gracefully">> >>)
     \/ This.p \notin {0, Id} /\ Answer(Say.bad_env, <<>>)

OtherCall ==
  /\ This.op = "sys"
  /\ \/ This.s = "SYS_getenvid" /\ Answer(Id, <<>>)
     \/ This.s = "SYS_cgetc" /\ \E c \in {Null, Say.char} : Answer(c, <<>>)
     \/ This.s = "NSYSCALLS" /\ Answer(Say.inval, <<>>)

Serve ==
  /\ mode = "kernel"
  /\ Killed \/ Stopped \/ (Forbidden = {} /\ (Cputs \/ Env_destroy \/ OtherCall))
  /\ UNCHANGED prog

----------------------------------------------------------------------------
(* Where the kernel does not keep a promise, and what it does instead *)

Calls(name) == This.op = "sys" /\ This.s = name

\* env_destroy of nobody: the error is lost, and the answer is 0.
Nobody == Calls("SYS_env_destroy") /\ This.p \notin {0, Id}

\* A string with a NUL in it is printed up to there.
HasNul == Calls("SYS_cputs") /\ Bad = {} /\ UpToNul(Text) # Text

\* An empty string that starts within a page is taken for one character.
EmptyInside ==
  Calls("SYS_cputs") /\ This.n = 0 /\ This.p % 2 # 0 /\ ~May(PageOf(This.p), FALSE)

\* For its NUL the kernel looks one character further: where nothing is mapped.
EndsAtHole ==
  /\ Calls("SYS_cputs") /\ Bad = {} /\ UpToNul(Text) = Text /\ ~EmptyInside
  /\ PageOf(This.p + This.n) \notin Own \cup Shown \cup Hidden

Departs == mode = "kernel" /\ (Nobody \/ HasNul \/ EmptyInside \/ EndsAtHole)

Depart ==
  /\ mode = "kernel" /\ UNCHANGED prog
  /\ \/ Nobody      /\ Answer(Null, <<>>)
     \/ HasNul      /\ Answer(Null, Printed(UpToNul(Text)))
     \/ EmptyInside /\ Die(<< <<"user_mem_check", This.p>> >>)
     \/ EndsAtHole  /\ Stop("panic", Printed(Text))

----------------------------------------------------------------------------
Monitor ==
  /\ mode = "gone" /\ mode' = "monitor"
  /\ out' = Append(out, <<"monitor">>)
  /\ UNCHANGED <<prog, at, ret, memory>>

Next == Start \/ Compute \/ Ask \/ Serve \/ Monitor

\* Every promise is kept.
Promise == Init /\ [][Next]_vars

\* Every promise is kept but in these four cases, of which each ends as it says.
Spec == Init /\ [][(Next /\ ~Departs) \/ Depart]_vars
=============================================================================
