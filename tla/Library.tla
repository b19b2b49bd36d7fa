------------------------------ MODULE Library ------------------------------
(***************************************************************************)
(* The algorithms of the boot loader, the kernel and its library that keep *)
(* no state of their own, tried on all small inputs: a behaviour is one    *)
(* call, and the properties say what each should return.                   *)
(***************************************************************************)
EXTENDS Bootload, Cprintf, Kdebug, Monitor, UserMem

CONSTANTS
  MemSize,       \* memmove: bytes of memory
  Numbers,       \* printnum, strtol: numbers to print and to read again
  Directives,    \* cprintf: what formats are made of (see Letters)
  Sources, Strtabs, Sought,  \* debuginfo_eip: programs, string tables, addresses
  Sizes,         \* snprintf
  Layouts,       \* bootmain: kernels, each a sequence of program headers
  Lines,         \* runcmd
  PageTables, Ask        \* user_mem_check

\* A kernel as the linker lays it out: segments in the order of their addresses,
\* of which only the last has a BSS, each at the same place of a sector in memory
\* as in the file; and a sector of memory that two share is one of the file.
Linked(ph) ==
  /\ Len(ph) > 0
  /\ \A k \in DOMAIN ph : /\ ph[k].p_filesz <= ph[k].p_memsz
                         /\ ph[k].p_pa % SECTSIZE = ph[k].p_offset % SECTSIZE
  /\ \A k, l \in DOMAIN ph : k < l =>
       /\ ph[k].p_filesz = ph[k].p_memsz
       /\ ph[k].p_pa + ph[k].p_memsz <= ph[l].p_pa
       /\ \/ ph[k].p_pa + ph[k].p_memsz <= Sector(ph[l].p_pa)
          \/ ph[l].p_pa - ph[k].p_pa = ph[l].p_offset - ph[k].p_offset

ASSUME LibraryAssumption ==
  /\ MemSize \in Nat
  /\ Layouts \subseteq Seq([p_pa : Nat, p_offset : Nat, p_filesz : Nat, p_memsz : Nat])
  /\ \A ph \in Layouts : Linked(ph)

VARIABLES
  call,     \* the function called and its arguments
  result    \* what it returned; <<>> before

vars == <<call, result>>

----------------------------------------------------------------------------
(* The format and the arguments of a sequence of directives.  A directive   *)
(* is a literal text (its conv is "text"), or a conversion: a flag, a width *)
(* and a precision (-1 for none), whether these are passed as arguments     *)
(* (star), the conversion and its argument; "z" is no conversion.           *)

Field(n, star) == IF n < 0 THEN <<>> ELSE IF star THEN <<"*">> ELSE decimal(n)

\* The letters of a conversion.
Letters(d) ==
  IF d.conv = "text" THEN d.arg ELSE
  <<"%">> \o d.flag \o Field(d.width, d.star)
          \o (IF d.prec < 0 THEN <<>> ELSE <<".">> \o Field(d.prec, d.star)) \o <<d.conv>>

Starred(n, star) == IF star /\ n >= 0 THEN <<n>> ELSE <<>>

Taken(d) == Starred(d.width, d.star) \o Starred(d.prec, d.star)
              \o (IF d.conv \in {"%", "z", "text"} THEN <<>> ELSE <<d.arg>>)

Format(ds)    == FlattenSeq([k \in DOMAIN ds |-> Letters(ds[k])])
Arguments(ds) == FlattenSeq([k \in DOMAIN ds |-> Taken(ds[k])])

\* The text that one conversion stands for.
Padded(d, text, c) ==
  IF d.flag = <<"-">> THEN text \o Pad(" ", d.width - Len(text)) ELSE Pad(c, d.width - Len(text)) \o text

Fill(d) == IF d.flag = <<"0">> THEN "0" ELSE " "

Meaning(d) ==
  CASE d.conv = "s" -> LET n == IF d.prec < 0 \/ Len(d.arg) < d.prec THEN Len(d.arg) ELSE d.prec
                       IN  Padded(d, SubSeq(d.arg, 1, n), Fill(d))
    [] d.conv = "d" -> IF d.arg < 0 THEN <<"-">> \o decimal(-d.arg) ELSE Padded(d, decimal(d.arg), Fill(d))
    [] d.conv = "c" -> <<d.arg>>
    [] d.conv = "e" -> error_string[Magnitude(d.arg)]
    [] d.conv = "%" -> <<"%">>
    [] d.conv \in {"z", "text"} -> Letters(d)

----------------------------------------------------------------------------
(* The stabs of a program.  It is the sequence of its lines in the order of *)
(* their addresses: each of some length, taken from the source file or from *)
(* one it includes, and each may be the first of a source file in C ("file")*)
(* or in assembly ("asm"), or of a function ("fun") with parameters.        *)

Top    == 1    \* where the first line lies
Starts(source, k) == FoldLeft(LAMBDA n, i : n + i.len, Top, SubSeq(source, 1, k - 1))

\* The last line up to k that begins one of these.
Begin(source, k, what) == Max({0} \cup {i \in 1 .. k : source[i].new \in what})

\* The line at an address, or 0.
LineAt(source, addr) ==
  Max({0} \cup {k \in DOMAIN source : addr \in Starts(source, k) .. Starts(source, k + 1) - 1})

InFun(source, k) == Begin(source, k, {"file", "fun"}) > Begin(source, k, {"asm"})

\* What line k names: the file, the file it includes, and its function.
Block       == <<"f", Nul, "h", Nul, "f", "n", ":", "F", Nul>>
Strx(k, what) == 1 + Len(Block) * (k - 1) + [file |-> 0, include |-> 2, fun |-> 4][what]

Stab(type, value, strx, desc) == [type |-> type, value |-> value, strx |-> strx, desc |-> desc]

FileOf(source, k) ==
  LET f == Begin(source, k, {"file", "asm"})
  IN  Strx(f, IF source[k].include THEN "include" ELSE "file")

StabsOf(source, k) ==
  LET this  == source[k]
      start == Starts(source, k)
      fun   == Begin(source, k, {"file", "fun"})
      before == IF this.new \in {"file", "asm"} THEN Strx(k, "file") ELSE FileOf(source, k - 1)
  IN  (IF this.new \in {"file", "asm"} THEN <<Stab("SO", start, Strx(k, "file"), 0)>> ELSE <<>>)
      \o (IF this.new \in {"file", "fun"}
          THEN <<Stab("FUN", start, Strx(k, "fun"), 0)>> \o [i \in 1 .. this.params |-> Stab("PSYM", 8 + i, 0, 0)]
          ELSE <<>>)
      \o (IF FileOf(source, k) # before THEN <<Stab("SOL", start, FileOf(source, k), 0)>> ELSE <<>>)
      \o <<Stab("SLINE", IF InFun(source, k) THEN start - Starts(source, fun) ELSE start, 0, k)>>

\* The linker's header comes first, an N_SO without a name last.
Table(source, strtab) ==
  LET stabs == <<Stab("HDR", 0, 0, 0)>> \o FlattenSeq([k \in DOMAIN source |-> StabsOf(source, k)])
                 \o <<Stab("SO", Starts(source, Len(source) + 1), 0, 0)>>
      names == <<Nul>> \o FlattenSeq([k \in DOMAIN source |-> Block])
  IN  [stabs   |-> [i \in 0 .. Len(stabs) - 1 |-> stabs[i + 1]],
       stabstr |-> SubSeq(names, 1, Min({strtab.size, Len(names)})),
       checks  |-> strtab.checks]

----------------------------------------------------------------------------
(* One call *)

Bytes(n) == [a \in 0 .. n - 1 |-> a]

\* A byte of memory before the boot loader has written to it.
Unread == -1

ImageBytes(ph) == ph[Len(ph)].p_pa + ph[Len(ph)].p_memsz + SECTSIZE

Moves == [fn : {"memmove"}, d : 0 .. MemSize, s : 0 .. MemSize, n : 0 .. MemSize]
Prints == [fn : {"printnum"}, num : Numbers, neg : BOOLEAN, base : {8, 10, 16},
           width : {-1, 3, 6}, padc : {" ", "0"}]
Checks == [fn : {"user_mem_check"}, table : PageTables, va : 0 .. ADDRS - 1, len : 0 .. ADDRS - 1, perm : Ask]
Lookups == [fn : {"debuginfo_eip"}, source : Sources, strtab : Strtabs, addr : Sought]

Init ==
  /\ result = <<>>
  /\ \/ \E c \in Moves : c.d + c.n <= MemSize /\ c.s + c.n <= MemSize /\ call = c
     \/ \E c \in Prints : (c.neg => c.padc = "0") /\ call = c
     \/ \E ds \in Directives : call = [fn |-> "cprintf", ds |-> ds]
     \/ \E ds \in Directives, n \in Sizes : call = [fn |-> "snprintf", ds |-> ds, n |-> n]
     \/ \E c \in Lookups : call = c
     \/ \E ph \in Layouts : call = [fn |-> "bootmain", ph |-> ph]
     \/ \E line \in Lines : call = [fn |-> "runcmd", line |-> line]
     \/ \E c \in Checks : call = c

Return(fn, r) == call.fn = fn /\ result = <<>> /\ result' = <<r>> /\ UNCHANGED call

Memmove == Return("memmove", memmove(Bytes(MemSize), call.d, call.s, call.n))

Printnum ==
  Return("printnum", strtol((IF call.neg THEN <<"-">> ELSE <<>>)
                              \o printnum(call.num, call.base, call.width, call.padc), call.base))

Cprint == Return("cprintf", cprintf(Format(call.ds), Arguments(call.ds)))

Snprint == Return("snprintf", snprintf(call.n, Format(call.ds), Arguments(call.ds)))

Lookup == Return("debuginfo_eip", debuginfo_eip(Table(call.source, call.strtab), call.addr))

\* The boot loader, and i386_init up to the clearing of the BSS, which is the end
\* of the last segment.
Boot ==
  LET ph  == call.ph
      top == ph[Len(ph)]
  IN  Return("bootmain",
             memset(bootmain([a \in 0 .. ImageBytes(ph) - 1 |-> Unread], ph),
                    top.p_pa + top.p_filesz, 0, top.p_memsz - top.p_filesz))

Runcmd == Return("runcmd", runcmd(call.line))

Check == Return("user_mem_check", user_mem_check(call.table, call.va, call.len, call.perm))

Next == Memmove \/ Printnum \/ Cprint \/ Snprint \/ Lookup \/ Boot \/ Runcmd \/ Check

Spec == Init /\ [][Next]_vars

----------------------------------------------------------------------------
(* Properties *)

Returned(fn) == call.fn = fn /\ result # <<>>

\* memmove copies as if through a temporary, however source and destination
\* overlap and whether it goes by bytes or by words.
MemmoveCopies ==
  Returned("memmove") =>
    \A a \in 0 .. MemSize - 1 :
      result[1][a] = IF a \in call.d .. call.d + call.n - 1 THEN call.s + a - call.d ELSE a

\* strtol reads what printnum has printed: the same number, to the end of the
\* text, in every base and with every padding that is white space or zeros.
NumbersReadBack ==
  Returned("printnum") =>
    LET text == (IF call.neg THEN <<"-">> ELSE <<>>) \o printnum(call.num, call.base, call.width, call.padc)
    IN  result[1] = [val |-> IF call.neg THEN -call.num ELSE call.num, end |-> Len(text) + 1]

\* cprintf's text is that of its directives one after the other, each with its
\* own flags and arguments; the buffers passed to sys_cputs are that text, all
\* but the last of them full; snprintf leaves as much of it as fits before the
\* NUL; and the count is its length, as if all had fitted.  Without room for a NUL
\* it is an error, and nothing is written.
FormatsAsAsked ==
  Returned("cprintf") \/ Returned("snprintf") =>
    LET text == FlattenSeq([k \in DOMAIN call.ds |-> Meaning(call.ds[k])])
        out  == result[1]
    IN  IF call.fn = "snprintf" /\ call.n = 0 THEN out = [buf |-> <<>>, cnt |-> -E_INVAL]
        ELSE
        /\ out.cnt = Len(text)
        /\ IF call.fn = "cprintf"
           THEN /\ FlattenSeq(out.calls) = text
                /\ \A k \in 1 .. Len(out.calls) - 1 : Len(out.calls[k]) = BUFSIZE - 1
           ELSE out.buf = SubSeq(text, 1, Min({call.n - 1, Len(text)})) \o <<Nul>>

\* debuginfo_eip finds the line that the address lies in, although line numbers
\* are searched by their offset in the function and file names backwards through
\* inlined code: its function, its file, and the function's parameters.
\* Outside of the program it finds nothing, and it looks at no table that it may
\* not read.
EveryEipFound ==
  Returned("debuginfo_eip") =>
    LET source == call.source
        table  == Table(source, call.strtab)
        k      == LineAt(source, call.addr)
        fun    == Begin(source, k, {"file", "fun"})
        known(strx) == IF strx < Len(table.stabstr) THEN strx ELSE Unknown
        r      == result[1]
    IN  IF ~Valid(table) THEN r = NoInfo(call.addr)
        ELSE IF k = 0 THEN r.ret = -1
        ELSE /\ r.ret = 0 /\ r.line = k
             /\ r.file = known(FileOf(source, k))
             /\ IF InFun(source, k)
                THEN /\ r.fn_addr = Starts(source, fun)
                     /\ r.fn_name = known(Strx(fun, "fun"))
                     /\ r.fn_namelen = IF r.fn_name = Unknown THEN 9 ELSE Len(<<"f", "n">>)
                     /\ r.narg = source[fun].params
                ELSE r.fn_name = Unknown /\ r.fn_addr = call.addr /\ r.narg = 0

\* Whether a line of one byte lies at the address, and the next line begins the
\* same as it does: a file, a function, or nothing but a line of one of these.
\* The end of the program counts as a file.
Followed(c) ==
  LET k == LineAt(c.source, c.addr)
      same(what) == /\ c.source[k].new \in what
                    /\ k = Len(c.source) \/ c.source[k + 1].new \in what
  IN  /\ c.fn = "debuginfo_eip" /\ k # 0
      /\ c.source[k].len = 1
      /\ \/ same({"file", "asm"})
         \/ k < Len(c.source) /\ (same({"file", "fun"}) \/ c.source[k + 1].new = "no")

\* That is so unless a stab of the type that is searched for lies at the address
\* and another at the next: then it may go one too far, to a line behind the one
\* that was asked for or to none, and never to one before.
EipFound ==
  \/ EveryEipFound
  \/ Followed(call) /\ result[1].line \notin 1 .. LineAt(call.source, call.addr)

\* When the kernel has cleared its BSS, every byte of every segment is what the
\* linker made it, although whole sectors are read, and the BSS is zero.
ImageLoaded ==
  Returned("bootmain") =>
    \A k \in DOMAIN call.ph :
      LET h == call.ph[k]
      IN  \A i \in 0 .. h.p_memsz - 1 :
            result[1][h.p_pa + i] = IF i < h.p_filesz THEN h.p_offset + i ELSE 0

\* A command gets the words of the line, and runs if they fit into argv with the
\* NULL after them.
ArgvIsWords ==
  Returned("runcmd") =>
    LET line   == call.line
        white(k) == k = 0 \/ line[k] \in WHITESPACE
        starts == SetToSortSeq({k \in DOMAIN line : white(k - 1) /\ ~white(k)}, <)
        words  == [k \in DOMAIN starts |->
                     SubSeq(line, starts[k], scan(line, starts[k], WHITESPACE) - 1)]
        r      == result[1]
    IN  IF Len(words) >= MAXARGS THEN r.run = "too many"
        ELSE /\ r.argv = words
             /\ r.run = "command" <=> words # <<>> /\ words[1] \in Commands

\* The bytes of the range that are out of reach, by how far from 0 they are counted.
Erroneous ==
  {a \in call.va .. call.va + call.len - 1 :
     \/ a % ADDRS >= ULIM
     \/ ~(call.perm \cup {"P"} \subseteq call.table[PageOf(a % ADDRS)])}

\* What user_mem_check accepts, the program can access.
AcceptsReachable == Returned("user_mem_check") /\ result[1].ok => Erroneous = {}

\* What it refuses has a byte out of reach, and it names the first, wherever in a
\* page the range begins.
RefusesErroneous ==
  Returned("user_mem_check") /\ ~result[1].ok =>
    Erroneous # {} /\ result[1].user_mem_check_addr = Min(Erroneous)

\* Both hold of every range with two exceptions.  One of no bytes may be refused,
\* for its start, if the page there is out of reach; and of one that ends in the
\* last page of the address space or wraps around, any byte may be accepted.
ChecksEveryByte ==
  Returned("user_mem_check") =>
    \/ AcceptsReachable /\ RefusesErroneous
    \/ /\ call.len = 0 /\ ~result[1].ok
       /\ result[1].user_mem_check_addr = call.va /\ bad(call.table, call.va, call.perm)
    \/ call.va + call.len > ADDRS - PGSIZE /\ result[1].ok
=============================================================================
