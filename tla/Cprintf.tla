------------------------------ MODULE Cprintf ------------------------------
(***************************************************************************)
(* vprintfmt of lib/printfmt.c, and the user's cprintf of lib/printf.c     *)
(* with the buffer it collects its output in.  A character is a string of  *)
(* length one, a string a sequence of them without the NUL that ends it.   *)
(* Arguments are numbers and strings.                                      *)
(***************************************************************************)
EXTENDS Strings

CONSTANTS
  BUFSIZE,       \* 256, the size of printbuf's array
  error_string   \* [error number -> its text]

----------------------------------------------------------------------------
(* struct printbuf.  b.calls are the buffers given to sys_cputs.           *)

EmptyBuf == [buf |-> <<>>, cnt |-> 0, calls |-> <<>>]

flush(b) == [b EXCEPT !.calls = Append(@, b.buf)]

putch_kept(b, ch) ==
  LET full == [buf |-> Append(b.buf, ch), cnt |-> b.cnt + 1, calls |-> b.calls]
  IN  IF Len(full.buf) = BUFSIZE - 1 THEN flush(full) ELSE full

putch(b, ch) ==
  LET full == [buf |-> Append(b.buf, ch), cnt |-> b.cnt + 1, calls |-> b.calls]
  IN  IF Len(full.buf) = BUFSIZE - 1 THEN [flush(full) EXCEPT !.buf = <<>>] ELSE full

puts(b, text) == FoldLeft(putch, b, text)

----------------------------------------------------------------------------
(* printnum, for an argument that fits into its type *)

Pad(c, n) == [i \in 1 .. (IF n < 0 THEN 0 ELSE n) |-> c]

printnum_reversed(num, base, width, padc) ==
  LET p[n \in 0 .. num, w \in width - num .. width] ==
        <<Digit[(n % base) + 1]>> \o
          (IF n >= base THEN p[n \div base, w - 1] ELSE Pad(padc, w - 1))
  IN  p[num, width]

\* The number's digits, most significant first, after the padding.
printnum(num, base, width, padc) ==
  LET p[n \in 0 .. num, w \in width - num .. width] ==
        (IF n >= base THEN p[n \div base, w - 1] ELSE Pad(padc, w - 1))
          \o <<Digit[(n % base) + 1]>>
  IN  p[num, width]

----------------------------------------------------------------------------
(* vprintfmt.  s is its state: the next character of fmt, the % of the      *)
(* escape it is in (0 outside of one), the arguments left, the flags and    *)
(* the buffer.                                                              *)

begin_kept(s) == [s EXCEPT !.at = s.i, !.i = @ + 1]

\* A % begins an escape and resets the flags.
begin(s) == [s EXCEPT !.at = s.i, !.i = @ + 1, !.padc = " ", !.width = -1,
                      !.precision = -1, !.altflag = FALSE]

\* process_precision: a number is the width, or else the precision.
process_precision(s, n) ==
  IF s.width < 0 THEN [s EXCEPT !.width = n, !.precision = -1] ELSE [s EXCEPT !.precision = n]

Numeral == {Digit[d] : d \in 1 .. 10}

\* Where the run of digits that is at i ends.
digits_end(fmt, i) ==
  LET others == {k \in i .. Len(fmt) : fmt[k] \notin Numeral}
  IN  IF others = {} THEN Len(fmt) + 1 ELSE Min(others)

decimal(num) == printnum(num, 10, -1, " ")

Magnitude(n) == IF n < 0 THEN -n ELSE n

signed(s, n) == (IF n < 0 THEN <<"-">> ELSE <<>>) \o printnum(Magnitude(n), 10, s.width, s.padc)

error(n) == IF n \in DOMAIN error_string THEN error_string[n]
            ELSE <<"e", "r", "r", "o", "r", " ">> \o decimal(n)

\* A string, cut off at the precision and padded to the width.  With # what is
\* not printable, as "\n", shows as a question mark.
string(s, p) ==
  LET n     == strnlen(p, s.precision)
      shown == [k \in 1 .. n |-> IF s.altflag /\ p[k] = "\n" THEN "?" ELSE p[k]]
      pad   == s.width - n
  IN  IF s.padc = "-" THEN shown \o Pad(" ", pad) ELSE Pad(s.padc, pad) \o shown

\* The text of the conversion c of the argument a.
converted(s, c, a) ==
  CASE c = "c" -> <<a>>
    [] c = "e" -> error(Magnitude(a))
    [] c = "s" -> string(s, IF a = Nul THEN <<"(", "n", "u", "l", "l", ")">> ELSE a)
    [] c = "d" -> signed(s, a)
    [] c = "u" -> printnum(a, 10, s.width, s.padc)
    [] c = "p" -> <<"0", "x">> \o printnum(a, 16, s.width, s.padc)
    [] c = "x" -> printnum(a, 16, s.width, s.padc)
    [] c = "o" -> <<"X", "X", "X">>
    [] c = "%" -> <<"%">>

\* One more step, at the character c: a character outside of escapes, a flag, a
\* conversion, or the end of an escape that is none, which is then printed
\* literally.  %o and %% take no argument.
step(fmt, s, c) ==
  CASE s.at = 0 /\ c = "%" -> begin(s)
    [] s.at = 0 /\ c # "%" -> [s EXCEPT !.i = @ + 1, !.b = putch(@, c)]
    [] s.at # 0 /\ c \in {"-", "0"} -> [s EXCEPT !.i = @ + 1, !.padc = c]
    [] s.at # 0 /\ c \in Numeral \ {"0"} ->
         LET end == digits_end(fmt, s.i)
         IN  [process_precision(s, FoldLeft(LAMBDA n, d : n * 10 + Value(d), 0, SubSeq(fmt, s.i, end - 1)))
               EXCEPT !.i = end]
    [] s.at # 0 /\ c = "*" ->
         [process_precision(s, Head(s.args)) EXCEPT !.i = @ + 1, !.args = Tail(@)]
    [] s.at # 0 /\ c = "." -> [s EXCEPT !.i = @ + 1, !.width = Max({@, 0})]
    [] s.at # 0 /\ c = "#" -> [s EXCEPT !.i = @ + 1, !.altflag = TRUE]
    [] s.at # 0 /\ c = "l" -> [s EXCEPT !.i = @ + 1]
    [] s.at # 0 /\ c \in {"c", "e", "s", "d", "u", "p", "x"} ->
         [s EXCEPT !.i = @ + 1, !.at = 0, !.args = Tail(@),
                   !.b = puts(@, converted(s, c, Head(s.args)))]
    [] s.at # 0 /\ c \in {"o", "%"} ->
         [s EXCEPT !.i = @ + 1, !.at = 0, !.b = puts(@, converted(s, c, Nul))]
    [] OTHER -> [s EXCEPT !.i = s.at + 1, !.at = 0, !.b = putch(@, "%")]

\* Every character is passed at most twice.
vprintfmt(b, fmt, args) ==
  LET char(i)   == IF i > Len(fmt) THEN Nul ELSE fmt[i]
      last      == 2 * Len(fmt) + 1
      after[k \in 0 .. last] ==
        IF k = 0 THEN [i |-> 1, at |-> 0, args |-> args, padc |-> " ", width |-> -1,
                       precision |-> -1, altflag |-> FALSE, b |-> b]
        ELSE LET before == after[k - 1]
             IN  IF before.at = 0 /\ before.i > Len(fmt) THEN before
                 ELSE step(fmt, before, char(before.i))
  IN  after[last].b

----------------------------------------------------------------------------
(* What becomes of vprintfmt's text *)

\* The user's cprintf: what it gives to sys_cputs, and the count it returns.
cprintf(fmt, args) == flush(vprintfmt(EmptyBuf, fmt, args))

sprintputch_full(b, ch) ==
  [buf |-> IF Len(b.buf) < b.size THEN Append(b.buf, ch) ELSE b.buf, cnt |-> b.cnt + 1, size |-> b.size]

\* struct sprintbuf: room is left for the NUL, and what does not fit is counted.
sprintputch(b, ch) ==
  [buf |-> IF Len(b.buf) < b.size - 1 THEN Append(b.buf, ch) ELSE b.buf, cnt |-> b.cnt + 1, size |-> b.size]

E_INVAL == 3

\* snprintf with a buffer of n characters, or none (n = 0): these, with the NUL,
\* and the count.
snprintf(n, fmt, args) ==
  LET end == FoldLeft(sprintputch, [buf |-> <<>>, cnt |-> 0, size |-> n],
                      FlattenSeq(cprintf(fmt, args).calls))
  IN  IF n < 1 THEN [buf |-> <<>>, cnt |-> -E_INVAL]
      ELSE [buf |-> Append(end.buf, Nul), cnt |-> end.cnt]
=============================================================================
