------------------------------ MODULE Strings ------------------------------
(***************************************************************************)
(* memmove, memset, strnlen, strfind and strtol of lib/string.c.           *)
(* m is memory, a function from addresses to bytes; a string argument that *)
(* is only read is the sequence of its characters, without the NUL.        *)
(***************************************************************************)
EXTENDS Integers, SequencesExt

CONSTANT WORD    \* the bytes of a 32-bit word

ASSUME StringsAssumption == WORD \in Nat \ {0}

Nul == "nul"

\* rep movs: n units of w bytes, from the last one down when DF is set.
rep_movs(m, d, s, n, w, down) ==
  LET after[k \in 0 .. n] ==
        IF k = 0 THEN m
        ELSE LET before == after[k - 1]
                 unit   == w * (IF down THEN n - k ELSE k - 1)
             IN  [a \in DOMAIN m |-> IF a \in d + unit .. d + unit + w - 1
                                     THEN before[a - d + s] ELSE before[a]]
  IN  after[n]

move(m, d, s, n, down) ==
  LET w == IF s % WORD = 0 /\ d % WORD = 0 /\ n % WORD = 0 THEN WORD ELSE 1
  IN  rep_movs(m, d, s, n \div w, w, down)

memmove_up(m, d, s, n) == move(m, d, s, n, FALSE)

\* memmove, which memcpy calls.
memmove(m, d, s, n) == move(m, d, s, n, s < d /\ s + n > d)

\* memset: words of four equal bytes, or bytes.
memset(m, v, c, n) == [a \in DOMAIN m |-> IF a \in v .. v + n - 1 THEN c ELSE m[a]]

\* strnlen of a string; a negative size is a very large one.
strnlen(s, size) == IF size < 0 \/ Len(s) < size THEN Len(s) ELSE size

\* Where the string at i of the text ends, or has its first c.
strfind(text, i, c) == Min({j \in i .. Len(text) : text[j] \in {c, Nul}})

----------------------------------------------------------------------------
(* strtol *)

Digit == <<"0", "1", "2", "3", "4", "5", "6", "7", "8", "9", "a", "b", "c", "d", "e", "f">>

\* The value of a digit; letters are lower case, as printnum writes them.
Value(c) == IF c \in Range(Digit) THEN SelectInSeq(Digit, LAMBDA x : x = c) - 1 ELSE 99

\* Whether s has t at the position i.
At(s, i, t) == i + Len(t) - 1 <= Len(s) /\ SubSeq(s, i, i + Len(t) - 1) = t

\* Where the base's prefix ends, and the base.
prefix(s, i, base) ==
  IF base \in {0, 16} /\ At(s, i, <<"0", "x">>) THEN [i |-> i + 2, base |-> 16]
  ELSE IF base = 0 /\ At(s, i, <<"0">>) THEN [i |-> i + 1, base |-> 8]
  ELSE [i |-> i, base |-> IF base = 0 THEN 10 ELSE base]

\* The value, and the position of *endptr.
strtol(s, base) ==
  LET blank == SelectInSeq(s, LAMBDA c : c \notin {" ", "\t"})
      start == IF blank = 0 THEN Len(s) + 1 ELSE blank
      sign  == At(s, start, <<"+">>) \/ At(s, start, <<"-">>)
      p     == prefix(s, IF sign THEN start + 1 ELSE start, base)
      after[k \in p.i - 1 .. Len(s)] ==
        IF k = p.i - 1 THEN [val |-> 0, i |-> p.i]
        ELSE LET before == after[k - 1]
             IN  IF before.i = k /\ Value(s[k]) < p.base
                 THEN [val |-> before.val * p.base + Value(s[k]), i |-> k + 1]
                 ELSE before
      end   == after[Len(s)]
  IN  [val |-> IF At(s, start, <<"-">>) THEN - end.val ELSE end.val, end |-> end.i]
=============================================================================
