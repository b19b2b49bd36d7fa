------------------------------ MODULE Monitor ------------------------------
(***************************************************************************)
(* runcmd of kern/monitor.c: a line, which is a sequence of characters,    *)
(* cut in place into arguments.  argv holds positions of the line.         *)
(***************************************************************************)
EXTENDS Integers, Sequences, FiniteSetsExt

CONSTANTS
  MAXARGS,    \* the places of argv, the last of which is for the NULL
  Commands    \* the names of the commands

WHITESPACE == {"\t", "\r", "\n", " "}
NUL == "nul"

\* The first position from i on whose character is in S, or the line's end.
scan(line, i, S) == Min({Len(line) + 1} \cup {k \in i .. Len(line) : line[k] \in S})

Graphic(line) == {line[k] : k \in DOMAIN line} \ WHITESPACE

\* The loop: white space is overwritten by NULs up to the next argument, which
\* is then saved, if argv has less than places of them, and passed.
next_argument(s, places) ==
  LET start == scan(s.line, s.i, Graphic(s.line) \ {NUL})
      line  == [k \in DOMAIN s.line |-> IF k \in s.i .. start - 1 THEN NUL ELSE s.line[k]]
  IN  IF start > Len(line) THEN [s EXCEPT !.line = line, !.i = start, !.end = "parsed"]
      ELSE IF Len(s.argv) = places THEN [s EXCEPT !.line = line, !.end = "too many"]
      ELSE [s EXCEPT !.line = line, !.argv = Append(@, start), !.i = scan(line, start, WHITESPACE)]

cut_one_more(s) == next_argument(s, MAXARGS)

\* The last place is left for the NULL.
cut(s) == next_argument(s, MAXARGS - 1)

\* The argument at i, as a function that is called with it finds it.
argument(line, i) == SubSeq(line, i, scan(line, i, {NUL}) - 1)

\* What is called, and with which arguments.
runcmd(line) ==
  LET after[k \in 0 .. Len(line) + 1] ==
        IF k = 0 THEN [line |-> line, i |-> 1, argv |-> <<>>, end |-> ""]
        ELSE LET before == after[k - 1] IN IF before.end # "" THEN before ELSE cut(before)
      s    == after[Len(line) + 1]
      argv == [k \in DOMAIN s.argv |-> argument(s.line, s.argv[k])]
  IN  [run  |-> IF s.end = "too many" \/ argv = <<>> THEN s.end
                ELSE IF argv[1] \in Commands THEN "command" ELSE "unknown",
       argv |-> argv]
=============================================================================
