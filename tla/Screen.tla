------------------------------- MODULE Screen -------------------------------
(***************************************************************************)
(* The text screen of kern/console.c under readline of lib/readline.c: the *)
(* line being edited and its echo.  Between two lines the kernel prints    *)
(* what it likes.  A cell of the screen holds a character; attributes and  *)
(* the copy on the serial and parallel ports are left out.                 *)
(***************************************************************************)
EXTENDS Naturals, Sequences

CONSTANTS
  CRT_ROWS, CRT_COLS,
  TabWidth,    \* 5 in cga_putc
  BUFLEN,
  Glyph,       \* the characters from ' ' up, readline's 0x7f among them
  Prompt       \* what readline prints first

CRT_SIZE == CRT_ROWS * CRT_COLS

Blank == " "
DEL   == "\\x7f"

Control == {"\\b", "\\n", "\\r", "\\t"}

\* A prompt and a whole line fit above the row that a scroll blanks.
ASSUME ScreenAssumption ==
  /\ CRT_ROWS \in Nat \ {0} /\ CRT_COLS \in Nat \ {0} /\ TabWidth \in Nat /\ BUFLEN \in Nat \ {0}
  /\ {Blank, DEL} \subseteq Glyph /\ Glyph \cap Control = {}
  /\ Prompt \in Seq(Glyph)
  /\ Len(Prompt) + BUFLEN - 1 <= CRT_SIZE - CRT_COLS

VARIABLES
  crt_buf, crt_pos,
  buf,       \* readline's buf[0 .. i-1]
  reading    \* is readline waiting for a character

vars == <<crt_buf, crt_pos, buf, reading>>

Cell == 0 .. CRT_SIZE - 1

\* The boot loader's messages are on the screen; a few are enough.
Init == /\ crt_buf = [k \in Cell |-> Blank]
        /\ crt_pos \in Cell        \* read back from the display's registers
        /\ buf = <<>> /\ reading = FALSE

----------------------------------------------------------------------------
(* cga_putc *)

\* s = [buf, pos]: the screen.  Past its end, all rows move up by one.
scroll_late(s) ==
  IF s.pos <= CRT_SIZE THEN s
  ELSE [buf |-> [k \in Cell |-> IF k < CRT_SIZE - CRT_COLS THEN s.buf[k + CRT_COLS] ELSE Blank],
        pos |-> s.pos - CRT_COLS]

scroll(s) ==
  IF s.pos < CRT_SIZE THEN s
  ELSE [buf |-> [k \in Cell |-> IF k < CRT_SIZE - CRT_COLS THEN s.buf[k + CRT_COLS] ELSE Blank],
        pos |-> s.pos - CRT_COLS]

put(s, c) == scroll([buf |-> [s.buf EXCEPT ![s.pos] = c], pos |-> s.pos + 1])

line_start(p) == p - (p % CRT_COLS)

backspace(s) == IF s.pos = 0 THEN s
                ELSE [buf |-> [s.buf EXCEPT ![s.pos - 1] = Blank], pos |-> s.pos - 1]

tab(s) == LET t[n \in 0 .. TabWidth] == IF n = 0 THEN s ELSE put(t[n - 1], Blank)
          IN  t[TabWidth]

cga_putc(s, c) ==
  CASE c = "\\b" -> backspace(s)
    [] c = "\\n" -> scroll([s EXCEPT !.pos = line_start(@ + CRT_COLS)])
    [] c = "\\r" -> [s EXCEPT !.pos = line_start(@)]
    [] c = "\\t" -> tab(s)
    [] c \in Glyph -> put(s, c)

Now == [buf |-> crt_buf, pos |-> crt_pos]

Show(s) == crt_buf' = s.buf /\ crt_pos' = s.pos

----------------------------------------------------------------------------
(* The kernel's output between two lines, and readline *)

Output(c) ==
  /\ ~reading
  /\ Show(cga_putc(Now, c))
  /\ UNCHANGED <<buf, reading>>

Readline ==
  /\ ~reading
  /\ LET p[n \in 0 .. Len(Prompt)] == IF n = 0 THEN Now ELSE cga_putc(p[n - 1], Prompt[n])
     IN  Show(p[Len(Prompt)])
  /\ buf' = <<>>
  /\ reading' = TRUE

echo(c) == Show(cga_putc(Now, c))

Rubout(c) ==
  /\ reading /\ c \in {"\\b", DEL} /\ buf # <<>>
  /\ echo("\\b")
  /\ buf' = SubSeq(buf, 1, Len(buf) - 1)
  /\ UNCHANGED reading

Store_full(c) ==
  /\ reading /\ c \in Glyph /\ (c = DEL => buf = <<>>)
  /\ echo(c)
  /\ buf' = IF Len(buf) < BUFLEN - 1 THEN Append(buf, c) ELSE buf
  /\ UNCHANGED reading

\* A DEL on an empty line goes into the line, as what is above ' ' does.
Store(c) ==
  /\ reading /\ c \in Glyph /\ (c = DEL => buf = <<>>)
  /\ Len(buf) < BUFLEN - 1
  /\ echo(c)
  /\ buf' = Append(buf, c)
  /\ UNCHANGED reading

Return(c) ==
  /\ reading /\ c \in {"\\n", "\\r"}
  /\ echo("\\n")
  /\ reading' = FALSE
  /\ UNCHANGED buf

Next == \/ \E c \in Glyph \cup Control : Output(c) \/ Rubout(c) \/ Store(c) \/ Return(c)
        \/ Readline

Spec == Init /\ [][Next]_vars

----------------------------------------------------------------------------
(* Properties *)

TypeOK == /\ crt_buf \in [Cell -> Glyph] /\ crt_pos \in Cell
          /\ buf \in Seq(Glyph) /\ reading \in BOOLEAN

\* While a line is edited the screen shows, right before the cursor, the prompt
\* and then the line as readline has it, wherever the line began, over the
\* edge of a row and after any number of scrolls and corrections.
EchoShowsLine ==
  reading => LET shown == Prompt \o buf
             IN  /\ crt_pos >= Len(shown)
                 /\ \A k \in 1 .. Len(shown) : crt_buf[crt_pos - Len(shown) + k - 1] = shown[k]
=============================================================================
