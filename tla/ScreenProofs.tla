---------------------------- MODULE ScreenProofs ----------------------------
(***************************************************************************)
(* Proofs about the text screen, for any number of rows and columns, any   *)
(* prompt and any length of line: while readline edits a line, the screen  *)
(* shows it, through every wrap, scroll and correction.                    *)
(***************************************************************************)
EXTENDS Screen, SequenceTheorems, WellFoundedInduction, NaturalsInduction, TLAPS

USE ScreenAssumption

----------------------------------------------------------------------------
(* The size of the screen *)

\* A screen, and that it shows t right before the cursor.
Scr         == [buf : [Cell -> Glyph], pos : Cell]
At(b, p)    == [buf |-> b, pos |-> p]
Shows(s, t) == /\ s.pos >= Len(t)
               /\ \A k \in 1 .. Len(t) : s.buf[s.pos - Len(t) + k - 1] = t[k]

\* There is a row to scroll.
LEMMA Sizes ==
  CRT_SIZE \in Nat /\ CRT_COLS \in Nat /\ CRT_COLS > 0 /\ CRT_COLS <= CRT_SIZE
<1>1. PICK r, c : r = CRT_ROWS /\ c = CRT_COLS
  OBVIOUS
<1>2. r \in Nat /\ c \in Nat /\ r >= 1 /\ c >= 1
  BY <1>1
<1>3. r * c \in Nat /\ r * c >= c
  BY <1>2
<1> QED
  BY <1>1, <1>2, <1>3 DEF CRT_SIZE

\* Where the row of p begins.
LEMMA LineStart ==
  ASSUME NEW p \in Nat, NEW n \in Nat, p < n * CRT_COLS
  PROVE  /\ line_start(p) \in 0 .. p
         /\ line_start(p + CRT_COLS) \in 0 .. n * CRT_COLS
<1>1. PICK c : c = CRT_COLS
  OBVIOUS
<1>2. c \in Nat /\ c >= 1
  BY <1>1
<1>3. PICK q, r : q = p \div c /\ r = p % c
  OBVIOUS
<1>4. q \in Nat /\ r \in 0 .. c - 1 /\ p = c * q + r
  BY <1>2, <1>3
<1>5. line_start(p) = p - r
  BY <1>1, <1>3 DEF line_start
<1>6. (p + c) % c = r
  <2>1. PICK q2, r2 : q2 = (p + c) \div c /\ r2 = (p + c) % c
    OBVIOUS
  <2>2. q2 \in Nat /\ r2 \in 0 .. c - 1 /\ p + c = c * q2 + r2
    BY <1>2, <2>1
  <2>3. c * (q2 - q - 1) = r - r2
    BY <1>2, <1>4, <2>2
  <2>4. PICK z : z = q2 - q - 1
    OBVIOUS
  <2>5. z \in Int /\ c * z = r - r2 /\ r - r2 < c /\ r - r2 > -c
    BY <1>2, <1>4, <2>2, <2>3, <2>4
  <2>6. z = 0
    BY <1>2, <2>5
  <2>7. c * z = 0
    BY <1>2, <2>6
  <2>8. r2 = r
    BY <1>4, <2>2, <2>5, <2>7
  <2> QED BY <2>1, <2>8
<1>7. line_start(p + c) = c * (q + 1)
  <2>1. line_start(p + c) = p + c - r
    BY <1>1, <1>6 DEF line_start
  <2> QED BY <1>2, <1>4, <2>1
<1>8. q + 1 <= n
  <2>1. ~ (q >= n)
    <3>1. q >= n => c * q >= c * n
      BY <1>2, <1>4
    <3>2. c * n = n * c
      BY <1>2
    <3> QED BY <1>1, <1>2, <1>4, <3>1, <3>2
  <2> QED BY <1>4, <2>1
<1>9. c * (q + 1) <= n * c /\ c * (q + 1) \in Nat
  <2>1. PICK x \in Nat : x = q + 1 /\ x <= n
    BY <1>4, <1>8
  <2>2. c * x <= n * c /\ c * x \in Nat
    BY <1>2, <2>1
  <2> QED BY <2>1, <2>2
<1>10. n * c \in Nat
  BY <1>2
<1> QED
  BY <1>1, <1>4, <1>5, <1>7, <1>9, <1>10

----------------------------------------------------------------------------
(* cga_putc *)

\* What scroll leaves: the same, or everything a row higher.
LEMMA ScrollIs ==
  ASSUME NEW b \in [Cell -> Glyph], NEW p \in 0 .. CRT_SIZE
  PROVE  /\ scroll(At(b, p)) \in Scr
         /\ p < CRT_SIZE => scroll(At(b, p)) = At(b, p)
         /\ p = CRT_SIZE =>
              /\ scroll(At(b, p)).pos = p - CRT_COLS
              /\ \A k \in 0 .. CRT_SIZE - CRT_COLS - 1 : scroll(At(b, p)).buf[k] = b[k + CRT_COLS]
<1>1. CASE p < CRT_SIZE
  <2>1. scroll(At(b, p)) = At(b, p)
    BY <1>1 DEF scroll, At
  <2>2. p \in Cell
    BY <1>1, Sizes DEF Cell
  <2> QED BY <1>1, <2>1, <2>2 DEF Scr, At
<1>2. CASE p = CRT_SIZE
  <2>1. PICK u : u = [k \in Cell |-> IF k < CRT_SIZE - CRT_COLS THEN b[k + CRT_COLS] ELSE Blank]
    OBVIOUS
  <2>2. scroll(At(b, p)) = At(u, p - CRT_COLS)
    BY <1>2, <2>1, Sizes DEF scroll, At
  <2>3. u \in [Cell -> Glyph]
    <3>1. \A k \in Cell : k < CRT_SIZE - CRT_COLS => k + CRT_COLS \in Cell
      BY Sizes DEF Cell
    <3>2. Blank \in Glyph
      OBVIOUS
    <3> QED BY <2>1, <3>1, <3>2
  <2>4. p - CRT_COLS \in Cell
    BY <1>2, Sizes DEF Cell
  <2>5. \A k \in 0 .. CRT_SIZE - CRT_COLS - 1 : u[k] = b[k + CRT_COLS]
    BY <2>1, Sizes DEF Cell
  <2> QED BY <1>2, <2>2, <2>3, <2>4, <2>5 DEF Scr, At
<1> QED
  BY <1>1, <1>2, Sizes

\* The characters that move the cursor are not among those that are shown.
LEMMA Controls ==
  {"\\b", "\\n", "\\r", "\\t"} \cap Glyph = {}
BY DEF Control

\* Characters from ' ' up are just put.
LEMMA Glyphs ==
  ASSUME NEW s, NEW c \in Glyph
  PROVE  cga_putc(s, c) = put(s, c)
<1>1. c \notin Control
  OBVIOUS
<1>2. c # "\\b" /\ c # "\\n" /\ c # "\\r" /\ c # "\\t"
  BY <1>1 DEF Control
<1> QED
  BY <1>2 DEF cga_putc

\* A character more is shown behind what was shown, as long as it all fits
\* above the row that a scroll blanks.
LEMMA PutShows ==
  ASSUME NEW s \in Scr, NEW c \in Glyph
  PROVE  /\ put(s, c) \in Scr
         /\ \A t \in Seq(Glyph) :
              Shows(s, t) /\ Len(t) < CRT_SIZE - CRT_COLS => Shows(put(s, c), Append(t, c))
<1>1. PICK b, p : b = [s.buf EXCEPT ![s.pos] = c] /\ p = s.pos + 1
  OBVIOUS
<1>2. /\ b \in [Cell -> Glyph] /\ p \in 0 .. CRT_SIZE /\ s.pos \in Cell /\ s.pos \in Nat
      /\ b[s.pos] = c /\ \A k \in Cell : k # s.pos => b[k] = s.buf[k]
  BY <1>1, Sizes DEF Scr, Cell
<1>3. put(s, c) = scroll(At(b, p))
  BY <1>1 DEF put, At
<1>4. ASSUME NEW t \in Seq(Glyph), Shows(s, t), Len(t) < CRT_SIZE - CRT_COLS
      PROVE  Shows(put(s, c), Append(t, c))
  <2>1. PICK n \in Nat : n = Len(t) /\ n < CRT_SIZE - CRT_COLS
    BY <1>4
  <2>2. /\ Len(Append(t, c)) = n + 1 /\ Append(t, c)[n + 1] = c
        /\ \A k \in 1 .. n : Append(t, c)[k] = t[k]
    BY <2>1
  <2>3. s.pos >= n /\ \A k \in 1 .. n : s.buf[s.pos - n + k - 1] = t[k]
    BY <1>4, <2>1 DEF Shows
  <2>4. \A k \in 1 .. n + 1 : b[p - (n + 1) + k - 1] = Append(t, c)[k]
    <3> SUFFICES ASSUME NEW k \in 1 .. n + 1
                 PROVE  b[p - (n + 1) + k - 1] = Append(t, c)[k]
      OBVIOUS
    <3>1. p - (n + 1) + k - 1 = s.pos - n + k - 1
      BY SMTT(30), <1>1, <1>2, <2>1
    <3>2. CASE k = n + 1
      <4>1. s.pos - n + k - 1 = s.pos
        BY <1>2, <2>1, <3>2
      <4> QED BY <1>2, <2>2, <3>1, <3>2, <4>1
    <3>3. CASE k # n + 1
      <4>1. k \in 1 .. n
        BY <2>1, <3>3
      <4>2. s.pos - n + k - 1 \in Cell /\ s.pos - n + k - 1 # s.pos
        BY <1>2, <2>1, <2>3, <4>1, Sizes DEF Cell
      <4> QED BY <1>2, <2>2, <2>3, <3>1, <4>1, <4>2
    <3> QED BY <3>2, <3>3
  <2>5. CASE p < CRT_SIZE
    <3>1. put(s, c).pos = p /\ put(s, c).buf = b
      BY <1>2, <1>3, <2>5, ScrollIs DEF At
    <3>2. p >= n + 1
      BY <1>1, <1>2, <2>1, <2>3
    <3> QED BY <2>2, <2>4, <3>1, <3>2 DEF Shows
  <2>6. CASE p = CRT_SIZE
    <3>1. PICK u, q : u = put(s, c).buf /\ q = put(s, c).pos
      OBVIOUS
    <3>2. q = p - CRT_COLS /\ \A k \in 0 .. CRT_SIZE - CRT_COLS - 1 : u[k] = b[k + CRT_COLS]
      BY <1>2, <1>3, <2>6, <3>1, ScrollIs
    <3>3. q >= n + 1
      BY <2>1, <2>6, <3>2, Sizes
    <3>4. ASSUME NEW k \in 1 .. n + 1 PROVE u[q - (n + 1) + k - 1] = Append(t, c)[k]
      <4>1. PICK x : x = q - (n + 1) + k - 1
        OBVIOUS
      <4>2. x \in 0 .. CRT_SIZE - CRT_COLS - 1 /\ x + CRT_COLS = p - (n + 1) + k - 1
        BY <2>1, <2>6, <3>2, <3>3, <4>1, Sizes
      <4> QED BY <2>4, <3>2, <4>1, <4>2
    <3> QED BY <2>2, <3>1, <3>3, <3>4 DEF Shows
  <2> QED BY <1>2, <2>5, <2>6, Sizes
<1> QED
  BY <1>2, <1>3, <1>4, ScrollIs

\* A character less.
LEMMA BackShows ==
  ASSUME NEW s \in Scr
  PROVE  /\ backspace(s) \in Scr
         /\ \A t \in Seq(Glyph), u \in Seq(Glyph) :
              /\ Shows(s, t) /\ Len(t) = Len(u) + 1
              /\ \A k \in 1 .. Len(u) : u[k] = t[k]
              => Shows(backspace(s), u)
<1>1. CASE s.pos = 0
  <2>1. backspace(s) = s
    BY <1>1 DEF backspace
  <2>2. \A t \in Seq(Glyph), u \in Seq(Glyph) : Len(t) = Len(u) + 1 => ~ (s.pos >= Len(t))
    BY <1>1
  <2> QED BY <2>1, <2>2 DEF Shows
<1>2. CASE s.pos # 0
  <2>1. PICK b, p : b = [s.buf EXCEPT ![s.pos - 1] = Blank] /\ p = s.pos - 1
    OBVIOUS
  <2>2. backspace(s) = At(b, p)
    BY <1>2, <2>1 DEF backspace, At
  <2>3. /\ p \in Cell /\ p \in Nat /\ p + 1 = s.pos /\ s.pos \in Cell
        /\ s.buf \in [Cell -> Glyph] /\ Blank \in Glyph
    BY <1>2, <2>1, Sizes DEF Scr, Cell
  <2>4. b \in [Cell -> Glyph] /\ \A k \in Cell : k # p => b[k] = s.buf[k]
    BY <2>1, <2>3
  <2>5. ASSUME NEW t \in Seq(Glyph), NEW u \in Seq(Glyph),
               Shows(s, t), Len(t) = Len(u) + 1, \A k \in 1 .. Len(u) : u[k] = t[k]
        PROVE  Shows(At(b, p), u)
    <3>1. PICK n \in Nat : n = Len(u)
      BY <2>5
    <3>2. s.pos >= n + 1 /\ \A k \in 1 .. n + 1 : s.buf[s.pos - (n + 1) + k - 1] = t[k]
      BY <2>5, <3>1 DEF Shows
    <3>3. ASSUME NEW k \in 1 .. n PROVE b[p - n + k - 1] = u[k]
      <4>1. k \in 1 .. n + 1 /\ p - n + k - 1 = s.pos - (n + 1) + k - 1
        BY <2>3, <3>1
      <4>2. p - n + k - 1 \in Cell /\ p - n + k - 1 # p
        BY <2>3, <3>1, <3>2, Sizes DEF Cell
      <4> QED BY <2>4, <2>5, <3>1, <3>2, <4>1, <4>2
    <3>4. p >= n
      BY <2>3, <3>1, <3>2
    <3>5. At(b, p).pos = p /\ At(b, p).buf = b
      BY DEF At
    <3> QED BY <3>1, <3>3, <3>4, <3>5 DEF Shows
  <2>6. At(b, p) \in Scr
    BY <2>3, <2>4 DEF Scr, At
  <2> QED BY <2>2, <2>5, <2>6
<1> QED
  BY <1>1, <1>2

----------------------------------------------------------------------------
(* Several characters in a row *)

\* f[n] is the screen s after the first n characters of q.
Run(f, s, q) ==
  /\ f \in [0 .. Len(q) -> Scr] /\ f[0] = s
  /\ \A n \in 1 .. Len(q) : f[n] = put(f[n - 1], q[n])

Extended(f, n, x) == [k \in 0 .. n |-> IF k = n THEN x ELSE f[k]]

\* A set of numbers that is not empty has a least one.
LEMMA LeastExists ==
  ASSUME NEW S \in SUBSET Nat, S # {}
  PROVE  \E x \in S : \A y \in S : x <= y
<1>1. IsWellFoundedOn(OpToRel(<, Nat), Nat)
  BY NatLessThanWellFounded
<1>2. PICK R : R = OpToRel(<, Nat)
  OBVIOUS
<1>3. PICK x \in S : \A y \in S : ~ (<<y, x>> \in R)
  BY <1>1, <1>2, WFMin
<1>4. ASSUME NEW y \in S, ~ (x <= y) PROVE FALSE
  <2>1. <<y, x>> \in R
    BY <1>2, <1>4 DEF OpToRel
  <2> QED BY <1>3, <2>1
<1> QED
  BY <1>3, <1>4

\* There is such an f.
LEMMA RunExists ==
  ASSUME NEW s \in Scr, NEW q \in Seq(Glyph)
  PROVE  \E f : Run(f, s, q)
<1> DEFINE Upto(f, n) == /\ f \in [0 .. n -> Scr] /\ f[0] = s
                         /\ \A k \in 1 .. n : f[k] = put(f[k - 1], q[k])
           Bad == {n \in 0 .. Len(q) : ~ \E f : Upto(f, n)}
<1>1. Len(q) \in Nat /\ \A k \in 1 .. Len(q) : q[k] \in Glyph
  OBVIOUS
<1>2. Bad = {}
  <2> SUFFICES ASSUME Bad # {} PROVE FALSE
    OBVIOUS
  <2>1. PICK n \in Bad : \A y \in Bad : n <= y
    <3>1. Bad \in SUBSET Nat
      BY <1>1
    <3> HIDE DEF Bad
    <3> QED BY <3>1, LeastExists
  <2>2. n \in 0 .. Len(q)
    OBVIOUS
  <2>3. CASE n = 0
    <3>1. Upto([k \in 0 .. 0 |-> s], 0)
      OBVIOUS
    <3> QED BY <2>3, <3>1
  <2>4. CASE n # 0
    <3>1. n - 1 \in 0 .. Len(q) /\ n - 1 \notin Bad /\ n \in 1 .. Len(q)
      <4>1. n \in Nat /\ n - 1 \in 0 .. Len(q) /\ n \in 1 .. Len(q) /\ ~ (n <= n - 1)
        BY <1>1, <2>2, <2>4
      <4> HIDE DEF Bad
      <4> QED BY <2>1, <4>1
    <3>2. PICK f : Upto(f, n - 1)
      BY <3>1
    <3>3. PICK x : x = put(f[n - 1], q[n])
      OBVIOUS
    <3>4. f[n - 1] \in Scr /\ x \in Scr
      BY <1>1, <3>1, <3>2, <3>3, PutShows
    <3>5. PICK g : g = Extended(f, n, x)
      OBVIOUS
    <3>6. g \in [0 .. n -> Scr] /\ g[n] = x /\ \A k \in 0 .. n - 1 : g[k] = f[k]
      BY <3>1, <3>2, <3>4, <3>5 DEF Extended
    <3>7. g[0] = s
      BY <3>1, <3>2, <3>6
    <3>8. ASSUME NEW k \in 1 .. n PROVE g[k] = put(g[k - 1], q[k])
      <4>1. k - 1 \in 0 .. n - 1 /\ g[k - 1] = f[k - 1]
        BY <3>1, <3>6
      <4>2. CASE k = n
        BY <3>3, <3>6, <4>1, <4>2
      <4>3. CASE k # n
        <5>1. k \in 1 .. n - 1 /\ k \in 0 .. n - 1
          BY <3>1, <4>3
        <5> QED BY <3>2, <3>6, <4>1, <5>1
      <4> QED BY <4>2, <4>3
    <3>9. Upto(g, n)
      BY <3>6, <3>7, <3>8
    <3> QED BY <3>9
  <2> QED BY <2>3, <2>4
<1>3. Len(q) \notin Bad
  BY <1>2
<1>4. PICK f : Upto(f, Len(q))
  BY <1>1, <1>3
<1> QED
  BY <1>4 DEF Run

\* A run ends in a screen, which shows all of q when it fits.
LEMMA RunShows ==
  ASSUME NEW s \in Scr, NEW q \in Seq(Glyph), NEW f, f[0] = s,
         \A n \in 1 .. Len(q) : f[n] = put(f[n - 1], q[n])
  PROVE  /\ f[Len(q)] \in Scr
         /\ Len(q) <= CRT_SIZE - CRT_COLS => Shows(f[Len(q)], q)
<1> DEFINE Fits == Len(q) <= CRT_SIZE - CRT_COLS
           Fine(n) == f[n] \in Scr /\ (Fits => Shows(f[n], SubSeq(q, 1, n)))
           Bad == {n \in 0 .. Len(q) : ~ Fine(n)}
<1>1. Len(q) \in Nat /\ \A k \in 1 .. Len(q) : q[k] \in Glyph
  OBVIOUS
<1>2. Bad = {}
  <2> SUFFICES ASSUME Bad # {} PROVE FALSE
    OBVIOUS
  <2>1. PICK n \in Bad : \A y \in Bad : n <= y
    <3>1. Bad \in SUBSET Nat
      BY <1>1
    <3> HIDE DEF Bad
    <3> QED BY <3>1, LeastExists
  <2>2. n \in 0 .. Len(q) /\ ~ Fine(n)
    OBVIOUS
  <2>3. CASE n = 0
    <3>1. Shows(s, <<>>)
      BY Sizes DEF Shows, Scr, Cell
    <3>2. SubSeq(q, 1, 0) = <<>>
      OBVIOUS
    <3> QED BY <2>2, <2>3, <3>1, <3>2
  <2>4. CASE n # 0
    <3>1. n - 1 \in 0 .. Len(q) /\ n - 1 \notin Bad /\ n \in 1 .. Len(q)
      BY <1>1, <2>1, <2>2, <2>4
    <3>2. Fine(n - 1)
      BY <3>1
    <3>3. PICK t, c, x : t = SubSeq(q, 1, n - 1) /\ c = q[n] /\ x = f[n - 1]
      OBVIOUS
    <3>4. c \in Glyph /\ t \in Seq(Glyph) /\ Len(t) = n - 1
      BY <1>1, <3>1, <3>3
    <3>5. SubSeq(q, 1, n) = Append(t, c)
      BY <3>1, <3>3
    <3>6. f[n] = put(x, c) /\ x \in Scr
      BY <3>1, <3>2, <3>3
    <3>7. Fits => Shows(x, t) /\ Len(t) < CRT_SIZE - CRT_COLS
      BY <3>1, <3>2, <3>3, <3>4, Sizes
    <3>8. put(x, c) \in Scr /\ (Fits => Shows(put(x, c), Append(t, c)))
      BY <3>4, <3>6, <3>7, PutShows
    <3> QED BY <2>2, <3>5, <3>6, <3>8
  <2> QED BY <2>3, <2>4
<1>3. Fine(Len(q))
  BY <1>1, <1>2
<1>4. SubSeq(q, 1, Len(q)) = q
  OBVIOUS
<1> QED
  BY <1>3, <1>4

\* A tab, which is some blanks.
LEMMA TabType ==
  ASSUME NEW s \in Scr
  PROVE  tab(s) \in Scr
<1> DEFINE L == TabWidth
           q == [k \in 1 .. L |-> Blank]
           Step(g) == [n \in 0 .. L |-> IF n = 0 THEN s ELSE put(g[n - 1], Blank)]
           t == CHOOSE g : g = Step(g)
<1>1. q \in Seq(Glyph) /\ Len(q) = L /\ L \in Nat
  OBVIOUS
<1>2. PICK f : Run(f, s, q)
  BY <1>1, RunExists
<1>3. f = Step(f)
  BY <1>1, <1>2 DEF Run
<1>4. t = Step(t)
  BY <1>3
<1>5. tab(s) = t[L]
  BY DEF tab
<1>6. PICK w : w = Step(w) /\ tab(s) = w[L]
  BY <1>4, <1>5
<1>7. w[0] = s /\ \A n \in 1 .. L : w[n] = put(w[n - 1], q[n])
  BY <1>1, <1>6
<1> HIDE DEF q
<1>8. w[Len(q)] \in Scr
  BY <1>1, <1>7, RunShows
<1> QED
  BY <1>1, <1>6, <1>8

----------------------------------------------------------------------------
(* The steps *)

\* Whatever is printed leaves a screen.
LEMMA PutcType ==
  ASSUME NEW s \in Scr, NEW c \in Glyph \cup Control
  PROVE  cga_putc(s, c) \in Scr
<1>1. s = At(s.buf, s.pos) /\ s.buf \in [Cell -> Glyph] /\ s.pos \in Cell
  BY DEF Scr, At
<1>2. s.pos \in Nat /\ s.pos < CRT_ROWS * CRT_COLS
  BY <1>1, Sizes DEF Cell, CRT_SIZE
<1>3. line_start(s.pos) \in 0 .. s.pos /\ line_start(s.pos + CRT_COLS) \in 0 .. CRT_SIZE
  BY <1>2, LineStart DEF CRT_SIZE
<1>4. CASE c \in Glyph
  BY <1>4, Glyphs, PutShows
<1>5. CASE c = "\\b"
  <2>1. cga_putc(s, c) = backspace(s)
    BY <1>5, Controls DEF cga_putc
  <2> QED BY <2>1, BackShows
<1>6. CASE c = "\\n"
  <2>1. cga_putc(s, c) = scroll([s EXCEPT !.pos = line_start(s.pos + CRT_COLS)])
    BY <1>6, Controls DEF cga_putc
  <2>2. [s EXCEPT !.pos = line_start(s.pos + CRT_COLS)] = At(s.buf, line_start(s.pos + CRT_COLS))
    BY DEF Scr, At
  <2> QED BY <1>1, <1>3, <2>1, <2>2, ScrollIs
<1>7. CASE c = "\\r"
  <2>1. cga_putc(s, c) = [s EXCEPT !.pos = line_start(s.pos)]
    BY <1>7, Controls DEF cga_putc
  <2>2. line_start(s.pos) \in Cell
    BY <1>1, <1>3, Sizes DEF Cell
  <2> QED BY <2>1, <2>2 DEF Scr
<1>8. CASE c = "\\t"
  <2>1. cga_putc(s, c) = tab(s)
    BY <1>8, Controls DEF cga_putc
  <2> QED BY <2>1, TabType
<1> QED
  BY <1>4, <1>5, <1>6, <1>7, <1>8 DEF Control

\* What the screen shows while a line is edited, and that it fits.
ScreenInv == TypeOK /\ Len(buf) < BUFLEN /\ EchoShowsLine

\* The invariant in terms of Shows.
LEMMA InvIs ==
  ASSUME TypeOK
  PROVE  /\ Now \in Scr
         /\ EchoShowsLine <=> (reading => Shows(Now, Prompt \o buf))
BY DEF TypeOK, Now, Scr, EchoShowsLine, Shows

\* The same of the next state.
LEMMA InvAfter ==
  ASSUME NEW s \in Scr, Show(s), buf' \in Seq(Glyph), Len(buf') < BUFLEN, reading' \in BOOLEAN,
         reading' => Shows(s, Prompt \o buf')
  PROVE  ScreenInv'
<1>1. crt_buf' = s.buf /\ crt_pos' = s.pos
  BY DEF Show
<1>2. TypeOK'
  BY <1>1 DEF TypeOK, Scr
<1>3. EchoShowsLine'
  BY <1>1 DEF EchoShowsLine, Shows
<1> QED
  BY <1>2, <1>3 DEF ScreenInv

\* What the boot loader leaves.
LEMMA InitScreen ==
  Init => ScreenInv
<1> SUFFICES ASSUME Init PROVE ScreenInv
  OBVIOUS
<1>1. Blank \in Glyph /\ buf = <<>> /\ reading = FALSE
  BY DEF Init
<1>2. crt_buf \in [Cell -> Glyph] /\ crt_pos \in Cell
  BY <1>1 DEF Init
<1>3. buf \in Seq(Glyph) /\ Len(buf) = 0
  BY <1>1, EmptySeq
<1>4. TypeOK
  BY <1>1, <1>2, <1>3 DEF TypeOK
<1>5. EchoShowsLine
  BY <1>1 DEF EchoShowsLine
<1> QED
  BY <1>3, <1>4, <1>5 DEF ScreenInv

\* The kernel prints something.
LEMMA StepOutput ==
  ASSUME ScreenInv, NEW c \in Glyph \cup Control, Output(c)
  PROVE  ScreenInv'
<1>1. Now \in Scr
  BY InvIs DEF ScreenInv
<1>2. cga_putc(Now, c) \in Scr
  BY <1>1, PutcType
<1> QED
  BY <1>2, InvAfter DEF Output, ScreenInv, TypeOK

\* readline prints the prompt.
LEMMA StepReadline ==
  ASSUME ScreenInv, Readline
  PROVE  ScreenInv'
<1> DEFINE L == Len(Prompt)
           Step(g) == [n \in 0 .. L |-> IF n = 0 THEN Now ELSE cga_putc(g[n - 1], Prompt[n])]
           p == CHOOSE g : g = Step(g)
<1>1. Now \in Scr
  BY InvIs DEF ScreenInv
<1>2. L \in Nat /\ \A n \in 1 .. L : Prompt[n] \in Glyph
  OBVIOUS
<1>3. PICK f : Run(f, Now, Prompt)
  BY <1>1, RunExists
<1>4. \A n \in 1 .. L : f[n] = cga_putc(f[n - 1], Prompt[n])
  BY <1>2, <1>3, Glyphs DEF Run
<1>5. f = Step(f)
  BY <1>3, <1>4 DEF Run
<1>6. p = Step(p)
  BY <1>5
<1>7. Show(p[L]) /\ buf' = <<>> /\ reading' = TRUE
  BY DEF Readline
<1>8. PICK w : w = Step(w) /\ Show(w[L])
  BY <1>6, <1>7
<1>9. w[0] = Now /\ \A n \in 1 .. L : w[n] = cga_putc(w[n - 1], Prompt[n])
  BY <1>2, <1>8
<1>10. \A n \in 1 .. L : w[n] = put(w[n - 1], Prompt[n])
  BY <1>2, <1>9, Glyphs
<1>11. L <= CRT_SIZE - CRT_COLS
  BY <1>2, Sizes
<1>12. w[L] \in Scr /\ Shows(w[L], Prompt)
  BY <1>1, <1>9, <1>10, <1>11, RunShows
<1>13. Prompt \o <<>> = Prompt /\ <<>> \in Seq(Glyph) /\ Len(<<>>) = 0
  BY ConcatEmptySeq, EmptySeq
<1> QED
  BY <1>7, <1>8, <1>12, <1>13, InvAfter

\* A character goes into the line.
LEMMA StepStore ==
  ASSUME ScreenInv, NEW c, Store(c)
  PROVE  ScreenInv'
<1>1. /\ reading /\ c \in Glyph /\ Len(buf) < BUFLEN - 1
      /\ Show(cga_putc(Now, c)) /\ buf' = Append(buf, c) /\ reading' = reading
  BY DEF Store, echo
<1>2. Now \in Scr /\ Shows(Now, Prompt \o buf) /\ buf \in Seq(Glyph) /\ reading \in BOOLEAN
  BY <1>1, InvIs DEF ScreenInv, TypeOK
<1>3. PICK t : t = Prompt \o buf
  OBVIOUS
<1>4. t \in Seq(Glyph) /\ Len(t) = Len(Prompt) + Len(buf)
  BY <1>2, <1>3
<1>5. Len(t) < CRT_SIZE - CRT_COLS
  BY <1>1, <1>2, <1>4, Sizes
<1>6. put(Now, c) \in Scr /\ Shows(put(Now, c), Append(t, c))
  BY <1>1, <1>2, <1>3, <1>4, <1>5, PutShows
<1>7. Append(t, c) = Prompt \o Append(buf, c)
  <2>1. PICK x, u : x = <<c>> /\ u = Append(buf, c)
    OBVIOUS
  <2>2. x \in Seq(Glyph) /\ u = buf \o x /\ Append(t, c) = t \o x
    BY <1>1, <1>2, <1>4, <2>1
  <2> QED BY <1>2, <1>3, <2>1, <2>2, ConcatAssociative
<1>8. buf' \in Seq(Glyph) /\ Len(buf') < BUFLEN
  BY <1>1, <1>2
<1> QED
  BY <1>1, <1>2, <1>6, <1>7, <1>8, Glyphs, InvAfter

\* The last character goes.
LEMMA StepRubout ==
  ASSUME ScreenInv, NEW c, Rubout(c)
  PROVE  ScreenInv'
<1>1. /\ reading /\ buf # <<>>
      /\ Show(cga_putc(Now, "\\b")) /\ buf' = SubSeq(buf, 1, Len(buf) - 1) /\ reading' = reading
  BY DEF Rubout, echo
<1>2. /\ Now \in Scr /\ Shows(Now, Prompt \o buf) /\ buf \in Seq(Glyph)
      /\ Len(buf) < BUFLEN /\ reading \in BOOLEAN
  BY <1>1, InvIs DEF ScreenInv, TypeOK
<1>3. cga_putc(Now, "\\b") = backspace(Now)
  BY Controls DEF cga_putc
<1>4. PICK n \in Nat : n = Len(buf) /\ n > 0
  BY <1>1, <1>2
<1>5. /\ buf' \in Seq(Glyph) /\ Len(buf') = n - 1
      /\ \A k \in 1 .. n - 1 : buf'[k] = buf[k]
  BY <1>1, <1>2, <1>4
<1>6. PICK t, u : t = Prompt \o buf /\ u = Prompt \o buf'
  OBVIOUS
<1>7. /\ t \in Seq(Glyph) /\ u \in Seq(Glyph) /\ Len(t) = Len(u) + 1
      /\ \A k \in 1 .. Len(u) : u[k] = t[k]
  <2>1. PICK v \in Seq(Glyph) : /\ v = buf' /\ u = Prompt \o v /\ Len(v) = n - 1
                                /\ \A k \in 1 .. n - 1 : v[k] = buf[k]
    BY <1>5, <1>6
  <2>2. PICK m \in Nat : m = Len(Prompt)
    OBVIOUS
  <2>3. /\ t \in Seq(Glyph) /\ Len(t) = m + n
        /\ \A k \in 1 .. m + n : t[k] = IF k <= m THEN Prompt[k] ELSE buf[k - m]
    BY <1>2, <1>4, <1>6, <2>2, ConcatProperties
  <2>4. /\ u \in Seq(Glyph) /\ Len(u) = m + (n - 1)
        /\ \A k \in 1 .. m + (n - 1) : u[k] = IF k <= m THEN Prompt[k] ELSE v[k - m]
    <3>1. Prompt \in Seq(Glyph) /\ v \in Seq(Glyph) /\ Len(v) = n - 1
      BY <2>1
    <3>2. /\ Prompt \o v \in Seq(Glyph)
          /\ Len(Prompt \o v) = Len(Prompt) + Len(v)
          /\ \A k \in 1 .. Len(Prompt) + Len(v) :
               (Prompt \o v)[k] = IF k <= Len(Prompt) THEN Prompt[k] ELSE v[k - Len(Prompt)]
      BY <3>1, ConcatProperties
    <3> QED BY <2>1, <2>2, <3>1, <3>2
  <2>5. ASSUME NEW k \in 1 .. m + (n - 1) PROVE u[k] = t[k]
    <3>1. k > m => k - m \in 1 .. n - 1
      BY <1>4, <2>2
    <3>2. k \in 1 .. m + n
      BY <1>4, <2>2
    <3>3. CASE k <= m
      BY <2>3, <2>4, <2>5, <3>2, <3>3
    <3>4. CASE k > m
      BY <2>1, <2>2, <2>3, <2>4, <2>5, <3>1, <3>2, <3>4
    <3> QED BY <2>2, <3>3, <3>4
  <2> QED BY <1>4, <2>3, <2>4, <2>5
<1>8. backspace(Now) \in Scr /\ Shows(backspace(Now), u)
  BY <1>2, <1>6, <1>7, BackShows
<1> QED
  <2>1. Len(buf') < BUFLEN /\ reading' \in BOOLEAN /\ Show(backspace(Now))
    BY <1>1, <1>2, <1>3, <1>4, <1>5
  <2> QED BY <1>5, <1>6, <1>8, <2>1, InvAfter

\* The line is complete.
LEMMA StepReturn ==
  ASSUME ScreenInv, NEW c, Return(c)
  PROVE  ScreenInv'
<1>1. Now \in Scr
  BY InvIs DEF ScreenInv
<1>2. cga_putc(Now, "\\n") \in Scr
  BY <1>1, PutcType DEF Control
<1> QED
  BY <1>2, InvAfter DEF Return, echo, ScreenInv, TypeOK

\* Every step keeps the invariant.
LEMMA NextScreen ==
  ScreenInv /\ [Next]_vars => ScreenInv'
<1> SUFFICES ASSUME ScreenInv, [Next]_vars PROVE ScreenInv'
  OBVIOUS
<1>1. CASE UNCHANGED vars
  <2>1. crt_buf' = crt_buf /\ crt_pos' = crt_pos /\ buf' = buf /\ reading' = reading
    BY <1>1 DEF vars
  <2> QED BY <2>1 DEF ScreenInv, TypeOK, EchoShowsLine
<1>2. CASE Readline
  BY <1>2, StepReadline
<1>3. ASSUME NEW c \in Glyph \cup Control, Output(c) \/ Rubout(c) \/ Store(c) \/ Return(c)
      PROVE  ScreenInv'
  BY <1>3, StepOutput, StepRubout, StepStore, StepReturn
<1> QED
  BY <1>1, <1>2, <1>3 DEF Next

\* The invariant holds of the specification.
LEMMA ScreenInvariance ==
  Spec => []ScreenInv
BY InitScreen, NextScreen, PTL DEF Spec

\* The cursor never leaves the screen: cga_putc writes inside the frame buffer
\* only, whatever is printed.
THEOREM CursorInside ==
  Spec => []TypeOK
<1>1. ScreenInv => TypeOK
  BY DEF ScreenInv
<1> QED
  BY <1>1, ScreenInvariance, PTL

\* While readline edits a line, the screen shows the prompt and the line right
\* before the cursor.
THEOREM EchoCorrect ==
  Spec => []EchoShowsLine
<1>1. ScreenInv => EchoShowsLine
  BY DEF ScreenInv
<1> QED
  BY <1>1, ScreenInvariance, PTL

=============================================================================
