---------------------------- MODULE ConsoleProofs ----------------------------
(***************************************************************************)
(* Proofs about the console's input.                                       *)
(* The keyboard driver, for any keys of the tables, however many are held  *)
(* and however many bytes wait to be read: the flags that kbd_proc_data    *)
(* comes to and the characters it answers are those of the keys that were  *)
(* pressed.                                                                *)
(* The buffer, for any size, any devices and any amount of typing: as long *)
(* as fewer characters than it has places wait to be read, it is a queue,  *)
(* and cons_getc returns 0 only when there was nothing to return.          *)
(***************************************************************************)
EXTENDS Console, Keyboard, FiniteSetTheorems, SequenceTheorems, WellFoundedInduction, TLAPS

----------------------------------------------------------------------------
(* What the driver will still make of the bytes it has not read *)

\* The characters of the keys, and an answer as a sequence of them.
Typed     == {"a", "A", "^A", "1", "!", "\n", "\r", "KEY_UP", "KEY_DEL", "REBOOT"}
Answer(c) == IF c = NO THEN <<>> ELSE <<c>>

\* From the flags F[i - 1] the i-th byte of w leads to F[i], and what it and the
\* bytes behind it answer is Ans[i - 1].
Trace(F, Ans, w) ==
  /\ Ans \in [0 .. Len(w) -> Seq(Typed)] /\ Ans[Len(w)] = <<>>
  /\ \A i \in 1 .. Len(w) :
       LET r == kbd_proc_data(F[i - 1], w[i])
       IN  F[i] = r.shift /\ r.c \in Typed \cup {NO} /\ Ans[i - 1] = Answer(r.c) \o Ans[i]

\* The bytes w lead from the flags s to the flags t, with the answers p.
Decodes(w, p, s, t) ==
  \E F, Ans : Trace(F, Ans, w) /\ F[0] = s /\ F[Len(w)] = t /\ Ans[0] = p

\* No bytes, no change.
LEMMA DecodesNone ==
  /\ \A s : Decodes(<<>>, <<>>, s, s)
  /\ \A p, s, t : Decodes(<<>>, p, s, t) => p = <<>> /\ s = t
<1>1. ASSUME NEW s PROVE Decodes(<<>>, <<>>, s, s)
  <2>1. PICK F, Ans : F = [i \in 0 .. 0 |-> s] /\ Ans = [i \in 0 .. 0 |-> <<>>]
    OBVIOUS
  <2>2. F[0] = s /\ Ans[0] = <<>> /\ Ans \in [0 .. 0 -> Seq(Typed)] /\ Len(<<>>) = 0
    BY <2>1, EmptySeq
  <2>3. Trace(F, Ans, <<>>)
    BY <2>2 DEF Trace
  <2> QED BY <2>2, <2>3 DEF Decodes
<1>2. ASSUME NEW p, NEW s, NEW t, Decodes(<<>>, p, s, t) PROVE p = <<>> /\ s = t
  <2>1. Len(<<>>) = 0
    OBVIOUS
  <2> QED BY <1>2, <2>1 DEF Decodes, Trace
<1> QED
  BY <1>1, <1>2

\* The first of a sequence, and the others.
LEMMA HeadOf ==
  ASSUME NEW c \in Typed, NEW u \in Seq(Typed), NEW p, p = <<c>> \o u
  PROVE  p # <<>> /\ Head(p) = c /\ Tail(p) = u
<1>1. PICK x \in Seq(Typed) : x = <<c>> /\ Len(x) = 1 /\ x[1] = c
  <2>1. <<c>> \in Seq(Typed) /\ Len(<<c>>) = 1 /\ <<c>>[1] = c
    OBVIOUS
  <2> QED BY <2>1
<1>2. /\ p \in Seq(Typed) /\ Len(p) = 1 + Len(u)
      /\ \A i \in 1 .. 1 + Len(u) : p[i] = IF i <= 1 THEN x[i] ELSE u[i - 1]
  BY <1>1, ConcatProperties
<1>3. Len(u) \in Nat /\ p # <<>>
  BY <1>2
<1>4. /\ Tail(p) \in Seq(Typed) /\ Len(Tail(p)) = Len(u) /\ Head(p) = p[1]
      /\ \A i \in 1 .. Len(u) : Tail(p)[i] = p[i + 1]
  BY <1>2, <1>3, HeadTailProperties
<1>5. \A i \in 1 .. Len(u) : Tail(p)[i] = u[i]
  BY <1>2, <1>3, <1>4
<1>6. Tail(p) = u
  BY <1>4, <1>5, SeqEqual
<1> QED
  BY <1>1, <1>2, <1>3, <1>4, <1>6

\* The driver reads the first byte.
LEMMA DecodesHead ==
  ASSUME NEW w \in Seq(Nat), w # <<>>, NEW p, NEW s, NEW t, Decodes(w, p, s, t),
         NEW r, r = kbd_proc_data(s, Head(w))
  PROVE  /\ r.c = NO => Decodes(Tail(w), p, r.shift, t)
         /\ r.c # NO => p # <<>> /\ r.c = Head(p) /\ Decodes(Tail(w), Tail(p), r.shift, t)
         /\ p \in Seq(Typed)
<1>1. PICK F, Ans : Trace(F, Ans, w) /\ F[0] = s /\ F[Len(w)] = t /\ Ans[0] = p
  BY DEF Decodes
<1>2. PICK n \in Nat : n = Len(w) /\ n >= 1
  BY EmptySeq
<1>3. /\ Head(w) = w[1] /\ Len(Tail(w)) = n - 1
      /\ \A i \in 1 .. n - 1 : Tail(w)[i] = w[i + 1]
  BY <1>2, HeadTailProperties
<1>4. PICK G, R : G = [i \in 0 .. n - 1 |-> F[i + 1]] /\ R = [i \in 0 .. n - 1 |-> Ans[i + 1]]
  OBVIOUS
<1>5. \A i \in 0 .. n - 1 : i + 1 \in 0 .. n /\ G[i] = F[i + 1] /\ R[i] = Ans[i + 1]
  BY <1>2, <1>4
<1>6. R \in [0 .. n - 1 -> Seq(Typed)] /\ R[n - 1] = <<>> /\ G[n - 1] = t /\ p \in Seq(Typed)
  <2>1. Ans \in [0 .. n -> Seq(Typed)] /\ Ans[n] = <<>> /\ 0 \in 0 .. n
    BY <1>1, <1>2 DEF Trace
  <2>2. p \in Seq(Typed)
    BY <1>1, <2>1
  <2>3. \A i \in 0 .. n - 1 : Ans[i + 1] \in Seq(Typed)
    BY <1>5, <2>1
  <2>4. R \in [0 .. n - 1 -> Seq(Typed)]
    BY <1>4, <2>3
  <2>5. n - 1 \in 0 .. n - 1 /\ (n - 1) + 1 = n
    BY <1>2
  <2> QED BY <1>1, <1>2, <1>5, <2>1, <2>2, <2>4, <2>5
<1>7. ASSUME NEW i \in 1 .. n - 1
      PROVE  LET x == kbd_proc_data(G[i - 1], Tail(w)[i])
             IN  G[i] = x.shift /\ x.c \in Typed \cup {NO} /\ R[i - 1] = Answer(x.c) \o R[i]
  <2>1. PICK k \in 1 .. n : k = i + 1 /\ k - 1 = i
    BY <1>2
  <2>2. /\ G[i] = F[k] /\ R[i] = Ans[k] /\ G[i - 1] = F[k - 1] /\ R[i - 1] = Ans[k - 1]
        /\ Tail(w)[i] = w[k]
    <3>1. i \in 0 .. n - 1 /\ i - 1 \in 0 .. n - 1 /\ (i - 1) + 1 = i
      BY <1>2
    <3> QED BY <1>3, <1>5, <2>1, <3>1
  <2> QED BY <1>1, <1>2, <2>1, <2>2 DEF Trace
<1>8. Trace(G, R, Tail(w))
  BY <1>3, <1>6, <1>7 DEF Trace
<1>9. Decodes(Tail(w), R[0], G[0], t)
  BY <1>3, <1>6, <1>8 DEF Decodes
<1>10. G[0] = r.shift /\ p = Answer(r.c) \o R[0] /\ R[0] \in Seq(Typed) /\ r.c \in Typed \cup {NO}
  <2>1. G[0] = F[1] /\ R[0] = Ans[1]
    BY <1>2, <1>5
  <2>2. F[1 - 1] = s /\ Ans[1 - 1] = p
    BY <1>1
  <2>3. 1 \in 1 .. Len(w)
    BY <1>2
  <2>4. F[1] = r.shift /\ r.c \in Typed \cup {NO} /\ Ans[1 - 1] = Answer(r.c) \o Ans[1]
    BY <1>1, <1>3, <2>2, <2>3 DEF Trace
  <2>5. R[0] \in Seq(Typed)
    BY <1>2, <1>6
  <2> QED BY <2>1, <2>2, <2>4, <2>5
<1>11. CASE r.c = NO
  <2>1. p = R[0]
    BY <1>10, <1>11, ConcatEmptySeq DEF Answer
  <2> QED BY <1>6, <1>9, <1>10, <1>11, <2>1
<1>12. CASE r.c # NO
  <2>1. p = <<r.c>> \o R[0] /\ r.c \in Typed
    BY <1>10, <1>12 DEF Answer
  <2>2. p # <<>> /\ Head(p) = r.c /\ Tail(p) = R[0]
    <3>1. PICK u \in Seq(Typed), c \in Typed : u = R[0] /\ c = r.c /\ p = <<c>> \o u
      BY <1>10, <2>1
    <3> QED BY <3>1, HeadOf
  <2> QED BY <1>6, <1>9, <1>10, <1>12, <2>2
<1> QED
  BY <1>11, <1>12

\* The keyboard sends another byte.
LEMMA DecodesMore ==
  ASSUME NEW w \in Seq(Nat), NEW p \in Seq(Typed), NEW s, NEW t, Decodes(w, p, s, t),
         NEW b \in Nat, NEW r, r = kbd_proc_data(t, b), r.c \in Typed \cup {NO}
  PROVE  Decodes(Append(w, b), p \o Answer(r.c), s, r.shift)
<1>1. PICK F, Ans : Trace(F, Ans, w) /\ F[0] = s /\ F[Len(w)] = t /\ Ans[0] = p
  BY DEF Decodes
<1>2. PICK n \in Nat : n = Len(w)
  OBVIOUS
<1>3. PICK v, a : v = Append(w, b) /\ a = Answer(r.c)
  OBVIOUS
<1>4. Len(v) = n + 1 /\ v[n + 1] = b /\ \A i \in 1 .. n : v[i] = w[i]
  BY <1>2, <1>3
<1>5. a \in Seq(Typed) /\ <<>> \in Seq(Typed)
  BY <1>3 DEF Answer
<1>6. PICK G, R : /\ G = [i \in 0 .. n + 1 |-> IF i = n + 1 THEN r.shift ELSE F[i]]
                  /\ R = [i \in 0 .. n + 1 |-> IF i = n + 1 THEN <<>> ELSE Ans[i] \o a]
  OBVIOUS
<1>7. /\ G[n + 1] = r.shift /\ R[n + 1] = <<>>
      /\ \A i \in 0 .. n : G[i] = F[i] /\ R[i] = Ans[i] \o a
  BY <1>2, <1>6
<1>8. Ans \in [0 .. n -> Seq(Typed)] /\ Ans[n] = <<>>
  BY <1>1, <1>2 DEF Trace
<1>9. \A i \in 0 .. n : Ans[i] \o a \in Seq(Typed)
  BY <1>5, <1>8, ConcatProperties
<1>10. R \in [0 .. n + 1 -> Seq(Typed)]
  BY <1>2, <1>5, <1>6, <1>9
<1>11. ASSUME NEW i \in 1 .. n + 1
       PROVE  LET x == kbd_proc_data(G[i - 1], v[i])
              IN  G[i] = x.shift /\ x.c \in Typed \cup {NO} /\ R[i - 1] = Answer(x.c) \o R[i]
  <2>1. CASE i = n + 1
    <3>1. i - 1 = n /\ n \in 0 .. n
      BY <1>2, <2>1
    <3>2. G[i - 1] = t /\ v[i] = b /\ R[i - 1] = <<>> \o a /\ R[i] = <<>> /\ G[i] = r.shift
      BY <1>1, <1>2, <1>4, <1>7, <1>8, <2>1, <3>1
    <3>3. <<>> \o a = a /\ a \o <<>> = a
      BY <1>5, ConcatEmptySeq
    <3> QED BY <1>3, <3>2, <3>3
  <2>2. CASE i # n + 1
    <3>1. i \in 1 .. n /\ i \in 0 .. n /\ i - 1 \in 0 .. n
      BY <1>2, <2>2
    <3>2. PICK x : x = kbd_proc_data(F[i - 1], w[i])
      OBVIOUS
    <3>3. F[i] = x.shift /\ x.c \in Typed \cup {NO} /\ Ans[i - 1] = Answer(x.c) \o Ans[i]
      BY <1>1, <1>2, <3>1, <3>2 DEF Trace
    <3>4. Answer(x.c) \in Seq(Typed) /\ Ans[i] \in Seq(Typed)
      BY SMTT(30), <1>8, <3>1, <3>3 DEF Answer
    <3>5. (Answer(x.c) \o Ans[i]) \o a = Answer(x.c) \o (Ans[i] \o a)
      <4>1. PICK y \in Seq(Typed), z \in Seq(Typed) : y = Answer(x.c) /\ z = Ans[i]
        BY <3>4
      <4>2. (y \o z) \o a = y \o (z \o a)
        BY SMTT(30), <1>5, ConcatAssociative
      <4> QED BY <4>1, <4>2
    <3> QED BY <1>4, <1>7, <3>1, <3>2, <3>3, <3>5
  <2> QED BY <2>1, <2>2
<1>12. Trace(G, R, v)
  BY <1>4, <1>7, <1>10, <1>11 DEF Trace
<1>13. G[0] = s /\ G[n + 1] = r.shift /\ R[0] = p \o a
  <2>1. 0 \in 0 .. n
    BY <1>2
  <2> QED BY <1>1, <1>7, <2>1
<1> QED
  BY <1>3, <1>4, <1>12, <1>13 DEF Decodes

----------------------------------------------------------------------------
(* Single bytes.  T are the flags between two codes of the keyboard, without *)
(* the one that an E0 leaves.                                                *)

Lasting == {"CTL", "SHIFT", "ALT", "CAPSLOCK"}
Esc(T)  == T \cup {"E0ESC"}

\* Meaning(k) in terms of the flags, and those after k is pressed or released.
MeaningIn(T, k) ==
  CASE k = "a" -> IF "CTL" \in T THEN "^A"
                  ELSE IF ("SHIFT" \in T) # ("CAPSLOCK" \in T) THEN "A" ELSE "a"
    [] k = "one" -> IF "CTL" \in T THEN NO ELSE IF "SHIFT" \in T THEN "!" ELSE "1"
    [] k = "enter" -> IF "CTL" \in T THEN "\r" ELSE "\n"
    [] k = "up" -> "KEY_UP"
    [] k = "del" -> IF "CTL" \in T /\ "ALT" \in T THEN "REBOOT" ELSE "KEY_DEL"
    [] OTHER -> NO

ModifierOf(k) == IF k \in DOMAIN Modifier THEN {Modifier[k]} ELSE {}
After(T, k)   == IF k = "caps" THEN SymDiff(T, {"CAPSLOCK"}) ELSE T \cup ModifierOf(k)
Without(T, k) == T \ ModifierOf(k)

AllKeys == {"lctl", "rctl", "lshift", "rshift", "alt", "caps", "a", "one", "enter", "up", "del"}

\* The driver leaves the flags t and answers c.
Does(s, b, t, c) == kbd_proc_data(s, b).shift = t /\ kbd_proc_data(s, b).c = c

\* The codes, and the flags of the keys.
LEMMA Codes ==
  /\ DOMAIN Code = AllKeys
  /\ Code["lctl"] = 29 /\ Code["rctl"] = 29 /\ Code["lshift"] = 42 /\ Code["rshift"] = 54
  /\ Code["alt"] = 56 /\ Code["caps"] = 58 /\ Code["a"] = 30 /\ Code["one"] = 2
  /\ Code["enter"] = 28 /\ Code["up"] = 72 /\ Code["del"] = 83
BY DEF Code, AllKeys

\* And which key is which flag.
LEMMA Modifiers ==
  /\ ModifierOf("lctl") = {"CTL"} /\ ModifierOf("rctl") = {"CTL"}
  /\ ModifierOf("lshift") = {"SHIFT"} /\ ModifierOf("rshift") = {"SHIFT"}
  /\ ModifierOf("alt") = {"ALT"} /\ ModifierOf("caps") = {} /\ ModifierOf("a") = {}
  /\ ModifierOf("one") = {} /\ ModifierOf("enter") = {} /\ ModifierOf("up") = {}
  /\ ModifierOf("del") = {}
  /\ DOMAIN Modifier = {"lctl", "rctl", "lshift", "rshift", "alt"}
BY DEF ModifierOf, Modifier

\* An E0.
LEMMA ByteE0 ==
  ASSUME NEW T \in SUBSET Lasting
  PROVE  Does(T, E0, Esc(T), NO)
BY DEF Does, kbd_proc_data, proc_data, Esc, E0

\* The tables for the code of each key, escaped or not.
LEMMA BytePressed ==
  ASSUME NEW T \in SUBSET Lasting, NEW k \in AllKeys,
         NEW b, b = IF k \in Extended THEN Code[k] + 128 ELSE Code[k]
  PROVE  pressed(T, b).shift = After(T, k) /\ pressed(T, b).c = MeaningIn(T, k)
<1> USE DEF pressed, shiftcode, togglecode, charcode, ctlmap, shiftmap, normalmap, grey,
            swapcase, After, MeaningIn, SymDiff, NO, Lasting
<1>1. CASE k \in {"lctl", "rctl"}
  BY <1>1, Codes, Modifiers DEF Extended
<1>2. CASE k \in {"lshift", "rshift"}
  BY <1>2, Codes, Modifiers DEF Extended
<1>3. CASE k = "alt"
  BY <1>3, Codes, Modifiers DEF Extended
<1>4. CASE k = "caps"
  BY <1>4, Codes, Modifiers DEF Extended
<1>5. CASE k = "a"
  BY <1>5, Codes, Modifiers DEF Extended
<1>6. CASE k = "one"
  BY <1>6, Codes, Modifiers DEF Extended
<1>7. CASE k = "enter"
  BY <1>7, Codes, Modifiers DEF Extended
<1>8. CASE k = "up"
  BY <1>8, Codes, Modifiers DEF Extended
<1>9. CASE k = "del"
  BY <1>9, Codes, Modifiers DEF Extended
<1> HIDE DEF pressed, shiftcode, togglecode, charcode, ctlmap, shiftmap, normalmap, grey,
            swapcase, After, MeaningIn, SymDiff, NO, Lasting
<1> QED
  BY <1>1, <1>2, <1>3, <1>4, <1>5, <1>6, <1>7, <1>8, <1>9 DEF AllKeys

\* A key is pressed.
LEMMA BytePress ==
  ASSUME NEW T \in SUBSET Lasting, NEW k \in AllKeys
  PROVE  IF k \in Extended THEN Does(Esc(T), Code[k], After(T, k), MeaningIn(T, k))
         ELSE Does(T, Code[k], After(T, k), MeaningIn(T, k))
<1>1. Code[k] \in Nat /\ Code[k] < 128 /\ Code[k] # E0
  BY Codes DEF AllKeys, E0
<1>2. Esc(T) \ {"E0ESC"} = T /\ "E0ESC" \in Esc(T) /\ "E0ESC" \notin T
  BY DEF Esc, Lasting
<1>3. kbd_proc_data(Esc(T), Code[k]) = pressed(T, Code[k] + 128)
  BY <1>1, <1>2 DEF kbd_proc_data, proc_data
<1>4. kbd_proc_data(T, Code[k]) = pressed(T, Code[k])
  BY <1>1, <1>2 DEF kbd_proc_data, proc_data
<1> QED
  BY <1>3, <1>4, BytePressed DEF Does

\* A key is released.
LEMMA ByteRelease ==
  ASSUME NEW T \in SUBSET Lasting, NEW k \in AllKeys
  PROVE  IF k \in Extended THEN Does(Esc(T), Code[k] + 128, Without(T, k), NO)
         ELSE Does(T, Code[k] + 128, Without(T, k), NO)
<1>1. Code[k] \in Nat /\ Code[k] < 96
  BY Codes DEF AllKeys
<1>2. Code[k] + 128 # E0 /\ Code[k] + 128 >= 128 /\ (Code[k] + 128) - 128 = Code[k]
  BY <1>1 DEF E0
<1>3. PICK b : b = IF k \in Extended THEN Code[k] + 128 ELSE Code[k]
  OBVIOUS
<1>4. shiftcode(b) = ModifierOf(k)
  BY <1>3, Codes, Modifiers DEF shiftcode, AllKeys, Extended
<1>5. CASE k \in Extended
  <2>1. kbd_proc_data(Esc(T), Code[k] + 128) =
          [shift |-> Esc(T) \ (ModifierOf(k) \cup {"E0ESC"}), c |-> NO]
    <3>1. PICK d \in Nat : d = Code[k] + 128
      BY <1>1
    <3>2. shiftcode(d) = ModifierOf(k) /\ d # E0 /\ d >= 128 /\ "E0ESC" \in Esc(T)
      BY <1>2, <1>3, <1>4, <1>5, <3>1 DEF Esc
    <3>3. kbd_proc_data(Esc(T), d) = proc_data(Esc(T), d, shiftcode(d) \cup {"E0ESC"})
      BY <3>2 DEF kbd_proc_data
    <3>4. proc_data(Esc(T), d, shiftcode(d) \cup {"E0ESC"})
            = [shift |-> Esc(T) \ (shiftcode(d) \cup {"E0ESC"}), c |-> NO]
      BY <3>2 DEF proc_data
    <3> QED BY <3>1, <3>2, <3>3, <3>4
  <2>2. Esc(T) \ (ModifierOf(k) \cup {"E0ESC"}) = Without(T, k)
    BY DEF Esc, Without, Lasting
  <2> QED BY <1>5, <2>1, <2>2 DEF Does
<1>6. CASE k \notin Extended
  <2>1. "E0ESC" \notin T
    BY DEF Lasting
  <2>2. kbd_proc_data(T, Code[k] + 128) =
          [shift |-> T \ (ModifierOf(k) \cup {"E0ESC"}), c |-> NO]
    <3>1. PICK d \in Nat : d = Code[k] + 128 /\ d - 128 = Code[k]
      BY <1>1
    <3>2. shiftcode(d - 128) = ModifierOf(k) /\ d # E0 /\ d >= 128
      BY <1>2, <1>3, <1>4, <1>6, <3>1
    <3>3. kbd_proc_data(T, d) = proc_data(T, d, shiftcode(d - 128) \cup {"E0ESC"})
      BY <2>1 DEF kbd_proc_data
    <3>4. proc_data(T, d, shiftcode(d - 128) \cup {"E0ESC"})
            = [shift |-> T \ (shiftcode(d - 128) \cup {"E0ESC"}), c |-> NO]
      BY <3>2 DEF proc_data
    <3> QED BY <3>1, <3>2, <3>3, <3>4
  <2>3. T \ (ModifierOf(k) \cup {"E0ESC"}) = Without(T, k)
    BY <2>1 DEF Without
  <2> QED BY <1>6, <2>2, <2>3 DEF Does
<1> QED
  BY <1>5, <1>6

\* What the keyboard sends around the grey keys, behind an E0, means nothing.
LEMMA ByteFake ==
  ASSUME NEW T \in SUBSET Lasting, NEW k \in {"lshift", "rshift"}
  PROVE  Does(Esc(T), Code[k] + 128, T, NO) /\ Does(Esc(T), Code[k] + 0, T, NO)
<1>1. Code[k] \in {42, 54}
  BY Codes
<1>2. Esc(T) \ {"E0ESC"} = T /\ "E0ESC" \in Esc(T)
  BY DEF Esc, Lasting
<1>3. \A b \in {170, 182} : shiftcode(b) = {} /\ togglecode(b) = {} /\ grey(b) = NO
  BY DEF shiftcode, togglecode, grey
<1>4. Does(Esc(T), Code[k] + 128, T, NO)
  <2>1. PICK b \in {170, 182} : b = Code[k] + 128
    BY <1>1
  <2>2. kbd_proc_data(Esc(T), b) = [shift |-> Esc(T) \ (shiftcode(b) \cup {"E0ESC"}), c |-> NO]
    BY <1>2 DEF kbd_proc_data, proc_data, E0
  <2> QED BY <1>2, <1>3, <2>1, <2>2 DEF Does
<1>5. Does(Esc(T), Code[k] + 0, T, NO)
  <2>1. PICK b \in {170, 182} : b = Code[k] + 128 /\ Code[k] + 0 = b - 128
    BY <1>1
  <2>2. kbd_proc_data(Esc(T), b - 128) = pressed(T, b)
    BY <1>2 DEF kbd_proc_data, proc_data, E0
  <2>3. SymDiff(T \cup {}, {}) = T
    BY DEF SymDiff
  <2>4. normalmap(b) = NO /\ shiftmap(b) = NO /\ ctlmap(b) = NO
    BY <1>3 DEF normalmap, shiftmap, ctlmap
  <2>5. charcode(T, b) = NO /\ swapcase(NO) = NO
    BY <2>4 DEF charcode, swapcase, NO
  <2>6. pressed(T, b).shift = T /\ pressed(T, b).c = NO
    BY <1>3, <2>3, <2>5 DEF pressed, NO
  <2> QED BY <2>1, <2>2, <2>6 DEF Does
<1> QED
  BY <1>4, <1>5

----------------------------------------------------------------------------
(* Whole codes *)

\* A byte more, by what it does.
LEMMA ByteDecoded ==
  ASSUME NEW w \in Seq(Nat), NEW p \in Seq(Typed), NEW s, NEW t, Decodes(w, p, s, t),
         NEW b \in Nat, NEW u, NEW c \in Typed \cup {NO}, Does(t, b, u, c)
  PROVE  Append(w, b) \in Seq(Nat) /\ Decodes(Append(w, b), p \o Answer(c), s, u)
<1>1. PICK r : r = kbd_proc_data(t, b)
  OBVIOUS
<1>2. r.shift = u /\ r.c = c
  BY <1>1 DEF Does
<1>3. Decodes(Append(w, b), p \o Answer(r.c), s, r.shift)
  BY <1>1, <1>2, DecodesMore
<1> QED
  BY <1>2, <1>3

\* A byte more that answers nothing.
LEMMA SilentByte ==
  ASSUME NEW w \in Seq(Nat), NEW p \in Seq(Typed), NEW s, NEW t, Decodes(w, p, s, t),
         NEW b \in Nat, NEW u, Does(t, b, u, NO)
  PROVE  Append(w, b) \in Seq(Nat) /\ Decodes(Append(w, b), p, s, u)
<1>1. p \o Answer(NO) = p
  BY ConcatEmptySeq DEF Answer
<1>2. NO \in Typed \cup {NO}
  OBVIOUS
<1> QED
  BY <1>1, <1>2, ByteDecoded

\* A sequence with one element more.
LEMMA IsAppend ==
  ASSUME NEW u \in Seq(Nat), NEW v \in Seq(Nat), NEW a \in Nat,
         Len(v) = Len(u) + 1, \A i \in 1 .. Len(u) : v[i] = u[i], v[Len(v)] = a
  PROVE  Append(u, a) = v
<1>1. PICK x : x = Append(u, a)
  OBVIOUS
<1>2. x \in Seq(Nat) /\ Len(x) = Len(u) + 1 /\ Len(u) \in Nat
  BY <1>1, AppendProperties
<1>3. x[Len(u) + 1] = a /\ \A i \in 1 .. Len(u) : x[i] = u[i]
  BY <1>1, AppendProperties
<1>4. ASSUME NEW i \in 1 .. Len(x) PROVE x[i] = v[i]
  <2>1. i \in 1 .. Len(u) \/ i = Len(u) + 1
    BY <1>2
  <2>2. CASE i = Len(u) + 1
    BY <1>2, <1>3, <2>2
  <2>3. CASE i \in 1 .. Len(u)
    BY <1>2, <1>3, <2>3
  <2> QED BY <2>1, <2>2, <2>3
<1> QED
  BY <1>1, <1>2, <1>4, SeqEqual

\* And the tuples as such sequences.
LEMMA Tuples ==
  ASSUME NEW a \in Nat, NEW b \in Nat, NEW c \in Nat, NEW d \in Nat
  PROVE  /\ Append(<<a>>, b) = <<a, b>> /\ Append(<<a, b>>, c) = <<a, b, c>>
         /\ Append(<<a, b, c>>, d) = <<a, b, c, d>>
<1>1. PICK p, q, r, s : p = <<a>> /\ q = <<a, b>> /\ r = <<a, b, c>> /\ s = <<a, b, c, d>>
  OBVIOUS
<1>2. p \in Seq(Nat) /\ Len(p) = 1 /\ p[1] = a
  BY <1>1
<1>3. q \in Seq(Nat) /\ Len(q) = 2 /\ q[1] = a /\ q[2] = b
  BY <1>1
<1>4. r \in Seq(Nat) /\ Len(r) = 3 /\ r[1] = a /\ r[2] = b /\ r[3] = c
  BY <1>1
<1>5. s \in Seq(Nat) /\ Len(s) = 4 /\ s[1] = a /\ s[2] = b /\ s[3] = c /\ s[4] = d
  BY <1>1
<1>6. Append(p, b) = q
  <2>1. Len(q) = Len(p) + 1 /\ q[Len(q)] = b /\ \A i \in 1 .. Len(p) : q[i] = p[i]
    BY <1>2, <1>3
  <2> QED BY <1>2, <1>3, <2>1, IsAppend
<1>7. Append(q, c) = r
  <2>1. Len(r) = Len(q) + 1 /\ r[Len(r)] = c /\ \A i \in 1 .. Len(q) : r[i] = q[i]
    BY <1>3, <1>4
  <2> QED BY <1>3, <1>4, <2>1, IsAppend
<1>8. Append(r, d) = s
  <2>1. Len(s) = Len(r) + 1 /\ s[Len(s)] = d /\ \A i \in 1 .. Len(r) : s[i] = r[i]
    BY <1>4, <1>5
  <2> QED BY <1>4, <1>5, <2>1, IsAppend
<1> QED
  BY <1>1, <1>6, <1>7, <1>8

\* An element more in the second of two sequences.
LEMMA AppendInside ==
  ASSUME NEW w \in Seq(Nat), NEW v \in Seq(Nat), NEW a \in Nat
  PROVE  w \o Append(v, a) = Append(w \o v, a)
<1>1. PICK x, y, z : x = <<a>> /\ y = Append(v, a) /\ z = w \o v
  OBVIOUS
<1>2. x \in Seq(Nat) /\ y \in Seq(Nat) /\ z \in Seq(Nat)
  BY <1>1
<1>3. y = v \o x /\ Append(z, a) = z \o x
  BY <1>1, <1>2
<1>4. w \o (v \o x) = z \o x
  BY <1>1, <1>2, ConcatAssociative
<1> QED
  BY <1>1, <1>3, <1>4

\* What is sent at once arrives byte by byte.
LEMMA Appends ==
  ASSUME NEW w \in Seq(Nat), NEW a \in Nat, NEW b \in Nat, NEW c \in Nat, NEW d \in Nat
  PROVE  /\ w \o <<a>> = Append(w, a)
         /\ w \o <<a, b>> = Append(Append(w, a), b)
         /\ w \o <<a, b, c, d>> = Append(Append(Append(Append(w, a), b), c), d)
<1>1. PICK p, q, r, s : p = <<a>> /\ q = <<a, b>> /\ r = <<a, b, c>> /\ s = <<a, b, c, d>>
  OBVIOUS
<1>2. p \in Seq(Nat) /\ q \in Seq(Nat) /\ r \in Seq(Nat)
  BY <1>1
<1>3. q = Append(p, b) /\ r = Append(q, c) /\ s = Append(r, d)
  BY <1>1, Tuples
<1>4. w \o p = Append(w, a)
  BY <1>1
<1>5. w \o q = Append(w \o p, b) /\ w \o r = Append(w \o q, c) /\ w \o s = Append(w \o r, d)
  BY <1>2, <1>3, AppendInside
<1> QED
  BY <1>1, <1>4, <1>5

\* The pieces of a code, one after the other.
LEMMA Pieces ==
  ASSUME NEW a \in Nat, NEW b \in Nat, NEW c \in Nat, NEW d \in Nat
  PROVE  /\ <<>> \o <<>> \o <<a>> = <<a>> /\ <<>> \o <<a>> \o <<>> = <<a>>
         /\ <<>> \o <<a>> \o <<b>> = <<a, b>> /\ <<a>> \o <<b>> \o <<>> = <<a, b>>
         /\ <<a, b>> \o <<c>> \o <<d>> = <<a, b, c, d>>
<1>1. PICK p, q, r, s : p = <<a>> /\ q = <<a, b>> /\ r = <<a, b, c>> /\ s = <<a, b, c, d>>
  OBVIOUS
<1>2. p \in Seq(Nat) /\ q \in Seq(Nat) /\ r \in Seq(Nat)
  BY <1>1
<1>3. q = Append(p, b) /\ r = Append(q, c) /\ s = Append(r, d)
  BY <1>1, Tuples
<1>4. PICK x, y, z : x = <<b>> /\ y = <<c>> /\ z = <<d>>
  OBVIOUS
<1>5. <<>> \o p = p /\ p \o <<>> = p /\ <<>> \o <<>> = <<>> /\ q \o <<>> = q
  BY <1>2, ConcatEmptySeq
<1>6. p \o x = Append(p, b) /\ q \o y = Append(q, c) /\ r \o z = Append(r, d)
  BY <1>2, <1>4
<1>7. p \o x = q /\ q \o y \o z = s
  BY <1>3, <1>6
<1> QED
  BY <1>1, <1>4, <1>5, <1>7

\* And with two bytes behind.
LEMMA FourPieces ==
  ASSUME NEW a \in Nat, NEW b \in Nat, NEW c \in Nat, NEW d \in Nat
  PROVE  <<a>> \o <<b>> \o <<c, d>> = <<a, b, c, d>>
<1>1. PICK p, q, r, s : p = <<a>> /\ q = <<a, b>> /\ r = <<a, b, c>> /\ s = <<a, b, c, d>>
  OBVIOUS
<1>2. p \in Seq(Nat) /\ q \in Seq(Nat) /\ r \in Seq(Nat)
  BY <1>1
<1>3. q = Append(p, b) /\ r = Append(q, c) /\ s = Append(r, d)
  BY <1>1, Tuples
<1>4. PICK x, y, v : x = <<b>> /\ y = <<c>> /\ v = <<c, d>>
  OBVIOUS
<1>5. y \in Seq(Nat) /\ v = Append(y, d)
  BY <1>4, Tuples
<1>6. p \o x = Append(p, b) /\ q \o y = Append(q, c)
  BY <1>2, <1>4
<1>7. q \o v = Append(q \o y, d)
  BY <1>2, <1>5, AppendInside
<1>8. p \o x \o v = s
  BY <1>3, <1>6, <1>7
<1> QED
  BY <1>1, <1>4, <1>8

\* One code of the keyboard, whichever of its forms it has: the flags go from T
\* to V, by way of U, and the answer is c.
LEMMA OneCode ==
  ASSUME NEW w \in Seq(Nat), NEW p \in Seq(Typed), NEW s, NEW T, Decodes(w, p, s, T),
         NEW b \in Nat, NEW V, NEW c \in Typed \cup {NO}, Does(T, b, V, c)
  PROVE  w \o <<b>> \in Seq(Nat) /\ Decodes(w \o <<b>>, p \o Answer(c), s, V)
<1>1. w \o <<b>> = Append(w, b)
  OBVIOUS
<1> QED
  BY <1>1, ByteDecoded

\* Two bytes.
LEMMA TwoCodes ==
  ASSUME NEW w \in Seq(Nat), NEW p \in Seq(Typed), NEW s, NEW T \in SUBSET Lasting,
         Decodes(w, p, s, T),
         NEW b \in Nat, NEW V, NEW c \in Typed \cup {NO}, Does(Esc(T), b, V, c)
  PROVE  w \o <<E0, b>> \in Seq(Nat) /\ Decodes(w \o <<E0, b>>, p \o Answer(c), s, V)
<1>1. PICK e \in Nat : e = E0
  BY DEF E0
<1>2. PICK x : x = Append(w, e)
  OBVIOUS
<1>3. x \in Seq(Nat) /\ Decodes(x, p, s, Esc(T))
  BY <1>1, <1>2, ByteE0, SilentByte
<1>4. w \o <<e, b>> = Append(x, b)
  BY <1>2, Appends
<1>5. Append(x, b) \in Seq(Nat) /\ Decodes(Append(x, b), p \o Answer(c), s, V)
  BY <1>3, ByteDecoded
<1> QED
  BY <1>1, <1>4, <1>5

\* Four bytes, the first two without an answer.
LEMMA FourCodes ==
  ASSUME NEW w \in Seq(Nat), NEW p \in Seq(Typed), NEW s, NEW T \in SUBSET Lasting,
         Decodes(w, p, s, T),
         NEW a \in Nat, NEW U \in SUBSET Lasting, Does(Esc(T), a, U, NO),
         NEW b \in Nat, NEW V, NEW c \in Typed \cup {NO}, Does(Esc(U), b, V, c)
  PROVE  /\ w \o <<E0, a, E0, b>> \in Seq(Nat)
         /\ Decodes(w \o <<E0, a, E0, b>>, p \o Answer(c), s, V)
<1>1. PICK e \in Nat : e = E0
  BY DEF E0
<1>2. PICK x, y, z : x = Append(w, e) /\ y = Append(x, a) /\ z = Append(y, e)
  OBVIOUS
<1>3. x \in Seq(Nat) /\ Decodes(x, p, s, Esc(T))
  BY <1>1, <1>2, ByteE0, SilentByte
<1>4. y \in Seq(Nat) /\ Decodes(y, p, s, U)
  BY <1>2, <1>3, SilentByte
<1>5. z \in Seq(Nat) /\ Decodes(z, p, s, Esc(U))
  BY <1>1, <1>2, <1>4, ByteE0, SilentByte
<1>6. w \o <<e, a, e, b>> = Append(z, b)
  BY SMTT(30), <1>2, Appends
<1>7. Append(z, b) \in Seq(Nat) /\ Decodes(Append(z, b), p \o Answer(c), s, V)
  BY <1>5, ByteDecoded
<1> QED
  BY <1>1, <1>6, <1>7

----------------------------------------------------------------------------
(* The flags that the keys call for *)

Flags(H, on) == {m \in {"CTL", "SHIFT", "ALT"} : \E k \in H : k \in DOMAIN Modifier /\ Modifier[k] = m}
                  \cup {x \in {"CAPSLOCK"} : on}

\* No two of the keys H have the same flag.
Apart(H) == \A k, h \in H :
              k \in DOMAIN Modifier /\ h \in DOMAIN Modifier /\ Modifier[k] = Modifier[h] => k = h

\* Flags, member by member.
LEMMA FlagsAre ==
  ASSUME NEW H, NEW on
  PROVE  /\ Flags(H, on) \in SUBSET Lasting
         /\ "CAPSLOCK" \in Flags(H, on) <=> on
         /\ \A m \in {"CTL", "SHIFT", "ALT"} :
              m \in Flags(H, on) <=> \E k \in H : k \in DOMAIN Modifier /\ Modifier[k] = m
BY DEF Flags, Lasting

\* The flags are equal when these are.
LEMMA FlagsEqual ==
  ASSUME NEW T \in SUBSET Lasting, NEW U \in SUBSET Lasting,
         "CAPSLOCK" \in T <=> "CAPSLOCK" \in U,
         \A m \in {"CTL", "SHIFT", "ALT"} : m \in T <=> m \in U
  PROVE  T = U
<1>1. \A m \in Lasting : m \in T <=> m \in U
  BY DEF Lasting
<1> QED
  BY <1>1

\* The flag of a key.
LEMMA FlagOf ==
  ASSUME NEW k \in AllKeys, NEW m
  PROVE  /\ m \in ModifierOf(k) <=> k \in DOMAIN Modifier /\ Modifier[k] = m
         /\ m \in ModifierOf(k) => m \in {"CTL", "SHIFT", "ALT"}
         /\ "caps" \notin DOMAIN Modifier
BY Modifiers DEF ModifierOf, AllKeys, Modifier

\* A key goes down.
LEMMA FlagsPress ==
  ASSUME NEW H, NEW on \in BOOLEAN, NEW k \in AllKeys
  PROVE  After(Flags(H, on), k) = Flags(H \cup {k}, IF k = "caps" THEN ~on ELSE on)
<1>1. PICK T, V, off : /\ T = Flags(H, on) /\ V = Flags(H \cup {k}, off)
                       /\ off = IF k = "caps" THEN ~on ELSE on
  OBVIOUS
<1>2. /\ T \in SUBSET Lasting /\ ("CAPSLOCK" \in T <=> on)
      /\ \A m \in {"CTL", "SHIFT", "ALT"} :
           m \in T <=> \E h \in H : h \in DOMAIN Modifier /\ Modifier[h] = m
  BY <1>1, FlagsAre
<1>3. /\ V \in SUBSET Lasting /\ ("CAPSLOCK" \in V <=> off)
      /\ \A m \in {"CTL", "SHIFT", "ALT"} :
           m \in V <=> \E h \in H \cup {k} : h \in DOMAIN Modifier /\ Modifier[h] = m
  BY <1>1, FlagsAre
<1>4. \A m : m \in After(T, k) <=>
        IF k = "caps" THEN (m \in T) # (m = "CAPSLOCK") ELSE m \in T \/ m \in ModifierOf(k)
  BY DEF After, SymDiff
<1>5. After(T, k) \in SUBSET Lasting
  <2>1. "CAPSLOCK" \in Lasting /\ \A m : m \in ModifierOf(k) => m \in Lasting
    BY FlagOf DEF Lasting
  <2> QED BY <1>2, <1>4, <2>1
<1>6. "CAPSLOCK" \in After(T, k) <=> "CAPSLOCK" \in V
  BY <1>1, <1>2, <1>3, <1>4, FlagOf
<1>7. ASSUME NEW m \in {"CTL", "SHIFT", "ALT"}
      PROVE  m \in After(T, k) <=> m \in V
  <2>1. m \in V <=> m \in T \/ m \in ModifierOf(k)
    BY <1>2, <1>3, FlagOf
  <2>2. k = "caps" => m \notin ModifierOf(k)
    BY FlagOf
  <2> QED BY <1>4, <2>1, <2>2
<1>8. After(T, k) = V
  BY <1>3, <1>5, <1>6, <1>7, FlagsEqual
<1> QED
  BY <1>1, <1>8

\* A key is let go.
LEMMA FlagsRelease ==
  ASSUME NEW H, H \subseteq AllKeys, Apart(H), NEW on, NEW k \in H
  PROVE  Without(Flags(H, on), k) = Flags(H \ {k}, on)
<1>1. PICK T, V : T = Flags(H, on) /\ V = Flags(H \ {k}, on)
  OBVIOUS
<1>2. /\ T \in SUBSET Lasting /\ ("CAPSLOCK" \in T <=> on)
      /\ \A m \in {"CTL", "SHIFT", "ALT"} :
           m \in T <=> \E h \in H : h \in DOMAIN Modifier /\ Modifier[h] = m
  BY <1>1, FlagsAre
<1>3. /\ V \in SUBSET Lasting /\ ("CAPSLOCK" \in V <=> on)
      /\ \A m \in {"CTL", "SHIFT", "ALT"} :
           m \in V <=> \E h \in H \ {k} : h \in DOMAIN Modifier /\ Modifier[h] = m
  BY <1>1, FlagsAre
<1>4. \A m : m \in Without(T, k) <=> m \in T /\ m \notin ModifierOf(k)
  BY DEF Without
<1>5. Without(T, k) \in SUBSET Lasting
  BY <1>2, <1>4
<1>6. "CAPSLOCK" \in Without(T, k) <=> "CAPSLOCK" \in V
  BY <1>2, <1>3, <1>4, FlagOf
<1>7. ASSUME NEW m \in {"CTL", "SHIFT", "ALT"}
      PROVE  m \in Without(T, k) <=> m \in V
  <2>1. m \in ModifierOf(k) <=> k \in DOMAIN Modifier /\ Modifier[k] = m
    BY FlagOf
  <2>2. CASE m \in ModifierOf(k)
    <3>1. \A h \in H : h \in DOMAIN Modifier /\ Modifier[h] = m => h = k
      BY <2>1, <2>2 DEF Apart
    <3> QED BY <1>3, <1>4, <2>2, <3>1
  <2>3. CASE m \notin ModifierOf(k)
    BY <1>2, <1>3, <1>4, <2>1, <2>3
  <2> QED BY <2>2, <2>3
<1>8. Without(T, k) = V
  BY <1>3, <1>5, <1>6, <1>7, FlagsEqual
<1> QED
  BY <1>1, <1>8

\* What a key means is what the flags make of it.
LEMMA MeaningOf ==
  ASSUME NEW k \in AllKeys, caps \in BOOLEAN
  PROVE  Meaning(k) = MeaningIn(Flags(held, caps), k) /\ Meaning(k) \in Typed \cup {NO}
<1>1. PICK T : T = Flags(held, caps)
  OBVIOUS
<1>2. /\ (Down("CTL") <=> "CTL" \in T) /\ (Down("SHIFT") <=> "SHIFT" \in T)
      /\ (Down("ALT") <=> "ALT" \in T) /\ (caps <=> "CAPSLOCK" \in T)
  BY <1>1, FlagsAre DEF Down
<1>3. Meaning(k) = MeaningIn(T, k)
  <2>1. (Down("SHIFT") # caps) <=> (("SHIFT" \in T) # ("CAPSLOCK" \in T))
    <3>1. CASE caps = TRUE
      BY <1>2, <3>1 DEF Down
    <3>2. CASE caps = FALSE
      <4>1. CASE "SHIFT" \in T
        BY <1>2, <3>2, <4>1 DEF Down
      <4>2. CASE "SHIFT" \notin T
        <5>1. Down("SHIFT") = FALSE
          BY <1>2, <4>2 DEF Down
        <5>2. ("SHIFT" \in T) = FALSE /\ ("CAPSLOCK" \in T) = FALSE
          BY <1>2, <3>2, <4>2
        <5> QED BY <3>2, <5>1, <5>2
      <4> QED BY <4>1, <4>2
    <3> QED BY <3>1, <3>2
  <2>2. CASE k = "a"
    BY <1>2, <2>1, <2>2 DEF Meaning, MeaningIn
  <2>3. CASE k # "a"
    BY <1>2, <2>3 DEF Meaning, MeaningIn
  <2> QED BY <2>2, <2>3
<1>4. MeaningIn(T, k) \in Typed \cup {NO}
  BY DEF MeaningIn, Typed, AllKeys
<1> QED
  BY <1>1, <1>3, <1>4

----------------------------------------------------------------------------
(* The invariant *)

Target == Flags(held, caps)

\* The bytes that wait lead the flags to those that the keys call for, and
\* answer what the keys still call for.
KeyInv ==
  /\ held \subseteq AllKeys /\ caps \in BOOLEAN /\ Apart(held)
  /\ wire \in Seq(Nat) /\ pending \in Seq(Typed)
  /\ Decodes(wire, pending, shift, Target)

USE KeyboardAssumption

\* The keyboard's keys are those of the tables.
LEMMA KeysKnown == Key \subseteq AllKeys
BY Codes

\* At first no key is down.
LEMMA InitKey == KeyInit => KeyInv
<1> SUFFICES ASSUME KeyInit PROVE KeyInv
  OBVIOUS
<1>1. Target = {}
  BY DEF KeyInit, Target, Flags
<1>2. <<>> \in Seq(Nat) /\ <<>> \in Seq(Typed)
  OBVIOUS
<1> QED
  BY <1>1, <1>2, DecodesNone DEF KeyInit, KeyInv, Apart

\* The driver reads a byte: what it answers is the character that is next.
LEMMA StepRead ==
  ASSUME KeyInv, KbdProcData
  PROVE  /\ KeyInv'
         /\ LET c == kbd_proc_data(shift, Head(wire)).c
            IN  c # NO => pending # <<>> /\ c = Head(pending)
<1>1. PICK r : r = kbd_proc_data(shift, Head(wire))
  OBVIOUS
<1>2. /\ wire # <<>> /\ wire' = Tail(wire) /\ shift' = r.shift
      /\ pending' = (IF r.c = NO \/ pending = <<>> THEN pending ELSE Tail(pending))
      /\ held' = held /\ caps' = caps
  BY <1>1 DEF KbdProcData
<1>3. /\ r.c = NO => Decodes(Tail(wire), pending, r.shift, Target)
      /\ r.c # NO => /\ pending # <<>> /\ r.c = Head(pending)
                     /\ Decodes(Tail(wire), Tail(pending), r.shift, Target)
  BY <1>1, <1>2, DecodesHead DEF KeyInv
<1>4. Target' = Target
  BY <1>2 DEF Target
<1>5. Decodes(wire', pending', shift', Target')
  BY <1>2, <1>3, <1>4
<1>6. wire' \in Seq(Nat)
  BY <1>2, HeadTailProperties DEF KeyInv
<1>7. pending' \in Seq(Typed)
  BY <1>2, HeadTailProperties DEF KeyInv
<1> QED
  BY <1>1, <1>2, <1>3, <1>5, <1>6, <1>7 DEF KeyInv

\* A key goes down.
LEMMA StepPress ==
  ASSUME KeyInv, NEW k \in Key, Press(k)
  PROVE  KeyInv'
<1>1. k \in AllKeys /\ Code[k] \in Nat
  BY KeysKnown, Codes DEF AllKeys
<1>2. PICK T, V, c : /\ T = Target /\ V = After(T, k) /\ c = MeaningIn(T, k)
  OBVIOUS
<1>3. T \in SUBSET Lasting
  BY <1>2, FlagsAre DEF Target
<1>4. c = Meaning(k) /\ c \in Typed \cup {NO}
  BY <1>1, <1>2, MeaningOf DEF KeyInv, Target
<1>5. IF k \in Extended THEN Does(Esc(T), Code[k], V, c) ELSE Does(T, Code[k], V, c)
  BY <1>1, <1>2, <1>3, BytePress
<1>6. Decodes(wire, pending, shift, T) /\ wire \in Seq(Nat) /\ pending \in Seq(Typed)
  BY <1>2 DEF KeyInv
<1>7. wire' = wire \o (Fake(k, 128) \o Escape(k) \o <<Code[k]>>)
  BY DEF Press, Send
<1>8. wire' \in Seq(Nat) /\ Decodes(wire', pending \o Answer(c), shift, V)
  <2>1. CASE k \notin Extended
    <3>1. Fake(k, 128) = <<>> /\ Escape(k) = <<>>
      BY <2>1 DEF Fake, Escape, Extended
    <3>2. wire' = wire \o <<Code[k]>>
      BY <1>1, <1>7, <3>1, Pieces
    <3> QED BY <1>1, <1>4, <1>5, <1>6, <2>1, <3>2, OneCode
  <2>2. CASE k \in Extended /\ ~(k \in {"up", "del"} /\ Down("SHIFT"))
    <3>1. Fake(k, 128) = <<>> /\ Escape(k) = <<E0>> /\ E0 \in Nat
      BY <2>2 DEF Fake, Escape, E0
    <3>2. wire' = wire \o <<E0, Code[k]>>
      BY SMTT(30), <1>1, <1>7, <3>1, Pieces
    <3> QED BY <1>1, <1>3, <1>4, <1>5, <1>6, <2>2, <3>2, TwoCodes
  <2>3. CASE k \in {"up", "del"} /\ Down("SHIFT")
    <3>1. PICK h \in {"lshift", "rshift"} : h = IF "lshift" \in held THEN "lshift" ELSE "rshift"
      OBVIOUS
    <3>2. PICK a \in Nat : a = Code[h] + 128
      BY Codes
    <3>3. Fake(k, 128) = <<E0, a>> /\ Escape(k) = <<E0>> /\ E0 \in Nat /\ k \in Extended
      BY <2>3, <3>1, <3>2 DEF Fake, Escape, E0, Extended
    <3>4. wire' = wire \o <<E0, a, E0, Code[k]>>
      <4>1. <<E0, a>> \o <<E0>> \o <<Code[k]>> = <<E0, a, E0, Code[k]>>
        BY ZenonT(30), <1>1, <3>3, Pieces
      <4> QED BY <1>7, <3>3, <4>1
    <3>5. Does(Esc(T), a, T, NO)
      BY <1>3, <3>1, <3>2, ByteFake
    <3> QED BY ZenonT(30), <1>1, <1>3, <1>4, <1>5, <1>6, <3>2, <3>3, <3>4, <3>5, FourCodes
  <2> QED BY <2>1, <2>2, <2>3
<1>9. pending' = pending \o Answer(c) /\ pending' \in Seq(Typed)
  <2>1. pending' = IF c = NO THEN pending ELSE Append(pending, c)
    BY <1>4 DEF Press
  <2>2. CASE c = NO
    BY <1>6, <2>1, <2>2, ConcatEmptySeq DEF Answer
  <2>3. CASE c # NO
    BY <1>4, <1>6, <2>1, <2>3, AppendProperties, AppendIsConcat DEF Answer
  <2> QED BY <2>2, <2>3
<1>10. held' = held \cup {k} /\ caps' = (IF k = "caps" THEN ~caps ELSE caps) /\ shift' = shift
  BY DEF Press
<1>11. Target' = V /\ caps' \in BOOLEAN
  <2>1. Target' = Flags(held \cup {k}, IF k = "caps" THEN ~caps ELSE caps)
    BY <1>10 DEF Target
  <2> QED BY ZenonT(30), <1>1, <1>2, <1>10, <2>1, FlagsPress DEF Target, KeyInv
<1>12. Apart(held')
  <2>1. k \in DOMAIN Modifier => \A h \in held \ {k} : h \in DOMAIN Modifier => Modifier[h] # Modifier[k]
    BY DEF Press
  <2> QED BY <1>10, <2>1 DEF Apart, KeyInv
<1> QED
  BY <1>1, <1>8, <1>9, <1>10, <1>11, <1>12 DEF KeyInv

\* A key is let go.
LEMMA StepRelease ==
  ASSUME KeyInv, NEW k \in Key, Release(k)
  PROVE  KeyInv'
<1>1. k \in AllKeys /\ k \in held
  BY KeysKnown DEF Release
<1>2. PICK b \in Nat : b = Code[k] + 128
  BY <1>1, Codes DEF AllKeys
<1>3. PICK T, V : T = Target /\ V = Without(T, k)
  OBVIOUS
<1>4. T \in SUBSET Lasting /\ V \in SUBSET Lasting
  BY <1>3, FlagsAre DEF Target, Without
<1>5. IF k \in Extended THEN Does(Esc(T), b, V, NO) ELSE Does(T, b, V, NO)
  BY <1>1, <1>2, <1>3, <1>4, ByteRelease
<1>6. /\ Decodes(wire, pending, shift, T) /\ wire \in Seq(Nat) /\ pending \in Seq(Typed)
      /\ pending \o Answer(NO) = pending /\ NO \in Typed \cup {NO}
  BY <1>3, ConcatEmptySeq DEF KeyInv, Answer
<1>7. wire' = wire \o (Escape(k) \o <<b>> \o Fake(k, 0))
  BY <1>2 DEF Release, Send
<1>8. wire' \in Seq(Nat) /\ Decodes(wire', pending, shift, V)
  <2>1. CASE k \notin Extended
    <3>1. Fake(k, 0) = <<>> /\ Escape(k) = <<>>
      BY <2>1 DEF Fake, Escape, Extended
    <3>2. wire' = wire \o <<b>>
      BY <1>7, <3>1, Pieces
    <3> QED BY ZenonT(30), <1>5, <1>6, <2>1, <3>2, OneCode
  <2>2. CASE k \in Extended /\ ~(k \in {"up", "del"} /\ Down("SHIFT"))
    <3>1. Fake(k, 0) = <<>> /\ Escape(k) = <<E0>> /\ E0 \in Nat
      BY <2>2 DEF Fake, Escape, E0
    <3>2. wire' = wire \o <<E0, b>>
      BY <1>7, <3>1, Pieces
    <3> QED BY <1>4, <1>5, <1>6, <2>2, <3>2, TwoCodes
  <2>3. CASE k \in {"up", "del"} /\ Down("SHIFT")
    <3>1. PICK h \in {"lshift", "rshift"} : h = IF "lshift" \in held THEN "lshift" ELSE "rshift"
      OBVIOUS
    <3>2. PICK a \in Nat : a = Code[h] + 0
      BY Codes
    <3>3. Fake(k, 0) = <<E0, a>> /\ Escape(k) = <<E0>> /\ E0 \in Nat /\ k \in Extended
      BY <2>3, <3>1, <3>2 DEF Fake, Escape, E0, Extended
    <3>4. wire' = wire \o <<E0, b, E0, a>>
      <4>1. <<E0>> \o <<b>> \o <<E0, a>> = <<E0, b, E0, a>>
        BY <3>3, FourPieces
      <4> QED BY <1>7, <3>3, <4>1
    <3>5. Does(Esc(V), a, V, NO) /\ Does(Esc(T), b, V, NO)
      BY <1>4, <1>5, <3>1, <3>2, <3>3, ByteFake
    <3>6. wire \o <<E0, b, E0, a>> \in Seq(Nat) /\
          Decodes(wire \o <<E0, b, E0, a>>, pending \o Answer(NO), shift, V)
      BY <1>4, <1>6, <3>5, FourCodes
    <3> QED BY <1>6, <3>4, <3>6
  <2> QED BY <2>1, <2>2, <2>3
<1>9. held' = held \ {k} /\ caps' = caps /\ shift' = shift /\ pending' = pending
  BY DEF Release
<1>10. Target' = V
  <2>1. Target' = Flags(held \ {k}, caps)
    BY <1>9 DEF Target
  <2> QED BY <1>1, <1>3, <2>1, FlagsRelease DEF Target, KeyInv
<1>11. Apart(held')
  BY <1>9 DEF Apart, KeyInv
<1> QED
  BY <1>8, <1>9, <1>10, <1>11 DEF KeyInv

\* Every step preserves the invariant, and answers what is due.
LEMMA NextKey ==
  ASSUME KeyInv, [KeyNext]_keyvars
  PROVE  /\ KeyInv'
         /\ wire # <<>> /\ wire' = Tail(wire) =>
              LET c == kbd_proc_data(shift, Head(wire)).c
              IN  c # NO => pending # <<>> /\ c = Head(pending)
<1>1. CASE KbdProcData
  BY <1>1, StepRead
<1>2. ASSUME NEW k \in Key, Press(k) \/ Release(k)
      PROVE  KeyInv'
  BY <1>2, StepPress, StepRelease
<1>3. CASE UNCHANGED keyvars
  BY <1>3 DEF keyvars, KeyInv, Target
<1>4. LET c == kbd_proc_data(shift, Head(wire)).c
      IN  wire # <<>> => (c # NO => pending # <<>> /\ c = Head(pending))
  <2>1. PICK r : r = kbd_proc_data(shift, Head(wire))
    OBVIOUS
  <2> QED BY <2>1, DecodesHead DEF KeyInv
<1> QED
  BY <1>1, <1>2, <1>3, <1>4 DEF KeyNext

\* Once nothing waits, the flags are those that the keys call for.
LEMMA KeyInStep == ASSUME KeyInv PROVE InStep
<1>1. Target = {m \in {"CTL", "SHIFT", "ALT"} : Down(m)} \cup {x \in {"CAPSLOCK"} : caps}
  BY DEF Target, Flags, Down
<1>2. Decodes(wire, pending, shift, Target)
  BY DEF KeyInv
<1>3. wire = <<>> => pending = <<>> /\ shift = Target
  BY <1>2, DecodesNone
<1> QED
  BY <1>1, <1>3 DEF InStep

----------------------------------------------------------------------------
(* Theorems *)

\* kbd_proc_data never loses step with the keyboard, whichever keys are pressed,
\* repeated and let go while bytes wait: once it has read them all no modifier
\* sticks or is lost, and no character is missing.
THEOREM InStepCorrect == KeySpec => []InStep
<1>1. KeyInv /\ [KeyNext]_keyvars => KeyInv'
  BY NextKey
<1>2. KeyInv => InStep
  BY KeyInStep
<1> QED
  BY InitKey, <1>1, <1>2, PTL DEF KeySpec

\* Each character that kbd_proc_data answers is the one its key had when it was
\* pressed, in the order of the keys.
THEOREM DecodedCorrect == KeySpec => DecodedAsTyped
<1>1. KeyInv /\ [KeyNext]_keyvars => KeyInv'
  BY NextKey
<1>2. KeyInv /\ [KeyNext]_keyvars =>
        [wire # <<>> /\ wire' = Tail(wire) =>
           LET c == kbd_proc_data(shift, Head(wire)).c
           IN  c # NO => pending # <<>> /\ c = Head(pending)]_keyvars
  BY NextKey
<1> QED
  BY InitKey, <1>1, <1>2, PTL DEF KeySpec, DecodedAsTyped

----------------------------------------------------------------------------
HIDE KeyboardAssumption
USE ConsoleAssumption

----------------------------------------------------------------------------
(* Characters in a sequence of bytes *)

\* Where the bytes of s are that become characters, and how many those are.
Places(s) == {i \in 1 .. Len(s) : s[i] \in Char}
Chars(s)  == Cardinality(Places(s))

\* What a device delivers.
Byte == SerialChar \cup KeyChar \cup {Mouse}

\* There are finitely many of them.
LEMMA PlacesFinite ==
  ASSUME NEW s \in Seq(Byte)
  PROVE  IsFiniteSet(Places(s)) /\ Chars(s) \in Nat
<1>1. IsFiniteSet(1 .. Len(s))
  BY FS_Interval
<1> QED
  BY <1>1, FS_Subset, FS_CardinalityType DEF Places, Chars

\* No bytes, no characters.
LEMMA CharsEmpty == Chars(<<>>) = 0
<1>1. Places(<<>>) = {}
  BY DEF Places
<1> QED
  BY <1>1, FS_EmptySet DEF Chars

\* A byte more at the end.
LEMMA CharsAppend ==
  ASSUME NEW s \in Seq(Byte), NEW c \in Byte
  PROVE  Chars(Append(s, c)) = Chars(s) + (IF c \in Char THEN 1 ELSE 0)
<1> DEFINE n == Len(s)
<1>1. /\ n \in Nat /\ Len(Append(s, c)) = n + 1
      /\ \A i \in 1 .. n : Append(s, c)[i] = s[i]
      /\ Append(s, c)[n + 1] = c
  OBVIOUS
<1>2. Places(Append(s, c)) = IF c \in Char THEN Places(s) \cup {n + 1} ELSE Places(s)
  BY <1>1 DEF Places
<1>3. IsFiniteSet(Places(s)) /\ n + 1 \notin Places(s) /\ Chars(s) \in Nat
  BY <1>1, PlacesFinite DEF Places
<1>4. Cardinality(Places(s) \cup {n + 1}) = Chars(s) + 1
  BY <1>3, FS_AddElement DEF Chars
<1> QED
  BY <1>2, <1>3, <1>4 DEF Chars

\* A byte less at the front.
LEMMA CharsTail ==
  ASSUME NEW s \in Seq(Byte), s # <<>>
  PROVE  Chars(s) = Chars(Tail(s)) + (IF Head(s) \in Char THEN 1 ELSE 0)
<1> DEFINE T == Places(Tail(s))
           U == Places(s) \ {1}
           f == [i \in T |-> i + 1]
<1>1. /\ Len(s) \in Nat /\ Len(s) > 0 /\ Len(Tail(s)) = Len(s) - 1
      /\ Tail(s) \in Seq(Byte) /\ Head(s) = s[1]
      /\ \A i \in 1 .. Len(s) - 1 : Tail(s)[i] = s[i + 1]
  BY HeadTailProperties, EmptySeq
<1>2. \A i \in T : i \in Nat /\ i + 1 \in U
  BY <1>1 DEF Places
<1>3. \A k \in U : k \in Nat /\ k - 1 \in T /\ (k - 1) + 1 = k
  BY <1>1 DEF Places
<1>4. IsFiniteSet(T) /\ Chars(Tail(s)) \in Nat /\ IsFiniteSet(Places(s)) /\ Chars(s) \in Nat
  BY <1>1, PlacesFinite
<1> HIDE DEF T, U
<1>5. ExistsBijection(T, U)
  <2>1. f \in [T -> U]
    BY <1>2
  <2>2. \A i, j \in T : f[i] = f[j] => i = j
    BY <1>2
  <2>3. \A k \in U : \E i \in T : f[i] = k
    BY <1>3
  <2> HIDE DEF f
  <2>4. f \in Bijection(T, U)
    BY <2>1, <2>2, <2>3 DEF Bijection, Injection, Surjection, IsInjective
  <2> QED BY <2>4 DEF ExistsBijection
<1>6. Cardinality(U) = Chars(Tail(s))
  BY <1>4, <1>5, FS_Bijection DEF Chars, T
<1>7. CASE Head(s) \in Char
  <2>1. 1 \in Places(s)
    BY <1>1, <1>7 DEF Places
  <2>2. Cardinality(U) = Chars(s) - 1
    BY <1>4, <2>1, FS_RemoveElement DEF U, Chars
  <2> QED BY <1>4, <1>6, <1>7, <2>2
<1>8. CASE Head(s) \notin Char
  <2>1. U = Places(s)
    BY <1>1, <1>8 DEF U, Places
  <2> QED BY <1>4, <1>6, <1>8, <2>1 DEF Chars
<1> QED
  BY <1>7, <1>8

----------------------------------------------------------------------------
(* What a poll of the devices can find *)

\* The order of the natural numbers as a relation.
NatLess == {p \in Nat \X Nat : p[1] < p[2]}

\* A set of numbers that has a member has a least one.
LEMMA LeastExists ==
  ASSUME NEW S \in SUBSET Nat, S # {}
  PROVE  \E x \in S : \A y \in S : x <= y
<1>1. IsWellFoundedOn(OpToRel(<, Nat), Nat)
  BY NatLessThanWellFounded
<1>2. OpToRel(<, Nat) = NatLess
  BY DEF OpToRel, NatLess
<1>3. IsWellFoundedOn(NatLess, Nat)
  BY <1>1, <1>2
<1>4. PICK x \in S : \A y \in S : ~ (<<y, x>> \in NatLess)
  BY <1>3, WFMin
<1>5. \A y \in S : x <= y
  <2> SUFFICES ASSUME NEW y \in S, ~ (x <= y) PROVE FALSE
    OBVIOUS
  <2>1. <<y, x>> \in NatLess
    BY DEF NatLess
  <2> QED BY <1>4, <2>1
<1> QED
  BY <1>5

\* The keyboard has a character that no byte of the mouse hides.
Reachable(s) == \E i \in 1 .. Len(s) : s[i] \in Char /\ \A j \in 1 .. i : s[j] # Mouse

\* A character that the devices can be read for is in the receive register, or
\* in the keyboard before any byte of the mouse.
LEMMA ReadableReachable ==
  ASSUME kb \in Seq(KeyChar \cup {Mouse}), rx \in Seq(SerialChar),
         NEW c \in Char, c \in Range(rx \o Readable)
  PROVE  (\E i \in 1 .. Len(rx) : rx[i] \in Char) \/ Reachable(kb)
<1> DEFINE I == {i \in 1 .. Len(kb) : kb[i] = Mouse}
           S == KeyChar \cup {Mouse} \cup SerialChar
<1>0. Len(kb) \in Nat /\ kb \in Seq(S) /\ \A i \in 1 .. Len(kb) : kb[i] \in S
  OBVIOUS
<1>1. Readable = IF I = {} \/ Min(I) = 0 THEN kb ELSE SubSeq(kb, 1, Min(I) - 1)
  BY DEF Readable, SelectInSeq
<1>2. I # {} => Min(I) \in I /\ \A i \in I : Min(I) <= i
  <2> SUFFICES ASSUME I # {} PROVE Min(I) \in I /\ \A i \in I : Min(I) <= i
    OBVIOUS
  <2>1. \E x \in I : \A y \in I : x <= y
    <3>1. I \in SUBSET Nat
      BY <1>0
    <3> HIDE DEF I
    <3> QED BY <3>1, LeastExists
  <2> HIDE DEF I
  <2> QED BY <2>1 DEF Min
<1>3. PICK n \in Nat : /\ Readable \in Seq(S) /\ Len(Readable) = n /\ n <= Len(kb)
                       /\ \A i \in 1 .. n : Readable[i] = kb[i] /\ kb[i] # Mouse
  <2>1. CASE I = {}
    <3>1. Readable = kb /\ Len(kb) \in Nat /\ kb \in Seq(S)
      BY <1>1, <2>1
    <3>2. \A i \in 1 .. Len(kb) : kb[i] # Mouse
      BY <2>1
    <3> QED BY <3>1, <3>2
  <2>2. CASE I # {}
    <3>1. PICK m : m = Min(I)
      OBVIOUS
    <3>2. m \in I /\ \A i \in I : m <= i
      BY <1>2, <2>2, <3>1
    <3>3. m \in 1 .. Len(kb) /\ \A i \in 1 .. m - 1 : kb[i] # Mouse
      BY <1>0, <3>2
    <3>4. Readable = SubSeq(kb, 1, m - 1)
      <4>1. m # 0
        BY <1>0, <3>3
      <4> HIDE DEF I
      <4> QED BY <1>1, <2>2, <3>1, <4>1
    <3>5. /\ SubSeq(kb, 1, m - 1) \in Seq(S) /\ Len(SubSeq(kb, 1, m - 1)) = m - 1
          /\ \A i \in 1 .. m - 1 : SubSeq(kb, 1, m - 1)[i] = kb[i]
      <4> HIDE DEF S
      <4>1. \A i \in 1 .. m - 1 : kb[i] \in S
        BY <1>0, <3>3
      <4> QED BY <1>0, <3>3, <4>1, SubSeqProperties
    <3> HIDE DEF I, S
    <3> QED BY <1>0, <3>3, <3>4, <3>5
  <2> QED BY <2>1, <2>2
<1>4. rx \in Seq(S)
  OBVIOUS
<1> HIDE DEF S, I
<1>5. PICK k \in DOMAIN (rx \o Readable) : c = (rx \o Readable)[k]
  BY DEF Range
<1>6. /\ Len(rx) \in Nat
      /\ k \in 1 .. Len(rx) + n
      /\ c = IF k <= Len(rx) THEN rx[k] ELSE Readable[k - Len(rx)]
  BY <1>3, <1>4, <1>5, ConcatProperties, LenProperties
<1>7. CASE k <= Len(rx)
  BY <1>6, <1>7
<1>8. CASE ~ (k <= Len(rx))
  <2>1. PICK i \in 1 .. n : i = k - Len(rx)
    BY <1>6, <1>8
  <2>2. i \in 1 .. Len(kb) /\ kb[i] = c /\ \A j \in 1 .. i : kb[j] # Mouse
    BY <1>3, <1>6, <1>8, <2>1
  <2> QED BY <2>2 DEF Reachable
<1> QED
  BY <1>7, <1>8

----------------------------------------------------------------------------
(* The circular buffer *)

\* How many characters are in it.
Fill(r, w) == (w + CONSBUFSIZE - r) % CONSBUFSIZE

\* The characters in b from r on, before w.
Content(b, r, w) == [i \in 1 .. Fill(r, w) |-> b[(r + i - 1) % CONSBUFSIZE]]

\* The remainders that indexing the buffer needs.
LEMMA Wrap ==
  ASSUME NEW x \in 0 .. 2 * CONSBUFSIZE - 1
  PROVE  x % CONSBUFSIZE = IF x < CONSBUFSIZE THEN x ELSE x - CONSBUFSIZE
OBVIOUS

\* The number without remainders; it is 0 just when the positions agree.
LEMMA FillIs ==
  ASSUME NEW r \in Pos, NEW w \in Pos
  PROVE  /\ Fill(r, w) = IF r <= w THEN w - r ELSE w + CONSBUFSIZE - r
         /\ Fill(r, w) \in 0 .. CONSBUFSIZE - 1
         /\ Fill(r, w) = 0 <=> r = w
<1>1. w + CONSBUFSIZE - r \in 0 .. 2 * CONSBUFSIZE - 1
  BY DEF Pos
<1>2. Fill(r, w) = IF r <= w THEN w - r ELSE w + CONSBUFSIZE - r
  BY <1>1, Wrap DEF Fill, Pos
<1> QED
  BY <1>2 DEF Pos

\* Advancing a position of cons, and wrapping it, gives a position.
LEMMA NextPos ==
  ASSUME NEW i \in Pos
  PROVE  Next_pos(i) \in Pos
BY DEF Next_pos, Pos

\* cons_intr's store: as long as a place stays free, the content is one
\* character longer.
LEMMA StoreAppends ==
  ASSUME NEW b \in [Pos -> Nat], NEW r \in Pos, NEW w \in Pos, NEW c \in Nat,
         Fill(r, w) + 1 < CONSBUFSIZE
  PROVE  /\ Fill(r, Next_pos(w)) = Fill(r, w) + 1
         /\ Content([b EXCEPT ![w] = c], r, Next_pos(w)) = Append(Content(b, r, w), c)
<1> DEFINE n == Fill(r, w)
           b2 == [b EXCEPT ![w] = c]
<1>1. n \in Nat /\ n = (IF r <= w THEN w - r ELSE w + CONSBUFSIZE - r)
  BY FillIs
<1>2. Fill(r, Next_pos(w)) = n + 1
  <2>1. PICK q \in Pos : q = Next_pos(w)
    BY NextPos
  <2>2. q = IF w + 1 = CONSBUFSIZE THEN 0 ELSE w + 1
    BY <2>1 DEF Next_pos
  <2>3. Fill(r, q) = IF r <= q THEN q - r ELSE q + CONSBUFSIZE - r
    BY FillIs
  <2>4. n + 1 < CONSBUFSIZE
    OBVIOUS
  <2> HIDE DEF n
  <2> QED BY <1>1, <2>1, <2>2, <2>3, <2>4 DEF Pos
<1>3. \A i \in 1 .. n + 1 : (r + i - 1) % CONSBUFSIZE =
         IF r + i - 1 < CONSBUFSIZE THEN r + i - 1 ELSE r + i - 1 - CONSBUFSIZE
  <2> SUFFICES ASSUME NEW i \in 1 .. n + 1
               PROVE  (r + i - 1) % CONSBUFSIZE =
                        IF r + i - 1 < CONSBUFSIZE THEN r + i - 1 ELSE r + i - 1 - CONSBUFSIZE
    OBVIOUS
  <2>1. PICK x \in 0 .. 2 * CONSBUFSIZE - 1 : x = r + i - 1
    BY <1>1 DEF Pos
  <2>2. x % CONSBUFSIZE = IF x < CONSBUFSIZE THEN x ELSE x - CONSBUFSIZE
    BY Wrap
  <2>3. r \in Nat /\ i \in Nat
    BY <1>1 DEF Pos
  <2> HIDE DEF n
  <2> QED BY <2>1, <2>2, <2>3
<1>4. (r + (n + 1) - 1) % CONSBUFSIZE = w
  <2>1. n + 1 \in 1 .. n + 1
    BY <1>1
  <2>2. (r + (n + 1) - 1) % CONSBUFSIZE =
          IF r + (n + 1) - 1 < CONSBUFSIZE THEN r + (n + 1) - 1
          ELSE r + (n + 1) - 1 - CONSBUFSIZE
    BY <1>3, <2>1
  <2> HIDE DEF n
  <2> QED BY <1>1, <2>2 DEF Pos
<1>5. \A i \in 1 .. n : (r + i - 1) % CONSBUFSIZE \in Pos \ {w}
  BY SMTT(30), <1>1, <1>3 DEF Pos
<1> HIDE DEF n
<1>6. \A i \in 1 .. n : b2[(r + i - 1) % CONSBUFSIZE] = b[(r + i - 1) % CONSBUFSIZE]
  BY <1>5
<1>7. Content(b2, r, Next_pos(w)) = [i \in 1 .. n + 1 |-> b2[(r + i - 1) % CONSBUFSIZE]]
  BY <1>2 DEF Content
<1>8. Content(b, r, w) = [i \in 1 .. n |-> b[(r + i - 1) % CONSBUFSIZE]]
  BY DEF Content, n
<1>9. b2[(r + (n + 1) - 1) % CONSBUFSIZE] = c
  BY <1>4
<1> HIDE DEF b2
<1>10. \A i \in 1 .. n + 1 : i \in 1 .. n \/ i = n + 1
  BY <1>1
<1>11. [i \in 1 .. n + 1 |-> b2[(r + i - 1) % CONSBUFSIZE]] = Append(Content(b, r, w), c)
  <2> DEFINE s == Content(b, r, w)
             t == [i \in 1 .. n + 1 |-> b2[(r + i - 1) % CONSBUFSIZE]]
  <2>1. s \in Seq(Nat) /\ Len(s) = n
    BY SMTT(30), <1>1, <1>5, <1>8
  <2>2. \A i \in 1 .. n : s[i] = b[(r + i - 1) % CONSBUFSIZE]
    BY <1>8
  <2>3. \A i \in 1 .. n + 1 : t[i] = b2[(r + i - 1) % CONSBUFSIZE]
    OBVIOUS
  <2>4. t \in Seq(Nat) /\ Len(t) = n + 1
    <3>1. \A i \in 1 .. n + 1 : t[i] \in Nat
      BY <1>5, <1>6, <1>9, <1>10, <2>3
    <3>2. t \in [1 .. n + 1 -> Nat]
      BY <2>3, <3>1
    <3> HIDE DEF t
    <3> QED BY <1>1, <3>2
  <2> HIDE DEF s, t
  <2>5. /\ Append(s, c) \in Seq(Nat) /\ Len(Append(s, c)) = n + 1
        /\ \A i \in 1 .. n : Append(s, c)[i] = s[i]
        /\ Append(s, c)[n + 1] = c
    BY <1>1, <2>1
  <2>6. \A i \in 1 .. n + 1 : t[i] = Append(s, c)[i]
    BY <1>6, <1>9, <1>10, <2>2, <2>3, <2>5
  <2>7. t = Append(s, c)
    BY <2>4, <2>5, <2>6, SeqEqual
  <2> QED BY <2>7 DEF s, t
<1> QED
  BY <1>2, <1>7, <1>11 DEF b2, n

\* cons_getc's read: it takes the first character and leaves the others.
LEMMA FetchTakes ==
  ASSUME NEW b \in [Pos -> Nat], NEW r \in Pos, NEW w \in Pos, r # w
  PROVE  /\ Fill(Next_pos(r), w) = Fill(r, w) - 1
         /\ Content(b, r, w) # <<>>
         /\ Head(Content(b, r, w)) = b[r]
         /\ Tail(Content(b, r, w)) = Content(b, Next_pos(r), w)
<1> DEFINE n == Fill(r, w)
           q == Next_pos(r)
           s == Content(b, r, w)
<1>1. n \in Nat /\ n > 0 /\ n < CONSBUFSIZE /\ n = (IF r <= w THEN w - r ELSE w + CONSBUFSIZE - r)
  BY FillIs
<1>2. q \in Pos /\ q = (IF r + 1 = CONSBUFSIZE THEN 0 ELSE r + 1)
  BY NextPos DEF Next_pos
<1>3. Fill(q, w) = n - 1
  <2>1. Fill(q, w) = IF q <= w THEN w - q ELSE w + CONSBUFSIZE - q
    BY <1>2, FillIs
  <2> HIDE DEF n, q
  <2> QED BY SMTT(30), <1>1, <1>2, <2>1 DEF Pos
<1>4. \A x \in Pos, i \in 1 .. n : (x + i - 1) % CONSBUFSIZE =
         IF x + i - 1 < CONSBUFSIZE THEN x + i - 1 ELSE x + i - 1 - CONSBUFSIZE
  <2> SUFFICES ASSUME NEW x \in Pos, NEW i \in 1 .. n
               PROVE  (x + i - 1) % CONSBUFSIZE =
                        IF x + i - 1 < CONSBUFSIZE THEN x + i - 1 ELSE x + i - 1 - CONSBUFSIZE
    OBVIOUS
  <2>1. PICK y \in 0 .. 2 * CONSBUFSIZE - 1 : y = x + i - 1
    BY <1>1 DEF Pos
  <2>2. y % CONSBUFSIZE = IF y < CONSBUFSIZE THEN y ELSE y - CONSBUFSIZE
    BY Wrap
  <2>3. x \in Nat /\ i \in Nat
    BY <1>1 DEF Pos
  <2> HIDE DEF n
  <2> QED BY <2>1, <2>2, <2>3
<1> HIDE DEF n
<1>5. \A i \in 1 .. n - 1 : (r + (i + 1) - 1) % CONSBUFSIZE = (q + i - 1) % CONSBUFSIZE
  BY SMTT(30), <1>1, <1>2, <1>4 DEF Pos
<1>6. (r + 1 - 1) % CONSBUFSIZE = r
  BY <1>1, <1>4 DEF Pos
<1>7. \A i \in 1 .. n : (r + i - 1) % CONSBUFSIZE \in Pos
  BY <1>1, <1>4 DEF Pos
<1>8. s = [i \in 1 .. n |-> b[(r + i - 1) % CONSBUFSIZE]]
  BY DEF Content, n
<1>9. Content(b, q, w) = [i \in 1 .. n - 1 |-> b[(q + i - 1) % CONSBUFSIZE]]
  BY <1>3 DEF Content
<1>10. s \in Seq(Nat) /\ Len(s) = n /\ \A i \in 1 .. n : s[i] = b[(r + i - 1) % CONSBUFSIZE]
  BY <1>1, <1>7, <1>8
<1> HIDE DEF s, q
<1>11. s # <<>> /\ Head(s) = b[r]
  BY <1>1, <1>6, <1>10
<1>12. Tail(s) \in Seq(Nat) /\ Len(Tail(s)) = n - 1 /\ \A i \in 1 .. n - 1 : Tail(s)[i] = s[i + 1]
  BY <1>10, <1>11, HeadTailProperties
<1>13. \A i \in 1 .. n - 1 : Tail(s)[i] = b[(q + i - 1) % CONSBUFSIZE]
  BY <1>1, <1>5, <1>10, <1>12
<1>14. Tail(s) = [i \in 1 .. n - 1 |-> b[(q + i - 1) % CONSBUFSIZE]]
  <2> DEFINE t == [i \in 1 .. n - 1 |-> b[(q + i - 1) % CONSBUFSIZE]]
  <2>1. \A i \in 1 .. n - 1 : t[i] = Tail(s)[i] /\ t[i] \in Nat
    BY <1>12, <1>13
  <2>2. t \in [1 .. n - 1 -> Nat]
    BY <2>1
  <2> HIDE DEF t
  <2>3. t \in Seq(Nat) /\ Len(t) = n - 1
    BY <1>1, <2>2
  <2>4. t = Tail(s)
    BY <1>12, <2>1, <2>3, SeqEqual
  <2> QED BY <2>4 DEF t
<1> QED
  BY <1>3, <1>9, <1>11, <1>14 DEF n, s, q

----------------------------------------------------------------------------
(* The inductive invariant *)

\* The ranges of the variables.
TypeInv ==
  /\ rx \in Seq(SerialChar) /\ Len(rx) <= 1
  /\ kb \in Seq(KeyChar \cup {Mouse})
  /\ buf \in [Pos -> Nat] /\ rpos \in Pos /\ wpos \in Pos
  /\ pc \in {"getc", "serial", "kbd", "take"}
  /\ typed \in Nat /\ waiting \in Nat

\* A character that waits is in the buffer, in the receive register or in the
\* keyboard, and those that wait leave a place of the buffer free.
Counted ==
  /\ waiting = Fill(rpos, wpos) + Chars(rx) + Chars(kb)
  /\ waiting <= MaxWaiting

\* Once cons_getc was called with something to return, what it has not yet
\* polled holds it, or the buffer does.
Promised ==
  ready => /\ pc = "serial" => \/ rpos # wpos
                               \/ \E i \in 1 .. Len(rx) : rx[i] \in Char
                               \/ Reachable(kb)
           /\ pc = "kbd" => rpos # wpos \/ Reachable(kb)
           /\ pc = "take" => rpos # wpos

\* What every step of the console keeps.
ConsoleInv == TypeInv /\ Counted /\ Promised

\* Bytes that arrive after those that can be reached leave them reachable.
LEMMA ReachableAppend ==
  ASSUME NEW s \in Seq(KeyChar \cup {Mouse}), NEW c \in KeyChar \cup {Mouse}, Reachable(s)
  PROVE  Reachable(Append(s, c))
<1>1. PICK i \in 1 .. Len(s) : s[i] \in Char /\ \A j \in 1 .. i : s[j] # Mouse
  BY DEF Reachable
<1>2. /\ i \in 1 .. Len(Append(s, c))
      /\ \A j \in 1 .. i : Append(s, c)[j] = s[j]
  BY <1>1
<1> QED
  BY <1>1, <1>2 DEF Reachable

\* A byte that cannot be reached is one behind a byte of the mouse, and a byte
\* that is no character leaves the rest reachable when it is read.
LEMMA ReachableTail ==
  ASSUME NEW s \in Seq(KeyChar \cup {Mouse}), Reachable(s)
  PROVE  /\ s # <<>> /\ Head(s) # Mouse
         /\ Head(s) \notin Char => Reachable(Tail(s))
<1>1. PICK i \in 1 .. Len(s) : s[i] \in Char /\ \A j \in 1 .. i : s[j] # Mouse
  BY DEF Reachable
<1>2. s # <<>> /\ Len(s) \in Nat /\ Head(s) = s[1] /\ 1 \in 1 .. i
  BY <1>1
<1>3. ASSUME Head(s) \notin Char PROVE Reachable(Tail(s))
  <2>1. Len(Tail(s)) = Len(s) - 1 /\ \A j \in 1 .. Len(s) - 1 : Tail(s)[j] = s[j + 1]
    BY <1>2, HeadTailProperties
  <2>2. PICK k \in 1 .. Len(Tail(s)) : k + 1 = i
    BY <1>1, <1>2, <1>3, <2>1
  <2>3. Tail(s)[k] = s[i] /\ \A j \in 1 .. k : Tail(s)[j] = s[j + 1] /\ j + 1 \in 1 .. i
    BY <1>2, <2>1, <2>2
  <2> QED BY <1>1, <2>2, <2>3 DEF Reachable
<1> QED
  BY <1>1, <1>2, <1>3

\* Bytes are bytes.
LEMMA ByteTypes ==
  ASSUME TypeInv
  PROVE  /\ rx \in Seq(Byte) /\ kb \in Seq(Byte) /\ <<>> \in Seq(Byte)
         /\ Chars(rx) \in Nat /\ Chars(kb) \in Nat
         /\ \A c \in SerialChar : c \in Char <=> c # 0
         /\ \A c \in KeyChar : c \in Char <=> c # 0
         /\ Mouse \notin Char
<1>1. rx \in Seq(Byte) /\ kb \in Seq(Byte)
  <2>1. SerialChar \subseteq Byte /\ KeyChar \cup {Mouse} \subseteq Byte
    BY DEF Byte
  <2> QED BY <2>1, SeqMonotonic DEF TypeInv
<1>2. Chars(rx) \in Nat /\ Chars(kb) \in Nat
  BY <1>1, PlacesFinite
<1>3. \A c \in SerialChar \cup KeyChar : c \in Char <=> c # 0
  BY DEF Char
<1>4. Mouse \notin Char
  BY DEF Char
<1> QED
  BY <1>1, <1>2, <1>3, <1>4

\* A byte that a device delivers is counted, and hides nothing.
LEMMA SerialReceiveInv ==
  ASSUME ConsoleInv, NEW c \in SerialChar, SerialReceive(c)
  PROVE  ConsoleInv'
<1> USE DEF ConsoleInv, SerialReceive, Type
<1>1. /\ rx = <<>> /\ rx' = <<c>> /\ UNCHANGED <<kb, buf, rpos, wpos, pc, ready>>
      /\ waiting' = IF c = 0 THEN waiting ELSE waiting + 1
      /\ c # 0 => waiting < MaxWaiting
      /\ typed' = typed + 1
  OBVIOUS
<1>2. Chars(rx') = Chars(rx) + (IF c = 0 THEN 0 ELSE 1)
  <2>1. rx' = Append(rx, c) /\ rx \in Seq(Byte) /\ c \in Byte
    BY <1>1, ByteTypes DEF Byte
  <2>2. Chars(rx') = Chars(rx) + (IF c \in Char THEN 1 ELSE 0)
    BY <2>1, CharsAppend
  <2> QED BY <2>2, ByteTypes
<1>3. TypeInv'
  <2>1. rx' \in Seq(SerialChar) /\ Len(rx') <= 1
    BY <1>1
  <2>2. typed' \in Nat /\ waiting' \in Nat
    BY <1>1 DEF TypeInv
  <2> QED BY <1>1, <2>1, <2>2 DEF TypeInv
<1>4. Counted'
  <2>1. Fill(rpos, wpos) \in Nat /\ Chars(rx) \in Nat /\ Chars(kb) \in Nat /\ waiting \in Nat
    BY ByteTypes, FillIs DEF TypeInv
  <2>2. waiting' = Fill(rpos, wpos) + Chars(rx') + Chars(kb)
    BY <1>1, <1>2, <2>1 DEF Counted
  <2> QED BY <1>1, <2>1, <2>2 DEF Counted
<1>5. Promised'
  BY <1>1 DEF Promised
<1> QED
  BY <1>3, <1>4, <1>5

\* The same of a byte that the keyboard controller receives, from the keys or
\* from the mouse.
LEMMA KbAppendInv ==
  ASSUME ConsoleInv, NEW c \in KeyChar \cup {Mouse},
         kb' = Append(kb, c), UNCHANGED <<rx, buf, rpos, wpos, pc, ready>>,
         typed' \in Nat,
         waiting' = IF c \in {0, Mouse} THEN waiting ELSE waiting + 1,
         c \notin {0, Mouse} => waiting < MaxWaiting
  PROVE  ConsoleInv'
<1> USE DEF ConsoleInv
<1>1. Chars(kb') = Chars(kb) + (IF c \in {0, Mouse} THEN 0 ELSE 1)
  <2>1. kb \in Seq(Byte) /\ c \in Byte
    BY ByteTypes DEF Byte
  <2>2. Chars(kb') = Chars(kb) + (IF c \in Char THEN 1 ELSE 0)
    BY <2>1, CharsAppend
  <2> QED BY <2>2, ByteTypes
<1>2. TypeInv'
  <2>1. kb' \in Seq(KeyChar \cup {Mouse})
    BY DEF TypeInv
  <2>2. waiting' \in Nat
    BY DEF TypeInv
  <2> QED BY <2>1, <2>2 DEF TypeInv
<1>3. Counted'
  <2>1. Fill(rpos, wpos) \in Nat /\ Chars(rx) \in Nat /\ Chars(kb) \in Nat /\ waiting \in Nat
    BY ByteTypes, FillIs DEF TypeInv
  <2>2. waiting' = Fill(rpos, wpos) + Chars(rx) + Chars(kb')
    BY <1>1, <2>1 DEF Counted
  <2>3. waiting' <= MaxWaiting
    BY <2>1 DEF Counted
  <2> QED BY <2>2, <2>3 DEF Counted
<1>4. Promised'
  <2>1. Reachable(kb) => Reachable(kb')
    BY ReachableAppend DEF TypeInv
  <2> QED BY <2>1 DEF Promised
<1> QED
  BY <1>2, <1>3, <1>4

\* cons_intr's store of a byte of a device: there is room for it, since it was
\* counted among those that wait.
LEMMA StoreEffect ==
  ASSUME MaxWaiting < CONSBUFSIZE, TypeInv, Counted,
         NEW c \in Nat, store(c), c # 0 => Chars(rx) + Chars(kb) >= 1
  PROVE  /\ buf' \in [Pos -> Nat] /\ wpos' \in Pos
         /\ Fill(rpos, wpos') = Fill(rpos, wpos) + (IF c = 0 THEN 0 ELSE 1)
         /\ Content(buf', rpos, wpos') =
              IF c = 0 THEN Content(buf, rpos, wpos) ELSE Append(Content(buf, rpos, wpos), c)
         /\ rpos # wpos => rpos # wpos'
         /\ c # 0 => rpos # wpos'
<1>1. /\ buf \in [Pos -> Nat] /\ rpos \in Pos /\ wpos \in Pos
      /\ Fill(rpos, wpos) \in Nat /\ Chars(rx) \in Nat /\ Chars(kb) \in Nat
  BY FillIs, ByteTypes DEF TypeInv
<1>2. CASE c = 0
  BY <1>1, <1>2 DEF store
<1>3. CASE c # 0
  <2>1. buf' = [buf EXCEPT ![wpos] = c] /\ wpos' = Next_pos(wpos)
    BY <1>3 DEF store
  <2>2. Fill(rpos, wpos) + 1 < CONSBUFSIZE
    BY <1>1, <1>3 DEF Counted
  <2>3. /\ Fill(rpos, wpos') = Fill(rpos, wpos) + 1
        /\ Content(buf', rpos, wpos') = Append(Content(buf, rpos, wpos), c)
    BY <1>1, <2>1, <2>2, StoreAppends
  <2>4. buf' \in [Pos -> Nat] /\ wpos' \in Pos
    BY <1>1, <2>1, NextPos
  <2>5. rpos # wpos'
    BY <1>1, <2>3, <2>4, FillIs
  <2> QED BY <1>3, <2>3, <2>4, <2>5
<1> QED
  BY <1>2, <1>3

\* The receive register, when it is full.
LEMMA OneByte ==
  ASSUME NEW S, NEW s \in Seq(S), s # <<>>, Len(s) <= 1
  PROVE  Len(s) = 1 /\ s[1] \in S /\ Head(s) = s[1] /\ Tail(s) = <<>>
<1>1. Len(s) \in Nat \ {0}
  BY EmptySeq
<1>2. Len(s) = 1 /\ 1 \in 1 .. Len(s)
  <2>1. PICK n : n = Len(s)
    OBVIOUS
  <2>2. n = 1 /\ 1 \in 1 .. n
    <3>1. n \in Nat \ {0} /\ n <= 1
      BY <1>1, <2>1
    <3> QED BY <3>1
  <2> QED BY <2>1, <2>2
<1>3. s[1] \in S
  BY <1>2, ElementOfSeq
<1>4. Tail(s) \in Seq(S) /\ Len(Tail(s)) = 0
  BY <1>2, HeadTailProperties
<1>5. Tail(s) = <<>>
  BY <1>4, EmptySeq
<1>6. Head(s) = s[1]
  OBVIOUS
<1> QED
  BY <1>2, <1>3, <1>5, <1>6

\* An iteration of cons_intr on the serial port: what it stores, the receive
\* register no longer holds.
LEMMA SerialIntrInv ==
  ASSUME MaxWaiting < CONSBUFSIZE, ConsoleInv, SerialIntr
  PROVE  /\ ConsoleInv'
         /\ UNCHANGED <<rpos, result>>
         /\ \/ Content(buf', rpos, wpos') = Content(buf, rpos, wpos)
            \/ \E c \in Char : Content(buf', rpos, wpos') = Append(Content(buf, rpos, wpos), c)
<1> USE DEF ConsoleInv
<1>1. pc = "serial" /\ UNCHANGED <<kb, rpos, result, typed, waiting, ready>>
  BY DEF SerialIntr
<1>2. CASE rx = <<>> /\ pc' = "kbd" /\ UNCHANGED <<rx, buf, wpos>>
  <2>1. TypeInv' /\ Counted'
    BY <1>1, <1>2 DEF TypeInv, Counted
  <2>2. Promised'
    BY <1>1, <1>2 DEF Promised
  <2> QED BY <1>1, <1>2, <2>1, <2>2
<1>3. CASE rx # <<>> /\ store(rx[1]) /\ rx' = <<>> /\ UNCHANGED pc
  <2>0. /\ rx \in Seq(Byte) /\ rx # <<>> /\ Len(rx) = 1 /\ rx[1] \in SerialChar
        /\ Head(rx) = rx[1] /\ Tail(rx) = <<>>
    <3>1. rx \in Seq(SerialChar) /\ rx \in Seq(Byte) /\ rx # <<>> /\ Len(rx) <= 1
      BY <1>3, ByteTypes DEF TypeInv
    <3> QED BY <3>1, OneByte
  <2>1. PICK c \in SerialChar : c = rx[1] /\ c = Head(rx) /\ Tail(rx) = <<>> /\ Len(rx) = 1
    BY <2>0
  <2>2. c \in Char <=> c # 0
    BY ByteTypes
  <2>3. Chars(rx) = (IF c = 0 THEN 0 ELSE 1) /\ Chars(rx') = 0
    <3>1. Chars(rx) = Chars(<<>>) + (IF c \in Char THEN 1 ELSE 0)
      BY <2>0, <2>1, CharsTail
    <3>2. Chars(rx) = 0 + (IF c \in Char THEN 1 ELSE 0)
      BY <3>1, CharsEmpty
    <3>3. Chars(rx') = 0
      BY <1>3, CharsEmpty
    <3> QED BY <2>2, <3>2, <3>3
  <2>4. Chars(kb) \in Nat /\ Fill(rpos, wpos) \in Nat
    BY ByteTypes, FillIs DEF TypeInv
  <2>5. /\ buf' \in [Pos -> Nat] /\ wpos' \in Pos
        /\ Fill(rpos, wpos') = Fill(rpos, wpos) + (IF c = 0 THEN 0 ELSE 1)
        /\ Content(buf', rpos, wpos') =
             IF c = 0 THEN Content(buf, rpos, wpos) ELSE Append(Content(buf, rpos, wpos), c)
        /\ rpos # wpos => rpos # wpos'
        /\ c # 0 => rpos # wpos'
    BY <1>3, <2>1, <2>3, <2>4, StoreEffect
  <2>6. TypeInv'
    BY <1>1, <1>3, <2>5 DEF TypeInv
  <2>7. Counted'
    BY <1>1, <2>3, <2>4, <2>5 DEF Counted
  <2>8. Promised'
    <3>1. (\E i \in 1 .. Len(rx) : rx[i] \in Char) => rpos # wpos'
      BY <2>1, <2>2, <2>5
    <3> QED BY <1>1, <1>3, <2>5, <3>1 DEF Promised
  <2> QED BY <1>1, <2>2, <2>5, <2>6, <2>7, <2>8
<1> QED
  BY <1>2, <1>3 DEF SerialIntr

\* An iteration of cons_intr on the keyboard.
LEMMA KbdIntrInv ==
  ASSUME MaxWaiting < CONSBUFSIZE, ConsoleInv, KbdIntr
  PROVE  /\ ConsoleInv'
         /\ UNCHANGED <<rpos, result>>
         /\ \/ Content(buf', rpos, wpos') = Content(buf, rpos, wpos)
            \/ \E c \in Char : Content(buf', rpos, wpos') = Append(Content(buf, rpos, wpos), c)
<1> USE DEF ConsoleInv
<1>1. pc = "kbd" /\ UNCHANGED <<rx, rpos, result, typed, waiting, ready>>
  BY DEF KbdIntr, KbdPoll
<1>2. CASE (kb = <<>> \/ Head(kb) = Mouse) /\ pc' = "take" /\ UNCHANGED <<kb, buf, wpos>>
  <2>1. TypeInv' /\ Counted'
    BY <1>1, <1>2 DEF TypeInv, Counted
  <2>2. ~ Reachable(kb)
    BY <1>2, ReachableTail DEF TypeInv
  <2>3. Promised'
    BY <1>1, <1>2, <2>2 DEF Promised
  <2> QED BY <1>1, <1>2, <2>1, <2>3
<1>3. CASE /\ kb # <<>> /\ Head(kb) # Mouse
           /\ store(Head(kb)) /\ kb' = Tail(kb)
           /\ pc' = "kbd"
  <2>1. PICK c \in KeyChar : c = Head(kb)
    <3>1. kb \in Seq(KeyChar \cup {Mouse}) /\ kb # <<>> /\ Head(kb) # Mouse
      BY <1>3 DEF TypeInv
    <3>2. Head(kb) \in KeyChar \cup {Mouse}
      BY <3>1, HeadTailProperties
    <3> QED BY <3>1, <3>2
  <2>2. c \in Char <=> c # 0
    BY ByteTypes
  <2>3. kb' \in Seq(KeyChar \cup {Mouse}) /\ Chars(kb') \in Nat
    <3>1. kb' \in Seq(KeyChar \cup {Mouse}) /\ kb' \in Seq(Byte)
      BY <1>3, ByteTypes, HeadTailProperties DEF TypeInv
    <3> QED BY <3>1, PlacesFinite
  <2>4. Chars(kb) = Chars(kb') + (IF c = 0 THEN 0 ELSE 1)
    BY <1>3, <2>1, <2>2, ByteTypes, CharsTail
  <2>5. Chars(rx) \in Nat /\ Fill(rpos, wpos) \in Nat
    BY ByteTypes, FillIs DEF TypeInv
  <2>6. /\ buf' \in [Pos -> Nat] /\ wpos' \in Pos
        /\ Fill(rpos, wpos') = Fill(rpos, wpos) + (IF c = 0 THEN 0 ELSE 1)
        /\ Content(buf', rpos, wpos') =
             IF c = 0 THEN Content(buf, rpos, wpos) ELSE Append(Content(buf, rpos, wpos), c)
        /\ rpos # wpos => rpos # wpos'
        /\ c # 0 => rpos # wpos'
    <3>1. c \in Nat /\ store(c) /\ (c # 0 => Chars(rx) + Chars(kb) >= 1)
      BY <1>3, <2>1, <2>3, <2>4, <2>5
    <3> QED BY <3>1, StoreEffect
  <2>7. TypeInv'
    BY <1>1, <1>3, <2>3, <2>6 DEF TypeInv
  <2>8. Counted'
    BY <1>1, <2>3, <2>4, <2>5, <2>6 DEF Counted
  <2>9. Promised'
    <3>1. Reachable(kb) => rpos # wpos' \/ Reachable(kb')
      BY <1>3, <2>1, <2>2, <2>6, ReachableTail DEF TypeInv
    <3> QED BY <1>1, <1>3, <2>6, <3>1 DEF Promised
  <2> QED BY <1>1, <2>2, <2>6, <2>7, <2>8, <2>9
<1> QED
  BY <1>2, <1>3 DEF KbdIntr, KbdPoll

\* The end of cons_getc.
LEMMA TakeInv ==
  ASSUME ConsoleInv, Take
  PROVE  /\ ConsoleInv'
         /\ \/ /\ Content(buf, rpos, wpos) # <<>>
               /\ result' = Head(Content(buf, rpos, wpos))
               /\ Content(buf', rpos', wpos') = Tail(Content(buf, rpos, wpos))
            \/ /\ Content(buf, rpos, wpos) = <<>> /\ result' = 0
               /\ Content(buf', rpos', wpos') = Content(buf, rpos, wpos)
<1> USE DEF ConsoleInv
<1>1. /\ pc = "take" /\ pc' = "getc" /\ UNCHANGED <<rx, kb, buf, wpos, typed, ready>>
      /\ buf \in [Pos -> Nat] /\ rpos \in Pos /\ wpos \in Pos
  BY DEF Take, Fetch, TypeInv
<1>2. /\ Fill(rpos, wpos) \in Nat /\ (Fill(rpos, wpos) = 0 <=> rpos = wpos)
      /\ Chars(rx) \in Nat /\ Chars(kb) \in Nat /\ waiting \in Nat
      /\ waiting = Fill(rpos, wpos) + Chars(rx) + Chars(kb) /\ waiting <= MaxWaiting
  BY <1>1, FillIs, ByteTypes DEF Counted, TypeInv
<1>3. Promised'
  BY <1>1 DEF Promised
<1>4. CASE rpos # wpos
  <2>1. result' = buf[rpos] /\ rpos' = Next_pos(rpos) /\ waiting' = waiting - 1
    BY <1>4 DEF Take, Fetch
  <2>2. /\ rpos' \in Pos
        /\ Fill(rpos', wpos) = Fill(rpos, wpos) - 1
        /\ Content(buf, rpos, wpos) # <<>>
        /\ Head(Content(buf, rpos, wpos)) = buf[rpos]
        /\ Tail(Content(buf, rpos, wpos)) = Content(buf, rpos', wpos)
    BY <1>1, <1>4, <2>1, FetchTakes, NextPos
  <2>3. TypeInv'
    <3>1. waiting' \in Nat
      BY <1>2, <1>4, <2>1
    <3>2. /\ rx' = rx /\ kb' = kb /\ buf' = buf /\ wpos' = wpos /\ typed' = typed /\ pc' = "getc"
          /\ rpos' \in Pos
      BY <1>1, <2>2
    <3> QED BY <3>1, <3>2 DEF TypeInv
  <2>4. Counted'
    BY <1>1, <1>2, <2>1, <2>2 DEF Counted
  <2> QED BY <1>1, <1>3, <2>1, <2>2, <2>3, <2>4
<1>5. CASE rpos = wpos
  <2>1. result' = 0 /\ rpos' = rpos /\ waiting' = waiting
    BY <1>5 DEF Take, Fetch
  <2>2. Content(buf, rpos, wpos) = <<>>
    BY <1>2, <1>5 DEF Content
  <2>3. TypeInv' /\ Counted'
    BY <1>1, <2>1 DEF TypeInv, Counted
  <2> QED BY <1>1, <1>3, <2>1, <2>2, <2>3
<1> QED
  BY <1>4, <1>5

\* cons_getc starts: what it has to find is where it is going to look.
LEMMA CallGetcInv ==
  ASSUME ConsoleInv, CallGetc
  PROVE  ConsoleInv'
<1> USE DEF ConsoleInv
<1>1. /\ pc' = "serial" /\ UNCHANGED <<rx, kb, buf, rpos, wpos, typed, waiting>>
      /\ ready' = (rpos # wpos \/ \E c \in Char : c \in Range(rx \o Readable))
  BY DEF CallGetc
<1>2. TypeInv' /\ Counted'
  BY <1>1 DEF TypeInv, Counted
<1>3. ASSUME ready', rpos = wpos
      PROVE  (\E i \in 1 .. Len(rx) : rx[i] \in Char) \/ Reachable(kb)
  <2>1. PICK c \in Char : c \in Range(rx \o Readable)
    BY <1>1, <1>3
  <2>2. kb \in Seq(KeyChar \cup {Mouse}) /\ rx \in Seq(SerialChar)
    BY DEF TypeInv
  <2> QED BY <2>1, <2>2, ReadableReachable
<1>4. Promised'
  BY <1>1, <1>3 DEF Promised
<1> QED
  BY <1>2, <1>4

\* The console before anything is typed.
LEMMA InitConsole ==
  ASSUME Init
  PROVE  ConsoleInv /\ Content(buf, rpos, wpos) = <<>> /\ result = 0
<1>1. /\ rx = <<>> /\ kb = <<>> /\ buf = [i \in Pos |-> 0] /\ rpos = 0 /\ wpos = 0
      /\ pc = "getc" /\ result = 0 /\ typed = 0 /\ waiting = 0 /\ ready = FALSE
  BY DEF Init
<1>2. 0 \in Pos
  BY DEF Pos
<1>3. Fill(rpos, wpos) = 0
  BY <1>1, <1>2, FillIs
<1>4. TypeInv
  <2>1. /\ <<>> \in Seq(SerialChar) /\ Len(<<>>) = 0 /\ <<>> \in Seq(KeyChar \cup {Mouse})
        /\ [i \in Pos |-> 0] \in [Pos -> Nat]
    OBVIOUS
  <2> QED BY <1>1, <1>2, <2>1 DEF TypeInv
<1>5. Counted
  <2>1. Chars(rx) = 0 /\ Chars(kb) = 0
    BY <1>1, CharsEmpty
  <2> QED BY <1>1, <1>3, <2>1 DEF Counted
<1>6. Promised
  BY <1>1 DEF Promised
<1>7. Content(buf, rpos, wpos) = <<>>
  BY <1>3 DEF Content
<1> QED
  BY <1>1, <1>4, <1>5, <1>6, <1>7 DEF ConsoleInv

\* What a step does to what is buffered is what CharQueue lets it do.
LEMMA NextConsole ==
  ASSUME MaxWaiting < CONSBUFSIZE, ConsoleInv, [Next]_vars
  PROVE  /\ ConsoleInv'
         /\ \/ UNCHANGED <<Content(buf, rpos, wpos), result>>
            \/ /\ \E c \in Char : Content(buf, rpos, wpos)' = Append(Content(buf, rpos, wpos), c)
               /\ UNCHANGED result
            \/ /\ Content(buf, rpos, wpos) # <<>>
               /\ result' = Head(Content(buf, rpos, wpos))
               /\ Content(buf, rpos, wpos)' = Tail(Content(buf, rpos, wpos))
            \/ /\ Content(buf, rpos, wpos) = <<>> /\ result' = 0
               /\ UNCHANGED Content(buf, rpos, wpos)
<1>0. Content(buf, rpos, wpos)' = Content(buf', rpos', wpos')
  BY DEF Content, Fill, Pos
<1>1. ASSUME NEW c \in SerialChar, SerialReceive(c)
      PROVE  ConsoleInv' /\ UNCHANGED <<buf, rpos, wpos, result>>
  BY <1>1, SerialReceiveInv DEF SerialReceive, Type
<1>2. ASSUME NEW c \in KeyChar, KeyReceive(c)
      PROVE  ConsoleInv' /\ UNCHANGED <<buf, rpos, wpos, result>>
  <2>1. /\ kb' = Append(kb, c) /\ UNCHANGED <<rx, buf, rpos, wpos, pc, ready, result>>
        /\ typed' = typed + 1 /\ typed \in Nat
        /\ waiting' = IF c = 0 THEN waiting ELSE waiting + 1
        /\ c # 0 => waiting < MaxWaiting
    BY <1>2 DEF KeyReceive, Type, ConsoleInv, TypeInv
  <2>2. c # Mouse
    OBVIOUS
  <2>3. ConsoleInv'
    BY <2>1, <2>2, KbAppendInv
  <2> QED BY <2>1, <2>3
<1>3. ASSUME MouseMove
      PROVE  ConsoleInv' /\ UNCHANGED <<buf, rpos, wpos, result>>
  <2>1. /\ kb' = Append(kb, Mouse) /\ UNCHANGED <<rx, buf, rpos, wpos, pc, ready, result>>
        /\ typed' = typed /\ typed \in Nat /\ waiting' = waiting
    BY <1>3 DEF MouseMove, ConsoleInv, TypeInv
  <2>2. ConsoleInv'
    BY <2>1, KbAppendInv
  <2> QED BY <2>1, <2>2
<1>4. ASSUME CallGetc
      PROVE  ConsoleInv' /\ UNCHANGED <<buf, rpos, wpos, result>>
  BY <1>4, CallGetcInv DEF CallGetc
<1>5. ASSUME UNCHANGED vars
      PROVE  ConsoleInv' /\ UNCHANGED <<buf, rpos, wpos, result>>
  BY <1>5 DEF vars, ConsoleInv, TypeInv, Counted, Promised
<1>6. CASE UNCHANGED <<buf, rpos, wpos, result>> /\ ConsoleInv'
  <2>1. Content(buf', rpos', wpos') = Content(buf, rpos, wpos)
    BY <1>6
  <2> QED BY <1>0, <1>6, <2>1
<1>7. CASE SerialIntr
  BY <1>0, <1>7, SerialIntrInv
<1>8. CASE KbdIntr
  BY <1>0, <1>8, KbdIntrInv
<1>9. CASE Take
  BY <1>0, <1>9, TakeInv
<1>10. CASE Next
  BY <1>1, <1>2, <1>3, <1>4, <1>6, <1>7, <1>8, <1>9, <1>10 DEF Next, KernelStep
<1> QED
  BY <1>5, <1>6, <1>10

----------------------------------------------------------------------------
(* Theorems *)

\* A character that was typed and not read is in one of three places, and what
\* a call of cons_getc had to find it does not lose on its way from one to the
\* next: cons_intr, the device handlers and cons_getc keep the invariant.
THEOREM ConsoleInvariance ==
  ASSUME MaxWaiting < CONSBUFSIZE
  PROVE  Spec => []ConsoleInv
<1>1. Init => ConsoleInv
  BY InitConsole
<1>2. ConsoleInv /\ [Next]_vars => ConsoleInv'
  BY NextConsole
<1> QED
  BY <1>1, <1>2, PTL DEF Spec

\* "return the next input character from the console, or 0 if none waiting":
\* cons_getc finds what the devices had delivered when it was called.
THEOREM ZeroOnlyWhenNone ==
  ASSUME MaxWaiting < CONSBUFSIZE
  PROVE  Spec => []ZeroMeansNone
<1>1. ConsoleInv => ZeroMeansNone
  BY DEF ConsoleInv, Promised, ZeroMeansNone
<1> QED
  BY <1>1, ConsoleInvariance, PTL

\* cons.buf, rpos and wpos are a queue: no character that serial_intr or
\* kbd_intr stored is lost, repeated or overtaken before cons_getc reads it.
THEOREM BufferIsQueue ==
  ASSUME MaxWaiting < CONSBUFSIZE
  PROVE  Spec => ImplementsQueue
<1>1. Buffered = Content(buf, rpos, wpos)
  BY DEF Buffered, Content, Fill
<1>2. Init => Q!QInit
  BY <1>1, InitConsole DEF Q!QInit
<1>3. ConsoleInv /\ [Next]_vars => [Q!QNext]_(Q!qVars)
  <2> SUFFICES ASSUME ConsoleInv, [Next]_vars PROVE [Q!QNext]_(Q!qVars)
    OBVIOUS
  <2>1. Buffered' = Content(buf, rpos, wpos)'
    BY DEF Buffered, Content, Fill
  <2> QED
    BY <1>1, <2>1, NextConsole DEF Q!QNext, Q!qVars, Q!Put, Q!Get, Q!GetNone
<1> QED
  BY <1>2, <1>3, ConsoleInvariance, PTL DEF Spec, ImplementsQueue, Q!QSpec
=============================================================================
