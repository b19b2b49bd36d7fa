------------------------------ MODULE TrapProofs ------------------------------
(***************************************************************************)
(* Proofs about traps, for any program, any exceptions of it and of the    *)
(* kernel and any system calls: the frame that trap_dispatch looks at      *)
(* describes the trap that happened, an environment continues with the     *)
(* registers it had, and a trap of the kernel's own code is the end.       *)
(***************************************************************************)
EXTENDS Trap, SequenceTheorems, TLAPS

USE TrapAssumption

----------------------------------------------------------------------------
(* Where the words of a frame are *)

\* The words of memory and of the registers.
Name == Reg \cup Syscallno
          \cup {"GD_UT|3", "GD_UD|3", "GD_KT", "GD_KD", "kernel",
                "trapno", "err", "idt", "none", "oesp", "0",
                "env_id", "stale", "a2", "a3", "a4", "a5", "char", "-E_INVAL"}
Word == Name \X Nat

\* The structure's fields, by their offsets.
LEMMA FieldIs ==
  ASSUME NEW f
  PROVE  /\ Field(f, "edi") = f[1]  /\ Field(f, "esi") = f[2]  /\ Field(f, "ebp") = f[3]
         /\ Field(f, "ebx") = f[5]  /\ Field(f, "edx") = f[6]  /\ Field(f, "ecx") = f[7]
         /\ Field(f, "eax") = f[8]  /\ Field(f, "es") = f[9]   /\ Field(f, "ds") = f[10]
         /\ Field(f, "trapno") = f[11] /\ Field(f, "err") = f[12]
         /\ Field(f, "eip") = f[13] /\ Field(f, "cs") = f[14]  /\ Field(f, "eflags") = f[15]
         /\ Field(f, "esp") = f[16] /\ Field(f, "ss") = f[17]
<1>1. DOMAIN Layout = 1 .. 17
  BY DEF Layout
<1>2. \A i, j \in 1 .. 17 : Layout[i] = Layout[j] => i = j
  BY DEF Layout
<1>3. \A i \in 1 .. 17 : Field(f, Layout[i]) = f[i]
  <2> SUFFICES ASSUME NEW i \in 1 .. 17 PROVE Field(f, Layout[i]) = f[i]
    OBVIOUS
  <2>1. (CHOOSE j \in DOMAIN Layout : Layout[j] = Layout[i]) = i
    BY <1>1, <1>2
  <2> QED BY <2>1 DEF Field
<1>4. /\ Layout[1] = "edi"  /\ Layout[2] = "esi"  /\ Layout[3] = "ebp" /\ Layout[5] = "ebx"
      /\ Layout[6] = "edx"  /\ Layout[7] = "ecx"  /\ Layout[8] = "eax" /\ Layout[9] = "es"
      /\ Layout[10] = "ds"  /\ Layout[11] = "trapno" /\ Layout[12] = "err"
      /\ Layout[13] = "eip" /\ Layout[14] = "cs" /\ Layout[15] = "eflags"
      /\ Layout[16] = "esp" /\ Layout[17] = "ss"
  BY DEF Layout
<1> QED
  BY <1>3, <1>4

\* The registers' names.
LEMMA RegIs ==
  Reg = {"edi", "esi", "ebp", "ebx", "edx", "ecx", "eax", "es", "ds", "eip", "cs", "eflags", "esp", "ss"}
BY DEF Reg, Pushed

\* What a trap pushes, below the old stack.
Pushes(r, v, e) ==
  <<r.eflags, r.cs, r.eip, e, <<"trapno", v>>, r.ds, r.es, r.eax, r.ecx, r.edx, r.ebx,
    W("oesp"), r.ebp, r.esi, r.edi>>

\* The frame f says that the code with the registers r took the trap v with
\* the error code e.
Holds(f, r, v, e) ==
  /\ Field(f, "trapno") = <<"trapno", v>> /\ Field(f, "err") = e
  /\ \A name \in Reg \ {"esp", "ss"} : Field(f, name) = r[name]

\* A stack and what a trap adds to it.
Pushed_on(s, r, v, e) == s \in Seq(Word) /\ r \in [Reg -> Word] /\ v \in Nat /\ e \in Word

\* The kernel finds it so in what was pushed, whatever was on the stack.
LEMMA PushesHold ==
  ASSUME NEW s, NEW r, NEW v, NEW e, Pushed_on(s, r, v, e)
  PROVE  /\ s \o Pushes(r, v, e) \in Seq(Word)
         /\ Holds(Reverse(s \o Pushes(r, v, e)), r, v, e)
         /\ Reverse(s \o Pushes(r, v, e)) \in Seq(Word)
         /\ Len(Reverse(s \o Pushes(r, v, e))) = Len(s) + 15
         /\ \A k \in 1 .. Len(s) : Reverse(s \o Pushes(r, v, e))[15 + k] = s[Len(s) - k + 1]
<1> DEFINE p == Pushes(r, v, e)
           t == s \o p
           f == Reverse(t)
<1> USE DEF Pushed_on
<1>1. W("oesp") \in Word /\ <<"trapno", v>> \in Word
  BY DEF W, Word, Name
<1>2. \A name \in Reg : r[name] \in Word
  OBVIOUS
<1>3. p \in Seq(Word) /\ Len(p) = 15
  <2> HIDE DEF Word
  <2> QED BY <1>1, <1>2, RegIs DEF Pushes
<1>4. /\ p[1] = r.eflags /\ p[2] = r.cs /\ p[3] = r.eip /\ p[4] = e /\ p[5] = <<"trapno", v>>
      /\ p[6] = r.ds /\ p[7] = r.es /\ p[8] = r.eax /\ p[9] = r.ecx /\ p[10] = r.edx
      /\ p[11] = r.ebx /\ p[13] = r.ebp /\ p[14] = r.esi /\ p[15] = r.edi
  BY DEF Pushes
<1> HIDE DEF p
<1> HIDE DEF Word
<1>0. PICK n \in Nat : n = Len(s)
  OBVIOUS
<1>5. /\ t \in Seq(Word) /\ Len(t) = n + 15
      /\ \A k \in 1 .. n : t[k] = s[k]
      /\ \A k \in 1 .. 15 : t[n + k] = p[k]
  <2>1. /\ t \in Seq(Word) /\ Len(t) = n + 15
        /\ \A k \in 1 .. n + 15 : t[k] = IF k <= n THEN s[k] ELSE p[k - n]
    <3>1. /\ t \in Seq(Word) /\ Len(t) = Len(s) + Len(p)
          /\ \A k \in 1 .. Len(s) + Len(p) :
                t[k] = IF k <= Len(s) THEN s[k] ELSE p[k - Len(s)]
      BY ZenonT(30), <1>3, ConcatProperties
    <3> HIDE DEF t
    <3> QED BY <1>0, <1>3, <3>1
  <2> HIDE DEF t
  <2>2. \A k \in 1 .. n : t[k] = s[k]
    BY <2>1
  <2>3. \A k \in 1 .. 15 : t[n + k] = p[k]
    <3> SUFFICES ASSUME NEW k \in 1 .. 15 PROVE t[n + k] = p[k]
      OBVIOUS
    <3>1. n + k \in 1 .. n + 15 /\ ~ (n + k <= n) /\ n + k - n = k
      OBVIOUS
    <3> QED BY <2>1, <3>1
  <2> QED BY <2>1, <2>2, <2>3
<1> HIDE DEF t
<1>6. f = [i \in 1 .. n + 15 |-> t[n + 15 - i + 1]]
  BY <1>5 DEF Reverse
<1>7. f \in Seq(Word) /\ Len(f) = n + 15
  <2>1. \A i \in 1 .. n + 15 : t[n + 15 - i + 1] \in Word
    <3> SUFFICES ASSUME NEW i \in 1 .. n + 15 PROVE t[n + 15 - i + 1] \in Word
      OBVIOUS
    <3>1. n + 15 - i + 1 \in 1 .. Len(t)
      BY <1>5
    <3> QED BY <1>5, <3>1, ElementOfSeq
  <2> QED BY <1>6, <2>1
<1>8. \A i \in 1 .. 15 : f[i] = p[16 - i]
  <2> SUFFICES ASSUME NEW i \in 1 .. 15 PROVE f[i] = p[16 - i]
    OBVIOUS
  <2>1. i \in 1 .. n + 15 /\ n + 15 - i + 1 = n + (16 - i) /\ 16 - i \in 1 .. 15
    OBVIOUS
  <2> HIDE DEF f
  <2> QED BY <1>5, <1>6, <2>1
<1>9. \A k \in 1 .. n : f[15 + k] = s[n - k + 1]
  <2> SUFFICES ASSUME NEW k \in 1 .. n PROVE f[15 + k] = s[n - k + 1]
    OBVIOUS
  <2>1. /\ 15 + k \in 1 .. n + 15 /\ n + 15 - (15 + k) + 1 = n - k + 1
        /\ n - k + 1 \in 1 .. n
    OBVIOUS
  <2> HIDE DEF f
  <2> QED BY <1>5, <1>6, <2>1
<1> HIDE DEF f
<1>10. /\ f[1] = r.edi /\ f[2] = r.esi /\ f[3] = r.ebp /\ f[5] = r.ebx /\ f[6] = r.edx
       /\ f[7] = r.ecx /\ f[8] = r.eax /\ f[9] = r.es /\ f[10] = r.ds
       /\ f[11] = <<"trapno", v>> /\ f[12] = e /\ f[13] = r.eip /\ f[14] = r.cs /\ f[15] = r.eflags
  BY <1>4, <1>8
<1>11. Holds(f, r, v, e)
  <2>1. Field(f, "trapno") = <<"trapno", v>> /\ Field(f, "err") = e
    BY <1>10, FieldIs
  <2>2. ASSUME NEW name \in Reg \ {"esp", "ss"} PROVE Field(f, name) = r[name]
    BY <1>10, FieldIs, RegIs
  <2> QED BY <2>1, <2>2 DEF Holds
<1> QED
  BY <1>0, <1>5, <1>7, <1>9, <1>11 DEF f, t, p

----------------------------------------------------------------------------
(* Entering the kernel *)

\* The vectors that have gates.
LEMMA GateIs ==
  /\ DOMAIN gate = ((0 .. 16) \ {2, 15}) \cup {48}
  /\ \A v \in DOMAIN gate : gate[v] = 0 <=> v \notin {3, 48}
BY DEF gate

\* The vector that a trap ends up with and its error code are those that it
\* should have, and the stub pushes a 0 just when the processor has pushed no
\* error code.
LEMMA VectorIs ==
  ASSUME NEW k \in {"int", "fault", "kernel"}, NEW v \in Nat, NEW err \in Word,
         NEW r, k = "int" => FromUser(r),
         k # "int" => err = W("err")
  PROVE  LET x == Vector(v, err, k = "int", r)
             e == Expected([kind |-> k, n |-> v, err |-> err])
         IN  /\ x.v = e[1] /\ x.v \in Nat /\ e[2] \in Word
             /\ \/ x.err = W("none") /\ e[2] = W("0") /\ x.v \notin {8, 10, 11, 12, 13, 14}
                \/ x.err # W("none") /\ e[2] = x.err /\ x.v \in {8, 10, 11, 12, 13, 14}
<1> DEFINE soft == (k = "int")
           c == [kind |-> k, n |-> v, err |-> err]
<1>1. c.kind = k /\ c.n = v /\ c.err = err
  OBVIOUS
<1>2. W("none") \in Word /\ W("0") \in Word /\ <<"idt", v>> \in Word /\ <<"idt", v>> # W("none")
      /\ W("err") # W("none")
  BY DEF W, Word, Name
<1>3. CASE v \notin DOMAIN gate \/ (soft /\ gate[v] = 0)
  <2>1. Vector(v, err, soft, r) = [v |-> 13, err |-> <<"idt", v>>]
    BY <1>3 DEF Vector
  <2>2. (k = "int" /\ v \notin {3, 48}) \/ v \notin DOMAIN gate
    BY <1>3, GateIs
  <2>3. Expected(c) = <<13, <<"idt", v>> >>
    BY <1>1, <2>2 DEF Expected
  <2> HIDE DEF c
  <2> QED BY <1>2, <2>1, <2>3 DEF c
<1>4. CASE v \in DOMAIN gate /\ ~ (soft /\ gate[v] = 0)
  <2>1. Vector(v, err, soft, r) = [v |-> v, err |-> IF v \in HasErr /\ ~soft THEN err ELSE W("none")]
    BY <1>4 DEF Vector
  <2>2. soft => v \in {3, 48}
    BY <1>4, GateIs
  <2>3. v \in HasErr => ~soft /\ v \in {8, 10, 11, 12, 13, 14}
    BY <1>4, <2>2, GateIs DEF HasErr
  <2>4. v \in {8, 10, 11, 12, 13, 14} => v \in HasErr
    BY DEF HasErr
  <2>5. Expected(c) = <<v, IF v \in HasErr THEN err ELSE W("0")>>
    BY <1>1, <1>4, <2>2 DEF Expected
  <2> HIDE DEF c
  <2> QED BY <1>2, <2>1, <2>3, <2>4, <2>5 DEF c
<1> QED
  BY <1>3, <1>4

\* Associativity, for stacks.
LEMMA Assoc ==
  ASSUME NEW s \in Seq(Word), NEW t \in Seq(Word), NEW u \in Seq(Word)
  PROVE  (s \o t) \o u = s \o (t \o u)
OBVIOUS

\* The words of u are those of s, then those of t.
Joins(s, t, u) ==
  /\ s \in Seq(Word) /\ t \in Seq(Word) /\ u \in Seq(Word) /\ Len(u) = Len(s) + Len(t)
  /\ \A i \in 1 .. Len(u) : u[i] = IF i <= Len(s) THEN s[i] ELSE t[i - Len(s)]

\* They are the concatenation.
LEMMA Joined ==
  ASSUME NEW s, NEW t, NEW u, Joins(s, t, u)
  PROVE  s \o t = u
<1> USE DEF Joins
<1> HIDE DEF Word
<1>1. /\ s \o t \in Seq(Word) /\ Len(s \o t) = Len(s) + Len(t)
      /\ \A i \in 1 .. Len(s) + Len(t) : (s \o t)[i] = IF i <= Len(s) THEN s[i] ELSE t[i - Len(s)]
  BY ConcatProperties
<1>2. \A i \in 1 .. Len(s) + Len(t) : (s \o t)[i] = u[i]
  BY <1>1
<1> QED
  BY <1>1, <1>2, SeqEqual

\* The processor enters the kernel for the cause c, with the registers r.
Enters(c, r) ==
  /\ stack \in Seq(Word) /\ r \in [Reg -> Word]
  /\ c \in [kind : {"int", "fault", "kernel"}, n : Nat, err : Word]
  /\ c.kind = "int" => FromUser(r)
  /\ c.kind # "int" => c.err = W("err")
  /\ Enter(c.n, c.err, c.kind = "int", r)

\* So the stack holds a frame, and below it what was there in the kernel, or
\* the user's stack pointer.
LEMMA EnterPushes ==
  ASSUME NEW c, NEW r, Enters(c, r)
  PROVE  \E e \in Nat \X Word, s \in Seq(Word) :
            /\ e = Expected(c)
            /\ s = IF FromUser(r) THEN <<r.ss, r.esp>> ELSE stack
            /\ stack' = s \o Pushes(r, e[1], e[2])
<1>0. PICK k \in {"int", "fault", "kernel"}, v \in Nat, err \in Word :
         c = [kind |-> k, n |-> v, err |-> err]
  BY DEF Enters
<1>00. /\ stack \in Seq(Word) /\ r \in [Reg -> Word]
       /\ k = "int" => FromUser(r)
       /\ k # "int" => err = W("err")
       /\ Enter(v, err, k = "int", r)
  BY <1>0 DEF Enters
<1>1. PICK x : x = Vector(v, err, k = "int", r)
  OBVIOUS
<1>2. PICK e : e = Expected(c)
  OBVIOUS
<1>3. /\ x.v = e[1] /\ x.v \in Nat /\ e[2] \in Word
      /\ \/ x.err = W("none") /\ e[2] = W("0") /\ x.v \notin {8, 10, 11, 12, 13, 14}
         \/ x.err # W("none") /\ e[2] = x.err /\ x.v \in {8, 10, 11, 12, 13, 14}
  BY <1>0, <1>00, <1>1, <1>2, VectorIs
<1>4. e \in Nat \X Word
  BY <1>2, <1>3 DEF Expected
<1>5. PICK s : s = IF FromUser(r) THEN <<r.ss, r.esp>> ELSE stack
  OBVIOUS
<1>6. /\ \A name \in Reg : r[name] \in Word
      /\ "ss" \in Reg /\ "esp" \in Reg /\ "eflags" \in Reg /\ "cs" \in Reg /\ "eip" \in Reg
      /\ "ds" \in Reg /\ "es" \in Reg /\ "eax" \in Reg /\ "ecx" \in Reg /\ "edx" \in Reg
      /\ "ebx" \in Reg /\ "ebp" \in Reg /\ "esi" \in Reg /\ "edi" \in Reg
  BY <1>00, RegIs
<1>7. W("0") \in Word /\ W("oesp") \in Word /\ <<"trapno", e[1]>> \in Word
  BY <1>3 DEF W, Word, Name
<1> HIDE DEF Word
<1>8. s \in Seq(Word)
  BY <1>00, <1>5, <1>6
<1>9. stack' = s \o Pushes(r, e[1], e[2])
  <2> DEFINE a == <<r.eflags, r.cs, r.eip>>
             b == IF x.err = W("none") THEN <<>> ELSE <<x.err>>
             z == IF x.v \in {8, 10, 11, 12, 13, 14} THEN <<>> ELSE <<W("0")>>
             t == << <<"trapno", x.v>> >>
             d == alltraps(r)
  <2>1. stack' = ((((s \o a) \o b) \o (z \o t)) \o d)
    BY <1>00, <1>1, <1>5 DEF Enter, hw_frame, stub
  <2>2. /\ a \in Seq(Word) /\ b \in Seq(Word) /\ z \in Seq(Word) /\ t \in Seq(Word)
        /\ d \in Seq(Word)
    BY <1>3, <1>6, <1>7 DEF alltraps
  <2>3. b \o z = <<e[2]>>
    <3>1. CASE x.err = W("none")
      <4>1. b = <<>> /\ z = <<e[2]>>
        BY <1>3, <3>1
      <4> HIDE DEF b, z
      <4> QED BY <4>1
    <3>2. CASE x.err # W("none")
      <4>1. b = <<e[2]>> /\ z = <<>>
        BY <1>3, <3>2
      <4> HIDE DEF b, z
      <4> QED BY <4>1
    <3> QED BY <3>1, <3>2
  <2>4. (((a \o (b \o z)) \o t) \o d) = Pushes(r, e[1], e[2])
    <3> DEFINE a4 == <<r.eflags, r.cs, r.eip, e[2]>>
               a5 == <<r.eflags, r.cs, r.eip, e[2], <<"trapno", e[1]>> >>
               p  == Pushes(r, e[1], e[2])
    <3>0. /\ a4 \in Seq(Word) /\ a5 \in Seq(Word) /\ p \in Seq(Word) /\ <<e[2]>> \in Seq(Word)
          /\ d \in Seq(Word) /\ t \in Seq(Word) /\ a \in Seq(Word)
      BY <1>3, <1>6, <1>7, <2>2 DEF Pushes
    <3>1. a \o <<e[2]>> = a4
      <4>1. Joins(a, <<e[2]>>, a4)
        <5>1. /\ Len(a) = 3 /\ Len(<<e[2]>>) = 1 /\ Len(a4) = 4
              /\ a4[1] = a[1] /\ a4[2] = a[2] /\ a4[3] = a[3] /\ a4[4] = <<e[2]>>[1]
          OBVIOUS
        <5> HIDE DEF a, a4
        <5> QED BY <3>0, <5>1 DEF Joins
      <4> HIDE DEF a, a4
      <4> QED BY <4>1, Joined
    <3>2. a4 \o t = a5
      <4>1. Joins(a4, t, a5)
        <5>1. /\ Len(a4) = 4 /\ Len(t) = 1 /\ Len(a5) = 5
              /\ a5[1] = a4[1] /\ a5[2] = a4[2] /\ a5[3] = a4[3] /\ a5[4] = a4[4] /\ a5[5] = t[1]
          BY <1>3
        <5> HIDE DEF a4, a5, t
        <5> QED BY <3>0, <5>1 DEF Joins
      <4> HIDE DEF a4, a5, t
      <4> QED BY <4>1, Joined
    <3>3. a5 \o d = p
      <4>1. Joins(a5, d, p)
        <5>1. /\ Len(a5) = 5 /\ Len(d) = 10 /\ Len(p) = 15
              /\ p[1] = a5[1] /\ p[2] = a5[2] /\ p[3] = a5[3] /\ p[4] = a5[4] /\ p[5] = a5[5]
              /\ p[6] = d[1] /\ p[7] = d[2] /\ p[8] = d[3] /\ p[9] = d[4] /\ p[10] = d[5]
              /\ p[11] = d[6] /\ p[12] = d[7] /\ p[13] = d[8] /\ p[14] = d[9] /\ p[15] = d[10]
          BY <1>3 DEF Pushes, alltraps
        <5> HIDE DEF a5, d, p
        <5> QED BY <3>0, <5>1 DEF Joins
      <4> HIDE DEF a5, d, p
      <4> QED BY <4>1, Joined
    <3> HIDE DEF a, b, z, t, d, a4, a5
    <3> QED BY <2>3, <3>1, <3>2, <3>3
  <2> HIDE DEF a, b, z, t, d
  <2>5. /\ s \o a \in Seq(Word) /\ b \o z \in Seq(Word) /\ z \o t \in Seq(Word)
        /\ a \o (b \o z) \in Seq(Word) /\ (a \o (b \o z)) \o t \in Seq(Word)
        /\ (s \o a) \o b \in Seq(Word) /\ a \o b \in Seq(Word) /\ b \o (z \o t) \in Seq(Word)
    BY <1>8, <2>2
  <2>6. ((s \o a) \o b) \o (z \o t) = s \o ((a \o (b \o z)) \o t)
    <3>1. ((s \o a) \o b) \o (z \o t) = (s \o a) \o (b \o (z \o t))
      <4>1. PICK q \in Seq(Word) : q = s \o a
        BY <2>5
      <4>2. PICK u \in Seq(Word) : u = z \o t
        BY <2>5
      <4>3. (q \o b) \o u = q \o (b \o u)
        BY <2>2
      <4> QED BY <4>1, <4>2, <4>3
    <3>2. b \o (z \o t) = (b \o z) \o t
      BY <2>2
    <3>3. (s \o a) \o ((b \o z) \o t) = s \o (a \o ((b \o z) \o t))
      BY SMTT(30), <1>8, <2>2, <2>5, <3>2
    <3>4. a \o ((b \o z) \o t) = (a \o (b \o z)) \o t
      BY SMTT(30), <2>2, <2>5
    <3> QED BY <3>1, <3>2, <3>3, <3>4
  <2>7. (s \o ((a \o (b \o z)) \o t)) \o d = s \o (((a \o (b \o z)) \o t) \o d)
    <3>1. PICK u \in Seq(Word) : u = (a \o (b \o z)) \o t
      BY <2>5
    <3>2. (s \o u) \o d = s \o (u \o d)
      BY <1>8, <2>2
    <3> QED BY <3>1, <3>2
  <2> QED BY <2>1, <2>4, <2>6, <2>7
<1> QED
  BY <1>2, <1>4, <1>5, <1>8, <1>9

\* The frame f says that c happened, when the user's registers were w, and
\* where the user's stack is.
Tells(f, c, w) ==
  /\ Holds(f, IF c.kind = "kernel" THEN KernelRegs ELSE w, Expected(c)[1], Expected(c)[2])
  /\ c.kind # "kernel" => /\ Len(f) = 17
                          /\ Field(f, "esp") = w.esp /\ Field(f, "ss") = w.ss

\* The frame that the kernel finds when it is entered does.
LEMMA EnterTells ==
  ASSUME NEW c, NEW r, NEW w, Enters(c, r),
         IF c.kind = "kernel" THEN r = KernelRegs ELSE FromUser(r) /\ w = r
  PROVE  /\ stack' \in Seq(Word) /\ StackFrame' \in Seq(Word)
         /\ Tells(StackFrame', c, w)
<1>1. PICK e \in Nat \X Word, s \in Seq(Word) :
         /\ e = Expected(c)
         /\ s = IF FromUser(r) THEN <<r.ss, r.esp>> ELSE stack
         /\ stack' = s \o Pushes(r, e[1], e[2])
  BY EnterPushes
<1>2. PICK f : f = Reverse(stack')
  OBVIOUS
<1> HIDE DEF Word
<1>3. /\ stack' \in Seq(Word) /\ f \in Seq(Word) /\ Holds(f, r, e[1], e[2])
      /\ Len(f) = Len(s) + 15
      /\ \A j \in 1 .. Len(s) : f[15 + j] = s[Len(s) - j + 1]
  <2>1. Pushed_on(s, r, e[1], e[2])
    BY DEF Pushed_on, Enters
  <2>2. PICK t, v, x : v = e[1] /\ x = e[2] /\ t = s \o Pushes(r, v, x)
    OBVIOUS
  <2>3. /\ t \in Seq(Word) /\ Holds(Reverse(t), r, v, x) /\ Reverse(t) \in Seq(Word)
        /\ Len(Reverse(t)) = Len(s) + 15
        /\ \A j \in 1 .. Len(s) : Reverse(t)[15 + j] = s[Len(s) - j + 1]
    <3>1. Pushed_on(s, r, v, x)
      BY <2>1, <2>2
    <3>2. t \in Seq(Word)
      BY <2>2, <3>1, PushesHold
    <3>3. Holds(Reverse(t), r, v, x)
      BY <2>2, <3>1, PushesHold
    <3>4. Reverse(t) \in Seq(Word)
      BY <2>2, <3>1, PushesHold
    <3>5. Len(Reverse(t)) = Len(s) + 15
      BY <2>2, <3>1, PushesHold
    <3>6. \A j \in 1 .. Len(s) : Reverse(t)[15 + j] = s[Len(s) - j + 1]
      BY <2>2, <3>1, PushesHold
    <3> QED BY <3>2, <3>3, <3>4, <3>5, <3>6
  <2> QED BY <1>1, <1>2, <2>2, <2>3
<1>4. ASSUME c.kind # "kernel"
      PROVE  Len(f) = 17 /\ Field(f, "esp") = w.esp /\ Field(f, "ss") = w.ss
  <2>1. Len(s) = 2 /\ s[1] = w.ss /\ s[2] = w.esp
    BY <1>1, <1>4
  <2>2. Len(f) = 17 /\ f[16] = s[2] /\ f[17] = s[1]
    <3>1. f[15 + 1] = s[2 - 1 + 1] /\ f[15 + 2] = s[2 - 2 + 1]
      BY <1>3, <2>1
    <3> QED BY <1>3, <2>1, <3>1
  <2>3. Field(f, "esp") = f[16] /\ Field(f, "ss") = f[17]
    BY FieldIs
  <2> QED BY <2>1, <2>2, <2>3
<1>5. Holds(f, IF c.kind = "kernel" THEN KernelRegs ELSE w, e[1], e[2])
  BY <1>3
<1> QED
  BY <1>1, <1>2, <1>3, <1>4, <1>5 DEF Tells, StackFrame

----------------------------------------------------------------------------
(* The inductive invariant *)

\* The ranges of the variables.
TypeInv ==
  /\ pc \in {"run", "user", "trap", "dispatch", "syscall", "return", "monitor", "panic"}
  /\ regs \in [Reg -> Word] /\ was \in [Reg -> Word]
  /\ stack \in Seq(Word)
  /\ env_tf \in Seq(Word) /\ Len(env_tf) = 17

\* In user mode the user's registers, in the kernel the kernel's; the ones that
\* are saved are the user's.
RegsInv ==
  /\ FromUser(was) /\ Field(env_tf, "cs") = W("GD_UT|3")
  /\ pc = "user" => FromUser(regs)
  /\ pc \in {"trap", "dispatch", "syscall", "return"} => regs = KernelRegs

\* What led where.
CauseInv ==
  /\ pc \in {"trap", "dispatch"} => cause.kind \in {"int", "fault", "kernel"}
  /\ cause.kind \in {"int", "fault", "kernel"} => cause.n \in Nat
  /\ cause.kind = "fault" => cause.n \in 0 .. 31
  /\ cause.kind = "kernel" => cause.n \in (0 .. 31) \ {3} /\ pc \in {"trap", "dispatch", "panic"}
  /\ pc \in {"syscall", "return"} => cause.kind = "int" /\ cause.n = 48

\* The frame on the stack, then the one that tf points to, then the one that
\* env_pop_tf is going to use.
FrameInv ==
  /\ pc = "trap" => Tells(StackFrame, cause, was)
  /\ pc = "dispatch" => /\ Tells(CurrentFrame, cause, was)
                        /\ tf = IF cause.kind = "kernel" THEN "stack" ELSE "env_tf"
  /\ pc \in {"syscall", "return"} => \A r \in Reg \ {"eax"} : Field(env_tf, r) = was[r]

TrapInv == TypeInv /\ RegsInv /\ CauseInv /\ FrameInv

\* The user's registers are words, and say that they are the user's; so do the
\* kernel's.
LEMMA RegsAre ==
  /\ \A n \in Nat : UserRegs(n) \in [Reg -> Word] /\ FromUser(UserRegs(n))
  /\ KernelRegs \in [Reg -> Word] /\ KernelRegs.cs = W("GD_KT") /\ ~ FromUser(KernelRegs)
<1>1. ASSUME NEW n \in Nat PROVE UserRegs(n) \in [Reg -> Word] /\ FromUser(UserRegs(n))
  <2>1. \A r \in Reg : <<r, n>> \in Word
    BY DEF Word, Name
  <2>2. W("GD_UT|3") \in Word /\ W("GD_UD|3") \in Word
    BY DEF W, Word, Name
  <2> DEFINE val(r) == CASE r = "cs" -> W("GD_UT|3")
                         [] r \in {"es", "ds", "ss"} -> W("GD_UD|3")
                         [] OTHER -> <<r, n>>
  <2>3. \A r \in Reg : val(r) \in Word
    <3> SUFFICES ASSUME NEW r \in Reg PROVE val(r) \in Word
      OBVIOUS
    <3>1. CASE r = "cs"
      BY <2>2, <3>1
    <3>2. CASE r \in {"es", "ds", "ss"}
      BY <2>2, <3>2
    <3>3. CASE r # "cs" /\ r \notin {"es", "ds", "ss"}
      BY <2>1, <3>3
    <3> QED BY <3>1, <3>2, <3>3
  <2>4. val("cs") = W("GD_UT|3") /\ "cs" \in Reg
    BY RegIs
  <2>5. UserRegs(n) = [r \in Reg |-> val(r)]
    BY DEF UserRegs
  <2> HIDE DEF val
  <2> QED BY <2>3, <2>4, <2>5 DEF FromUser
<1>2. KernelRegs \in [Reg -> Word] /\ KernelRegs.cs = W("GD_KT")
  <2>1. W("GD_KT") \in Word /\ W("GD_KD") \in Word /\ W("kernel") \in Word
    BY DEF W, Word, Name
  <2> DEFINE val(r) == CASE r = "cs" -> W("GD_KT")
                         [] r \in {"es", "ds", "ss"} -> W("GD_KD")
                         [] OTHER -> W("kernel")
  <2>3. \A r \in Reg : val(r) \in Word
    <3> SUFFICES ASSUME NEW r \in Reg PROVE val(r) \in Word
      OBVIOUS
    <3>1. CASE r = "cs"
      BY <2>1, <3>1
    <3>2. CASE r \in {"es", "ds", "ss"}
      BY <2>1, <3>2
    <3>3. CASE r # "cs" /\ r \notin {"es", "ds", "ss"}
      BY <2>1, <3>3
    <3> QED BY <3>1, <3>2, <3>3
  <2>4. val("cs") = W("GD_KT") /\ "cs" \in Reg
    BY RegIs
  <2>5. KernelRegs = [r \in Reg |-> val(r)]
    BY DEF KernelRegs
  <2> HIDE DEF val
  <2> QED BY <2>3, <2>4, <2>5
<1>3. W("GD_KT") # W("GD_UT|3")
  BY DEF W
<1> QED
  BY <1>1, <1>2, <1>3 DEF FromUser

----------------------------------------------------------------------------
(* The steps *)

\* A trap from user mode, whatever the registers are by then, leaves a frame
\* that describes it.
LEMMA FromUserModeInv ==
  ASSUME TrapInv, NEW k \in {"int", "fault"}, NEW n \in Nat, NEW err \in Word,
         NEW r \in [Reg -> Word], FromUser(r),
         k = "fault" => err = W("err") /\ n \in 0 .. 31,
         FromUserMode(k, n, err, r)
  PROVE  TrapInv'
<1>1. PICK c \in [kind : {"int", "fault", "kernel"}, n : Nat, err : Word] :
         c.kind = k /\ c.n = n /\ c.err = err /\ c = [kind |-> k, n |-> n, err |-> err]
  OBVIOUS
<1>2. /\ pc = "user" /\ pc' = "trap" /\ regs' = KernelRegs /\ cause' = c /\ was' = r
      /\ UNCHANGED <<env_tf, tf>>
  BY <1>1 DEF FromUserMode, Enter
<1>3. Enters(c, r)
  BY <1>1 DEF Enters, FromUserMode, TrapInv, TypeInv
<1>4. stack' \in Seq(Word) /\ Tells(StackFrame', c, r)
  BY <1>1, <1>3, EnterTells
<1>5. TypeInv'
  BY <1>2, <1>4, RegsAre DEF TrapInv, TypeInv
<1>6. RegsInv'
  BY <1>2 DEF TrapInv, RegsInv, FromUser
<1>7. CauseInv'
  BY <1>1, <1>2 DEF CauseInv
<1>8. FrameInv'
  BY <1>2, <1>4 DEF FrameInv
<1> QED
  BY <1>5, <1>6, <1>7, <1>8 DEF TrapInv

\* A trap of the kernel's own code pushes its frame above the rest.
LEMMA KernelFaultInv ==
  ASSUME TrapInv, NEW v \in KernelFaults, KernelFault(v)
  PROVE  TrapInv' /\ pc' = "trap" /\ cause.kind # "kernel"
<1>1. W("err") \in Word
  BY DEF W, Word, Name
<1>2. PICK c \in [kind : {"int", "fault", "kernel"}, n : Nat, err : Word] :
         c.kind = "kernel" /\ c.n = v /\ c.err = W("err")
           /\ c = [kind |-> "kernel", n |-> v, err |-> W("err")]
  <2>1. v \in Nat /\ "kernel" \in {"int", "fault", "kernel"}
    OBVIOUS
  <2> HIDE DEF Word, W
  <2> QED BY <1>1, <2>1
<1>3. /\ pc \in {"trap", "dispatch", "syscall", "return"} /\ pc' = "trap" /\ regs' = KernelRegs
      /\ cause' = c /\ UNCHANGED <<env_tf, tf, was>> /\ cause.kind # "kernel"
      /\ Enter(v, W("err"), FALSE, regs)
  BY <1>2 DEF KernelFault, Enter
<1>4. regs = KernelRegs
  BY <1>3 DEF TrapInv, RegsInv
<1>5. Enters(c, KernelRegs)
  <2>1. Enter(c.n, c.err, c.kind = "int", KernelRegs)
    <3>1. (c.kind = "int") = FALSE
      BY <1>2
    <3> QED BY <1>2, <1>3, <1>4, <3>1
  <2> QED BY <1>2, <2>1, RegsAre DEF Enters, TrapInv, TypeInv
<1>6. stack' \in Seq(Word) /\ Tells(StackFrame', c, was)
  BY <1>2, <1>5, EnterTells
<1>7. TypeInv'
  BY <1>3, <1>6, RegsAre DEF TrapInv, TypeInv
<1>8. RegsInv'
  BY <1>3 DEF TrapInv, RegsInv
<1>9. CauseInv'
  BY <1>2, <1>3 DEF CauseInv
<1>10. FrameInv'
  BY <1>3, <1>6 DEF FrameInv
<1> QED
  BY <1>3, <1>7, <1>8, <1>9, <1>10 DEF TrapInv

\* The saved code segment tells a trap of the user's from one of the kernel's.
LEMMA TellsCs ==
  ASSUME NEW f, TypeInv, RegsInv, Tells(f, cause, was)
  PROVE  Field(f, "cs") = W("GD_UT|3") <=> cause.kind # "kernel"
<1>1. "cs" \in Reg \ {"esp", "ss"} /\ W("GD_KT") # W("GD_UT|3")
  BY RegIs DEF W
<1>2. CASE cause.kind = "kernel"
  BY <1>1, <1>2, RegsAre DEF Tells, Holds
<1>3. CASE cause.kind # "kernel"
  BY <1>1, <1>3 DEF Tells, Holds, RegsInv, FromUser
<1> QED
  BY <1>2, <1>3

\* trap looks at it, and either copies the frame or leaves it where it is.
LEMMA TrapStepInv ==
  ASSUME TrapInv, Trap
  PROVE  TrapInv' /\ pc' = "dispatch" /\ (cause.kind = "kernel" => env_tf' = env_tf)
<1> USE DEF TrapInv
<1>1. pc = "trap" /\ pc' = "dispatch" /\ UNCHANGED <<regs, stack, status, args, cause, was>>
  BY DEF Trap
<1>2. Tells(StackFrame, cause, was)
  BY <1>1 DEF FrameInv
<1>3. StackFrame \in Seq(Word)
  <2> HIDE DEF Word
  <2> QED BY DEF TypeInv, StackFrame, Reverse
<1>4. StackFrame' = StackFrame
  BY <1>1 DEF StackFrame
<1>5. CASE cause.kind # "kernel"
  <2>1. env_tf' = StackFrame /\ tf' = "env_tf" /\ Field(StackFrame, "cs") = W("GD_UT|3")
    BY <1>2, <1>5, TellsCs DEF Trap
  <2>2. Len(StackFrame) = 17
    BY <1>2, <1>5 DEF Tells
  <2>3. CurrentFrame' = StackFrame
    BY <2>1 DEF CurrentFrame
  <2>4. TypeInv'
    BY <1>1, <1>3, <2>1, <2>2 DEF TypeInv
  <2>5. RegsInv'
    BY <1>1, <2>1 DEF RegsInv
  <2>6. CauseInv'
    BY <1>1, <1>5 DEF CauseInv
  <2>7. FrameInv'
    BY <1>1, <1>2, <1>5, <2>1, <2>3 DEF FrameInv
  <2> QED BY <1>1, <1>5, <2>4, <2>5, <2>6, <2>7
<1>6. CASE cause.kind = "kernel"
  <2>1. env_tf' = env_tf /\ tf' = "stack"
    BY <1>2, <1>6, TellsCs DEF Trap
  <2>2. CurrentFrame' = StackFrame
    BY <1>4, <2>1 DEF CurrentFrame
  <2>3. TypeInv'
    BY <1>1, <2>1 DEF TypeInv
  <2>4. RegsInv'
    BY <1>1, <2>1 DEF RegsInv
  <2>5. CauseInv'
    BY <1>1, <1>6 DEF CauseInv
  <2>6. FrameInv'
    BY <1>1, <1>2, <1>6, <2>1, <2>2 DEF FrameInv
  <2> QED BY <1>1, <2>1, <2>3, <2>4, <2>5, <2>6
<1> QED
  BY <1>5, <1>6

\* What trap_dispatch makes of a trap number.
LEMMA DispatchIs ==
  ASSUME TrapInv, pc = "dispatch"
  PROVE  /\ Is(48) => cause.kind = "int" /\ cause.n = 48 /\ tf = "env_tf"
         /\ cause.kind = "kernel" => ~ Is(3) /\ ~ Is(48) /\ Field(CurrentFrame, "cs") = W("GD_KT")
         /\ cause.kind # "kernel" => \A name \in Reg : Field(env_tf, name) = was[name]
<1> USE DEF TrapInv
<1>1. /\ Tells(CurrentFrame, cause, was)
      /\ tf = IF cause.kind = "kernel" THEN "stack" ELSE "env_tf"
  BY DEF FrameInv
<1>2. \A v \in Nat : Is(v) => v = Expected(cause)[1]
  <2>1. Field(CurrentFrame, "trapno") = <<"trapno", Expected(cause)[1]>>
    BY <1>1 DEF Tells, Holds
  <2> QED BY <2>1 DEF Is
<1>3. /\ cause.kind \in {"int", "fault", "kernel"} /\ cause.n \in Nat
      /\ cause.kind = "fault" => cause.n \in 0 .. 31
      /\ cause.kind = "kernel" => cause.n \in (0 .. 31) \ {3}
  BY DEF CauseInv
<1>4. Expected(cause)[1] = 13 \/ Expected(cause)[1] = cause.n
  BY DEF Expected
<1>5. Is(48) => cause.kind = "int" /\ cause.n = 48 /\ tf = "env_tf"
  BY <1>1, <1>2, <1>3, <1>4
<1>6. ASSUME cause.kind = "kernel"
      PROVE  ~ Is(3) /\ ~ Is(48) /\ Field(CurrentFrame, "cs") = W("GD_KT")
  <2>1. ~ Is(3) /\ ~ Is(48)
    BY <1>2, <1>3, <1>4, <1>6
  <2>2. "cs" \in Reg \ {"esp", "ss"}
    BY RegIs
  <2> QED BY <1>1, <1>6, <2>1, <2>2, RegsAre DEF Tells, Holds
<1>7. ASSUME cause.kind # "kernel", NEW name \in Reg
      PROVE  Field(env_tf, name) = was[name]
  <2>1. CurrentFrame = env_tf
    BY <1>1, <1>7 DEF CurrentFrame
  <2> QED BY <1>1, <1>7, <2>1 DEF Tells, Holds
<1> QED
  BY <1>5, <1>6, <1>7

\* The three ways on from trap_dispatch.
LEMMA DispatchInv ==
  ASSUME TrapInv, Unexpected \/ Breakpoint \/ DispatchSyscall
  PROVE  TrapInv' /\ env_tf' = env_tf /\ (cause.kind = "kernel" => pc' = "panic")
<1>1. pc = "dispatch" /\ UNCHANGED <<regs, stack, env_tf, tf, cause, was>>
  BY DEF Unexpected, Breakpoint, DispatchSyscall
<1>2. CASE Unexpected
  <2>1. pc' \in {"panic", "monitor"} /\ (cause.kind = "kernel" => pc' = "panic")
    BY <1>1, <1>2, DispatchIs DEF Unexpected, Panic, Destroy
  <2> QED BY <1>1, <2>1 DEF TrapInv, TypeInv, RegsInv, CauseInv, FrameInv
<1>3. CASE Breakpoint
  <2>1. pc' = "monitor" /\ cause.kind # "kernel"
    BY <1>1, <1>3, DispatchIs DEF Breakpoint
  <2> QED BY <1>1, <2>1 DEF TrapInv, TypeInv, RegsInv, CauseInv, FrameInv
<1>4. CASE DispatchSyscall
  <2>1. pc' = "syscall" /\ cause.kind = "int" /\ cause.n = 48
    BY <1>1, <1>4, DispatchIs DEF DispatchSyscall
  <2>2. \A r \in Reg \ {"eax"} : Field(env_tf, r) = was[r]
    BY <1>1, <2>1, DispatchIs
  <2> QED BY <1>1, <2>1, <2>2 DEF TrapInv, TypeInv, RegsInv, CauseInv, FrameInv
<1> QED
  BY <1>1, <1>2, <1>3, <1>4

\* The answer to a system call goes to eax and nowhere else.
LEMMA SyscallInv ==
  ASSUME TrapInv, Syscall
  PROVE  TrapInv'
<1>1. pc = "syscall" /\ UNCHANGED <<regs, stack, tf, args, cause, was>>
  BY DEF Syscall
<1>2. CASE pc' = "monitor" /\ UNCHANGED env_tf
  <2>1. cause.kind # "kernel"
    BY <1>1 DEF TrapInv, CauseInv
  <2> QED BY <1>1, <1>2, <2>1 DEF TrapInv, TypeInv, RegsInv, CauseInv, FrameInv
<1>3. ASSUME NEW r \in Word, Answer(r) PROVE TrapInv'
  <2>1. pc' = "return" /\ env_tf' = [env_tf EXCEPT ![8] = r]
    BY <1>3 DEF Answer
  <2>2. TypeInv'
    <3> HIDE DEF Word
    <3>1. env_tf' \in Seq(Word) /\ Len(env_tf') = 17
      <4>1. env_tf \in Seq(Word) /\ Len(env_tf) = 17 /\ 8 \in 1 .. Len(env_tf)
        BY DEF TrapInv, TypeInv
      <4>2. env_tf' \in Seq(Word)
        <5>1. env_tf' \in [1 .. 17 -> Word]
          <6>1. env_tf \in [1 .. 17 -> Word]
            BY <4>1, LenProperties
          <6> QED BY <1>3, <2>1, <6>1
        <5>2. PICK n \in Nat : n = 17
          OBVIOUS
        <5>3. env_tf' \in [1 .. n -> Word]
          BY <5>1, <5>2
        <5> QED BY <5>3
      <4>3. Len(env_tf') = 17
        BY <1>3, <2>1, <4>1
      <4> QED BY <4>2, <4>3
    <3> QED BY <1>1, <2>1, <3>1 DEF TrapInv, TypeInv
  <2>3. \A name \in Reg \ {"eax"} : Field(env_tf', name) = Field(env_tf, name)
    <3>1. \A j \in 1 .. 17 : j # 8 => env_tf'[j] = env_tf[j]
      <4> HIDE DEF Word
      <4> QED BY <1>3, <2>1 DEF TrapInv, TypeInv
    <3> SUFFICES ASSUME NEW name \in Reg \ {"eax"}
                 PROVE  Field(env_tf', name) = Field(env_tf, name)
      OBVIOUS
    <3> QED BY <3>1, FieldIs, RegIs
  <2>4. RegsInv'
    <3>1. "cs" \in Reg \ {"eax"}
      BY RegIs
    <3>2. Field(env_tf', "cs") = W("GD_UT|3")
      BY <2>3, <3>1 DEF TrapInv, RegsInv
    <3> QED BY <1>1, <2>1, <3>2 DEF TrapInv, RegsInv
  <2>5. CauseInv'
    BY <1>1, <2>1 DEF TrapInv, CauseInv
  <2>6. FrameInv'
    BY <1>1, <2>1, <2>3 DEF TrapInv, FrameInv
  <2> QED BY <2>2, <2>4, <2>5, <2>6 DEF TrapInv
<1>4. W("0") \in Word /\ W("char") \in Word /\ W("env_id") \in Word /\ W("-E_INVAL") \in Word
  BY DEF W, Word, Name
<1> QED
  BY <1>1, <1>2, <1>3, <1>4 DEF Syscall, Destroy

\* env_pop_tf loads every register from the word that holds it.
LEMMA PopIs ==
  ASSUME NEW f
  PROVE  env_pop_tf(f) = [r \in Reg |-> Field(f, r)]
<1> DEFINE popped == <<"edi", "esi", "ebp", "-", "ebx", "edx", "ecx", "eax", "es", "ds", "-", "-",
                       "eip", "cs", "eflags", "esp", "ss">>
           at(r) == CHOOSE i \in DOMAIN popped : popped[i] = r
<1>1. DOMAIN popped = 1 .. 17
  OBVIOUS
<1>2. \A i, j \in 1 .. 17 : popped[i] = popped[j] /\ popped[i] # "-" => i = j
  OBVIOUS
<1>3. \A i \in 1 .. 17 : popped[i] # "-" => at(popped[i]) = i
  <2> SUFFICES ASSUME NEW i \in 1 .. 17, popped[i] # "-" PROVE at(popped[i]) = i
    OBVIOUS
  <2> HIDE DEF popped
  <2> QED BY <1>1, <1>2
<1>4. /\ popped[1] = "edi" /\ popped[2] = "esi" /\ popped[3] = "ebp" /\ popped[5] = "ebx"
      /\ popped[6] = "edx" /\ popped[7] = "ecx" /\ popped[8] = "eax" /\ popped[9] = "es"
      /\ popped[10] = "ds" /\ popped[13] = "eip" /\ popped[14] = "cs" /\ popped[15] = "eflags"
      /\ popped[16] = "esp" /\ popped[17] = "ss"
  OBVIOUS
<1>5. env_pop_tf(f) = [r \in Reg |-> f[at(r)]]
  BY DEF env_pop_tf
<1> HIDE DEF popped, at
<1>6. \A r \in Reg : f[at(r)] = Field(f, r)
  <2> SUFFICES ASSUME NEW r \in Reg PROVE f[at(r)] = Field(f, r)
    OBVIOUS
  <2>1. /\ at("edi") = 1 /\ at("esi") = 2 /\ at("ebp") = 3 /\ at("ebx") = 5 /\ at("edx") = 6
        /\ at("ecx") = 7 /\ at("eax") = 8 /\ at("es") = 9 /\ at("ds") = 10 /\ at("eip") = 13
        /\ at("cs") = 14 /\ at("eflags") = 15 /\ at("esp") = 16 /\ at("ss") = 17
    BY <1>3, <1>4
  <2> QED BY <2>1, FieldIs, RegIs
<1> QED
  BY <1>5, <1>6

\* The processor goes back to user mode with what the frame says.
LEMMA EnvRunInv ==
  ASSUME TrapInv, EnvRun
  PROVE  TrapInv' /\ \A r \in Reg : regs'[r] = Field(env_tf, r)
<1> USE DEF TrapInv
<1>1. /\ pc \in {"run", "return"} /\ pc' = "user" /\ regs' = [r \in Reg |-> Field(env_tf, r)]
      /\ UNCHANGED <<stack, env_tf, tf, args, cause, was>>
  BY PopIs DEF EnvRun
<1>2. \A r \in Reg : Field(env_tf, r) \in Word
  <2>1. \A i \in 1 .. 17 : env_tf[i] \in Word
    <3> HIDE DEF Word
    <3>1. env_tf \in Seq(Word) /\ Len(env_tf) = 17
      BY DEF TypeInv
    <3> QED BY <3>1, ElementOfSeq
  <2> HIDE DEF Word
  <2> QED BY <2>1, FieldIs, RegIs
<1>3. regs' \in [Reg -> Word] /\ regs'.cs = W("GD_UT|3")
  <2>1. "cs" \in Reg
    BY RegIs
  <2> HIDE DEF Word
  <2> QED BY <1>1, <1>2, <2>1 DEF RegsInv
<1>4. cause.kind # "kernel"
  BY <1>1 DEF CauseInv
<1>5. TypeInv'
  BY <1>1, <1>3 DEF TypeInv
<1>6. RegsInv'
  BY <1>1, <1>3 DEF RegsInv, FromUser
<1>7. CauseInv' /\ FrameInv'
  BY <1>1, <1>4 DEF CauseInv, FrameInv
<1> QED
  BY <1>1, <1>5, <1>6, <1>7

\* The program's own steps, and those into the kernel.
LEMMA UserInv ==
  ASSUME TrapInv,
         \/ \E n \in Points : UserStep(n)
         \/ \E n \in Ints : SoftInt(n, regs)
         \/ \E v \in Faults : Fault(v, W("err"))
         \/ \E no \in Syscallno, a1 \in {"0", "env_id", "stale"} :
              SysCall(no, W(a1), W("a2"), regs)
  PROVE  TrapInv' /\ pc = "user"
<1> USE DEF TrapInv
<1>1. regs \in [Reg -> Word] /\ (pc = "user" => FromUser(regs))
  BY DEF TypeInv, RegsInv
<1>2. W("err") \in Word /\ W("none") \in Word
  BY DEF W, Word, Name
<1>3. ASSUME NEW n \in Points, UserStep(n) PROVE TrapInv' /\ pc = "user"
  <2>1. /\ pc = "user" /\ regs' = UserRegs(n) /\ n \in Nat
        /\ UNCHANGED <<pc, stack, env_tf, status, tf, args, cause, was>>
    BY <1>3 DEF UserStep
  <2>2. regs' \in [Reg -> Word] /\ FromUser(regs')
    BY <2>1, RegsAre
  <2> QED BY <2>1, <2>2 DEF TypeInv, RegsInv, CauseInv, FrameInv
<1>4. ASSUME NEW n \in Ints, SoftInt(n, regs) PROVE TrapInv' /\ pc = "user"
  <2>1. FromUserMode("int", n, W("none"), regs) /\ pc = "user" /\ n \in Nat
    BY <1>4 DEF SoftInt, FromUserMode
  <2> QED BY <1>1, <1>2, <2>1, FromUserModeInv
<1>5. ASSUME NEW v \in Faults, Fault(v, W("err")) PROVE TrapInv' /\ pc = "user"
  <2>1. FromUserMode("fault", v, W("err"), regs) /\ pc = "user" /\ v \in Nat /\ v \in 0 .. 31
    BY <1>5 DEF Fault, FromUserMode
  <2> QED BY <1>1, <1>2, <2>1, FromUserModeInv
<1>6. ASSUME NEW no \in Syscallno, NEW a1 \in {"0", "env_id", "stale"},
             SysCall(no, W(a1), W("a2"), regs)
      PROVE  TrapInv' /\ pc = "user"
  <2>1. PICK r : /\ r = [regs EXCEPT !.eax = W(no), !.edx = W(a1), !.ecx = W("a2"),
                                     !.ebx = W("a3"), !.edi = W("a4"), !.esi = W("a5")]
                 /\ FromUserMode("int", 48, W("none"), r) /\ pc = "user"
    BY <1>6 DEF SysCall, SoftInt, FromUserMode
  <2>2. W(no) \in Word /\ W(a1) \in Word /\ W("a2") \in Word /\ W("a3") \in Word
        /\ W("a4") \in Word /\ W("a5") \in Word
    BY DEF W, Word, Name
  <2>3. r \in [Reg -> Word] /\ r.cs = regs.cs
    <3> HIDE DEF Word
    <3> QED BY <1>1, <2>1, <2>2, RegIs
  <2>4. FromUser(r)
    BY <1>1, <2>1, <2>3 DEF FromUser
  <2> QED BY <1>2, <2>1, <2>3, <2>4, FromUserModeInv
<1> QED
  BY <1>3, <1>4, <1>5, <1>6

\* i386_init is about to run its environment, on an empty kernel stack.
LEMMA InitTrap == Init => TrapInv
<1> SUFFICES ASSUME Init PROVE TrapInv
  OBVIOUS
<1>1. /\ pc = "run" /\ regs = KernelRegs /\ stack = <<>> /\ was = UserRegs(0)
      /\ cause.kind = "none"
  BY DEF Init
<1>2. env_tf \in Seq(Word) /\ Len(env_tf) = 17 /\ env_tf[14] = W("GD_UT|3")
  <2> DEFINE val(i) == LET name == Layout[i]
                       IN  CASE name = "cs" -> W("GD_UT|3")
                             [] name \in {"ds", "es", "ss"} -> W("GD_UD|3")
                             [] name \in {"esp", "eip"} -> <<name, 0>>
                             [] OTHER -> W("0")
  <2>1. env_tf = [i \in DOMAIN Layout |-> val(i)] /\ DOMAIN Layout = 1 .. 17
    BY DEF Init, Layout
  <2>2. /\ W("GD_UT|3") \in Word /\ W("GD_UD|3") \in Word /\ W("0") \in Word
        /\ \A name \in {"esp", "eip"} : <<name, 0>> \in Word
    BY RegIs DEF W, Word, Name
  <2>3. \A i \in 1 .. 17 : val(i) \in Word
    <3> SUFFICES ASSUME NEW i \in 1 .. 17 PROVE val(i) \in Word
      OBVIOUS
    <3>1. CASE Layout[i] = "cs"
      BY <2>2, <3>1
    <3>2. CASE Layout[i] \in {"ds", "es", "ss"}
      BY <2>2, <3>2
    <3>3. CASE Layout[i] \in {"esp", "eip"}
      BY <2>2, <3>3
    <3>4. CASE Layout[i] # "cs" /\ Layout[i] \notin {"ds", "es", "ss", "esp", "eip"}
      BY <2>2, <3>4
    <3> QED BY <3>1, <3>2, <3>3, <3>4
  <2>4. val(14) = W("GD_UT|3")
    BY DEF Layout
  <2> HIDE DEF val, Word
  <2> QED BY <2>1, <2>3, <2>4
<1>3. TypeInv
  BY <1>1, <1>2, RegsAre DEF TypeInv
<1>4. RegsInv
  BY <1>1, <1>2, RegsAre, FieldIs DEF RegsInv
<1>5. CauseInv /\ FrameInv
  BY <1>1 DEF CauseInv, FrameInv
<1> QED
  BY <1>3, <1>4, <1>5 DEF TrapInv

\* Every step keeps the invariant.
LEMMA NextTrap ==
  ASSUME TrapInv, [Next]_vars
  PROVE  TrapInv'
<1>1. CASE UNCHANGED vars
  BY <1>1 DEF vars, TrapInv, TypeInv, RegsInv, CauseInv, FrameInv, StackFrame, CurrentFrame
<1>2. CASE Next
  BY <1>2, UserInv, KernelFaultInv, TrapStepInv, DispatchInv, SyscallInv, EnvRunInv DEF Next
<1> QED
  BY <1>1, <1>2

----------------------------------------------------------------------------
(* Theorems *)

\* trap_init's gates, the stubs, _alltraps, trap, trap_dispatch, syscall and
\* env_run keep what the frames and the registers say of the user's program.
THEOREM TrapInvariance == Spec => []TrapInv
BY InitTrap, NextTrap, PTL DEF Spec

\* trap_dispatch looks at a frame that says which trap happened, with its error
\* code, and holds the registers of the code that it interrupted.
THEOREM FrameCorrect == Spec => []FrameDescribesTrap
<1>1. TrapInv => FrameDescribesTrap
  BY DEF TrapInv, FrameInv, Tells, Holds, FrameDescribesTrap
<1> QED
  BY <1>1, TrapInvariance, PTL

\* The environment goes on with the registers that env_pop_tf finds where the
\* trap has left them, but for the answer of the system call.
THEOREM ResumesCorrect == Spec => Resumes
<1>1. TrapInv /\ [Next]_vars =>
        [pc = "return" /\ pc' = "user" =>
           /\ cause.kind = "int" /\ cause.n = 48
           /\ \A r \in Reg \ {"eax"} : regs'[r] = was[r]]_vars
  <2> SUFFICES ASSUME TrapInv, [Next]_vars, pc = "return", pc' = "user"
               PROVE  /\ cause.kind = "int" /\ cause.n = 48
                      /\ \A r \in Reg \ {"eax"} : regs'[r] = was[r]
    OBVIOUS
  <2>1. /\ cause.kind = "int" /\ cause.n = 48
        /\ \A r \in Reg \ {"eax"} : Field(env_tf, r) = was[r]
    BY DEF TrapInv, CauseInv, FrameInv
  <2>2. ~ UNCHANGED vars
    BY DEF vars
  <2>3. EnvRun
    BY <2>2, UserInv, KernelFaultInv, TrapStepInv
       DEF Next, Unexpected, Breakpoint, DispatchSyscall, Syscall
  <2> QED BY <2>1, <2>3, EnvRunInv
<1> QED
  BY <1>1, TrapInvariance, PTL DEF Spec, Resumes

\* A trap that trap finds to come from the kernel's own code ends in a panic,
\* and does not touch the environment's env_tf.
THEOREM KernelTrapsEnd == Spec => KernelTrapsAreFatal
<1>1. TrapInv /\ [Next]_vars =>
        [cause.kind = "kernel" => pc' \in {"dispatch", "panic"} /\ env_tf' = env_tf]_vars
  <2> SUFFICES ASSUME TrapInv, Next, cause.kind = "kernel"
               PROVE  pc' \in {"dispatch", "panic"} /\ env_tf' = env_tf
    OBVIOUS
  <2>1. pc \in {"trap", "dispatch", "panic"}
    BY DEF TrapInv, CauseInv
  <2>2. Trap \/ Unexpected \/ Breakpoint \/ DispatchSyscall
    BY <2>1, UserInv, KernelFaultInv DEF Next, Syscall, EnvRun
  <2> QED BY <2>2, TrapStepInv, DispatchInv
<1> QED
  BY <1>1, TrapInvariance, PTL DEF Spec, KernelTrapsAreFatal
=============================================================================
