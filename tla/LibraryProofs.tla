--------------------------- MODULE LibraryProofs ---------------------------
(***************************************************************************)
(* Proofs about the algorithms of Library, for every input: memmove, the   *)
(* boot loader and user_mem_check return what they should.                 *)
(***************************************************************************)
EXTENDS Library, NaturalsInduction, WellFoundedInduction, TLAPS

----------------------------------------------------------------------------
(* Numbers and loops *)

NatLess == {p \in Nat \X Nat : p[1] < p[2]}

\* A set of numbers that has a member has a least one.
LEMMA LeastExists ==
  ASSUME NEW S \in SUBSET Nat, S # {}
  PROVE  \E x \in S : \A y \in S : x <= y
<1>1. IsWellFoundedOn(OpToRel(<, Nat), Nat)
  BY NatLessThanWellFounded
<1>2. OpToRel(<, Nat) = NatLess
  BY DEF OpToRel, NatLess
<1>3. IsWellFoundedOn(NatLess, Nat)
  BY <1>1, <1>2
<1>4. PICK x \in S : \A y \in S : ~ (<<y, x>> \in NatLess)
  BY <1>3, WFMin
<1>5. \A y \in S : x <= y
  <2> SUFFICES ASSUME NEW y \in S, ~ (x <= y) PROVE FALSE
    OBVIOUS
  <2>1. <<y, x>> \in NatLess
    BY DEF NatLess
  <2> QED BY <1>4, <2>1
<1> QED
  BY <1>5

\* What holds at first and after each pass holds after n passes.
LEMMA Passes ==
  ASSUME NEW n \in Nat, NEW Good, 0 \in Good,
         \A k \in 1 .. n : k - 1 \in Good => k \in Good
  PROVE  n \in Good
<1> DEFINE Bad == (0 .. n) \ Good
<1> SUFFICES ASSUME Bad # {} PROVE FALSE
  OBVIOUS
<1>1. PICK x \in Bad : \A y \in Bad : x <= y
  <2>1. Bad \in SUBSET Nat
    OBVIOUS
  <2> HIDE DEF Bad
  <2> QED BY <2>1, LeastExists
<1>2. x \in 1 .. n /\ x \notin Good
  OBVIOUS
<1>3. x - 1 \notin Bad
  BY <1>1, <1>2
<1> QED
  BY <1>2, <1>3

\* A function that each pass of a loop makes from the one before.
Iterated(g, n, x, F) == g = [i \in 0 .. n |-> IF i = 0 THEN x ELSE F[<<i, g[i - 1]>>]]

\* There is one for each number of passes.
LEMMA IteratedExists ==
  ASSUME NEW n \in Nat, NEW x, NEW F
  PROVE  \E g : Iterated(g, n, x, F)
<1> DEFINE Good == {k \in Nat : \E g : Iterated(g, k, x, F)}
<1>1. 0 \in Good
  <2> DEFINE h == [i \in 0 .. 0 |-> x]
  <2>1. Iterated(h, 0, x, F)
    BY DEF Iterated
  <2> QED BY <2>1
<1>2. ASSUME NEW k \in 1 .. n, k - 1 \in Good PROVE k \in Good
  <2>1. PICK g : Iterated(g, k - 1, x, F)
    BY <1>2
  <2> HIDE DEF Good
  <2>2. \A i \in 0 .. k - 1 : g[i] = IF i = 0 THEN x ELSE F[<<i, g[i - 1]>>]
    BY <2>1 DEF Iterated
  <2> DEFINE h == [i \in 0 .. k |-> IF i < k THEN g[i] ELSE F[<<k, g[k - 1]>>]]
  <2>3. ASSUME NEW i \in 0 .. k
        PROVE  h[i] = IF i = 0 THEN x ELSE F[<<i, h[i - 1]>>]
    <3>1. CASE i = k
      <4>1. h[i - 1] = g[k - 1] /\ i # 0
        BY <3>1
      <4> QED BY <3>1, <4>1
    <3>2. CASE i # k
      <4>1. i \in 0 .. k - 1 /\ h[i] = g[i]
        BY <3>2
      <4>2. i # 0 => h[i - 1] = g[i - 1]
        BY <4>1
      <4> QED BY <2>2, <4>1, <4>2
    <3> QED BY <3>1, <3>2
  <2>4. h = [i \in 0 .. k |-> IF i = 0 THEN x ELSE F[<<i, h[i - 1]>>]]
    BY <2>3
  <2>5. Iterated(h, k, x, F)
    <3> HIDE DEF h
    <3> QED BY <2>4 DEF Iterated
  <2> QED BY <2>5 DEF Good
<1> QED
  BY <1>1, <1>2, Passes

----------------------------------------------------------------------------
(* Arithmetic *)

\* Quotient and remainder.
Divided(a, n, q, r) == q = a \div n /\ r = a % n

\* They make the number up again.
LEMMA Division ==
  ASSUME NEW a \in Nat, NEW n \in Nat, n # 0, NEW q, NEW r, Divided(a, n, q, r)
  PROVE  q \in Nat /\ r \in 0 .. n - 1 /\ a = q * n + r
<1>1. r \in 0 .. n - 1 /\ q \in Nat
  BY DEF Divided
<1>2. a = q * n + r
  BY DEF Divided
<1> QED
  BY <1>1, <1>2

\* A product grows with its factors.
LEMMA ProductMonotone ==
  ASSUME NEW a \in Nat, NEW b \in Nat, a <= b, NEW n \in Nat
  PROVE  a * n \in Nat /\ b * n \in Nat /\ a * n <= b * n
<1>1. PICK z \in Nat : b = a + z
  <2>1. b - a \in Nat /\ b = a + (b - a)
    OBVIOUS
  <2> QED BY <2>1
<1>2. b * n = a * n + z * n
  BY <1>1
<1>3. a * n \in Nat /\ z * n \in Nat /\ b * n \in Nat
  OBVIOUS
<1> QED
  BY <1>2, <1>3

----------------------------------------------------------------------------
(* memmove *)

\* m is a memory of so many bytes.
IsMemory(m, size) == m = [a \in 0 .. size - 1 |-> m[a]]

\* The memory after a unit at the offset u has been moved.
Moved(m, before, d, s, w, u) ==
  [a \in DOMAIN m |-> IF a \in d + u .. d + u + w - 1 THEN before[a - d + s] ELSE before[a]]

\* The offset of the k-th unit of n that is moved.
Unit(w, n, k, down) == w * (IF down THEN n - k ELSE k - 1)

\* The memory in which the bytes from the offset lo up to hi have been moved.
Copied(m, d, s, lo, hi) ==
  [a \in DOMAIN m |-> IF a \in d + lo .. d + hi - 1 THEN m[a - d + s] ELSE m[a]]

\* One more unit above those that have been moved: what it is copied from has
\* not been overwritten.
LEMMA MovesUp ==
  ASSUME NEW size \in Nat, NEW m, IsMemory(m, size), NEW d \in Nat, NEW s \in Nat,
         NEW hi \in Nat, NEW w \in Nat, s + hi + w <= size, d <= s \/ s + hi + w <= d,
         NEW lo, lo = 0, NEW top, top = hi + w
  PROVE  Moved(m, Copied(m, d, s, lo, hi), d, s, w, hi) = Copied(m, d, s, lo, top)
<1> DEFINE b == Copied(m, d, s, lo, hi)
<1>1. /\ DOMAIN b = DOMAIN m
      /\ \A a \in DOMAIN m : b[a] = IF a \in d + lo .. d + hi - 1 THEN m[a - d + s] ELSE m[a]
  BY DEF Copied
<1> HIDE DEF b
<1> DOMAIN m = 0 .. size - 1
  BY DEF IsMemory
<1> SUFFICES ASSUME NEW a \in DOMAIN m
             PROVE  (IF a \in d + hi .. d + hi + w - 1 THEN b[a - d + s] ELSE b[a]) =
                    IF a \in d + lo .. d + top - 1 THEN m[a - d + s] ELSE m[a]
  BY <1>1 DEF Moved, Copied, b
<1>2. a \in Nat
  OBVIOUS
<1>3. CASE a \in d + hi .. d + hi + w - 1
  <2>1. PICK c \in Int : c = a - d + s
    BY <1>2
  <2>2. c \in DOMAIN m /\ c \notin d + lo .. d + hi - 1
    BY <1>2, <1>3, <2>1
  <2>3. b[c] = m[c]
    BY <1>1, <2>2
  <2>4. a \in d + lo .. d + top - 1
    BY <1>2, <1>3
  <2> QED BY <1>3, <2>1, <2>3, <2>4
<1>4. CASE a \notin d + hi .. d + hi + w - 1
  <2>1. a \in d + lo .. d + hi - 1 <=> a \in d + lo .. d + top - 1
    BY <1>2, <1>4
  <2> QED BY <1>1, <1>4, <2>1
<1> QED
  BY <1>3, <1>4

\* One more unit below them, likewise.
LEMMA MovesDown ==
  ASSUME NEW size \in Nat, NEW m, IsMemory(m, size), NEW d \in Nat, NEW s \in Nat,
         NEW u \in Nat, NEW w \in Nat, s <= d, NEW lo, lo = u + w,
         NEW hi \in Nat, lo <= hi, s + hi <= size
  PROVE  Moved(m, Copied(m, d, s, lo, hi), d, s, w, u) = Copied(m, d, s, u, hi)
<1> DEFINE b == Copied(m, d, s, lo, hi)
<1>1. /\ DOMAIN b = DOMAIN m
      /\ \A a \in DOMAIN m : b[a] = IF a \in d + lo .. d + hi - 1 THEN m[a - d + s] ELSE m[a]
  BY DEF Copied
<1> HIDE DEF b
<1> DOMAIN m = 0 .. size - 1
  BY DEF IsMemory
<1> SUFFICES ASSUME NEW a \in DOMAIN m
             PROVE  (IF a \in d + u .. d + u + w - 1 THEN b[a - d + s] ELSE b[a]) =
                    IF a \in d + u .. d + hi - 1 THEN m[a - d + s] ELSE m[a]
  BY <1>1 DEF Moved, Copied, b
<1>2. a \in Nat
  OBVIOUS
<1>3. CASE a \in d + u .. d + u + w - 1
  <2>1. PICK c \in Int : c = a - d + s
    BY <1>2
  <2>2. c \in DOMAIN m /\ c \notin d + lo .. d + hi - 1
    BY <1>2, <1>3, <2>1
  <2>3. b[c] = m[c]
    BY <1>1, <2>2
  <2>4. a \in d + u .. d + hi - 1
    BY <1>2, <1>3
  <2> QED BY <1>3, <2>1, <2>3, <2>4
<1>4. CASE a \notin d + u .. d + u + w - 1
  <2>1. a \in d + lo .. d + hi - 1 <=> a \in d + u .. d + hi - 1
    BY <1>2, <1>4
  <2> QED BY <1>1, <1>4, <2>1
<1> QED
  BY <1>3, <1>4

\* Before the first unit nothing has been moved.
LEMMA NothingMoved ==
  ASSUME NEW m, NEW size \in Nat, IsMemory(m, size), NEW d \in Nat, NEW s, NEW lo \in Nat
  PROVE  Copied(m, d, s, lo, lo) = m
<1>1. \A a \in 0 .. size - 1 : a \notin d + lo .. d + lo - 1
  OBVIOUS
<1> QED
  BY <1>1 DEF Copied, IsMemory

\* n units of w bytes.
Units(bytes, n, w) == bytes = n * w

\* r is the memory when so many bytes have been moved as n units, from the end
\* that memmove chooses.
IsMove(r, m, d, s, bytes, n, w) == r = rep_movs(m, d, s, n, w, s < d /\ s + bytes > d)

\* rep movs copies as if through a temporary, starting at the end that memmove chooses.
LEMMA RepMovs ==
  ASSUME NEW size \in Nat, NEW m, IsMemory(m, size), NEW d \in Nat, NEW s \in Nat,
         NEW n \in Nat, NEW w \in Nat, w # 0, NEW bytes, Units(bytes, n, w), s + bytes <= size,
         NEW r, IsMove(r, m, d, s, bytes, n, w)
  PROVE  r = Copied(m, d, s, 0, bytes)
<1>0. PICK down \in BOOLEAN : /\ r = rep_movs(m, d, s, n, w, down)
                             /\ (down => s <= d) /\ (~ down => d <= s \/ s + bytes <= d)
  <2>1. bytes \in Nat
    BY DEF Units
  <2> DEFINE D == s < d /\ s + bytes > d
  <2>2. D \in BOOLEAN /\ r = rep_movs(m, d, s, n, w, D)
    BY DEF IsMove
  <2>3. (D => s <= d) /\ (~ D => d <= s \/ s + bytes <= d)
    BY <2>1
  <2> HIDE DEF D
  <2> QED BY <2>2, <2>3
<1> DEFINE Step(g) == [k \in 0 .. n |-> IF k = 0 THEN m
                                        ELSE Moved(m, g[k - 1], d, s, w, Unit(w, n, k, down))]
           after == CHOOSE g : g = Step(g)
           After(k) == IF down THEN Copied(m, d, s, w * (n - k), bytes) ELSE Copied(m, d, s, 0, w * k)
           h == [k \in 0 .. n |-> After(k)]
<1>1. bytes \in Nat /\ DOMAIN m = 0 .. size - 1 /\ w \in Nat /\ bytes = n * w
  BY DEF IsMemory, Units
<1>2. After(0) = m
  <2>1. PICK lo \in Nat : lo = IF down THEN bytes ELSE 0
    BY <1>1
  <2>2. w * (n - 0) = bytes /\ w * 0 = 0
    BY <1>1
  <2>3. After(0) = Copied(m, d, s, lo, lo)
    BY <2>1, <2>2
  <2> HIDE DEF After
  <2> QED BY <2>1, <2>3, NothingMoved
<1>3. ASSUME NEW k \in 1 .. n PROVE After(k) = Moved(m, After(k - 1), d, s, w, Unit(w, n, k, down))
  <2>1. CASE down
    <3>1. PICK u \in Nat, lo \in Nat : u = w * (n - k) /\ lo = w * (n - (k - 1)) /\ lo = u + w /\ lo <= bytes
      <4>1. PICK x \in Nat, y \in Nat : x = n - k /\ y = n - (k - 1) /\ y = x + 1 /\ y <= n
        OBVIOUS
      <4>2. y * w <= n * w /\ y * w \in Nat
        BY <1>1, <4>1, ProductMonotone
      <4>3. w * y = w * x + w /\ w * x \in Nat /\ y * w = w * y /\ w * y \in Nat
        BY <1>1, <4>1
      <4> QED BY <1>1, <4>1, <4>2, <4>3
    <3>2. Unit(w, n, k, down) = u
      BY <2>1, <3>1 DEF Unit
    <3>3. s <= d
      BY <1>0, <2>1
    <3>4. Moved(m, Copied(m, d, s, lo, bytes), d, s, w, u) = Copied(m, d, s, u, bytes)
      <4>1. lo = u + w /\ lo <= bytes /\ s + bytes <= size /\ s <= d
        BY <3>1, <3>3
      <4> HIDE DEF After
      <4> QED BY <1>1, <4>1, MovesDown
    <3>5. After(k) = Copied(m, d, s, u, bytes) /\ After(k - 1) = Copied(m, d, s, lo, bytes)
      BY <2>1, <3>1
    <3> QED BY <3>2, <3>4, <3>5
  <2>2. CASE ~ down
    <3>1. PICK u \in Nat, top \in Nat : u = w * (k - 1) /\ top = w * k /\ top = u + w /\ top <= bytes
      <4>1. k \in Nat /\ k <= n /\ k - 1 \in Nat
        OBVIOUS
      <4>2. k * w <= n * w /\ k * w \in Nat
        BY <1>1, <4>1, ProductMonotone
      <4>3. w * k = w * (k - 1) + w /\ w * (k - 1) \in Nat /\ k * w = w * k
        BY <1>1, <4>1
      <4> QED BY <1>1, <4>1, <4>2, <4>3
    <3>2. Unit(w, n, k, down) = u
      BY <2>2, <3>1 DEF Unit
    <3>3. (d <= s \/ s + bytes <= d) /\ s + bytes <= size
      BY <1>0, <2>2
    <3>4. PICK lo : lo = 0
      OBVIOUS
    <3>5. s + u + w <= size /\ (d <= s \/ s + u + w <= d)
      BY <1>1, <3>1, <3>3
    <3>6. Moved(m, Copied(m, d, s, lo, u), d, s, w, u) = Copied(m, d, s, lo, top)
      <4>1. lo = 0 /\ top = u + w
        BY <3>1, <3>4
      <4> HIDE DEF After
      <4> QED BY <1>1, <3>5, <4>1, MovesUp
    <3>7. After(k) = Copied(m, d, s, lo, top) /\ After(k - 1) = Copied(m, d, s, lo, u)
      BY <2>2, <3>1, <3>4
    <3> QED BY <3>2, <3>6, <3>7
  <2> QED BY <2>1, <2>2
<1>4. After(n) = Copied(m, d, s, 0, bytes)
  BY <1>1
<1> HIDE DEF After
<1>5. h = Step(h)
  <2> SUFFICES ASSUME NEW k \in 0 .. n
               PROVE  h[k] = IF k = 0 THEN m ELSE Moved(m, h[k - 1], d, s, w, Unit(w, n, k, down))
    OBVIOUS
  <2>1. CASE k = 0
    BY <1>2, <2>1
  <2>2. CASE k # 0
    <3>1. k \in 1 .. n /\ k - 1 \in 0 .. n
      BY <2>2
    <3> QED BY <1>3, <2>2, <3>1
  <2> QED BY <2>1, <2>2
<1>6. after = Step(after)
  <2> HIDE DEF h, Step
  <2> QED BY <1>5
<1>7. r = after[n]
  BY <1>0 DEF rep_movs, Moved, Unit
<1> HIDE DEF after
<1>8. \A k \in 0 .. n : after[k] = IF k = 0 THEN m ELSE Moved(m, after[k - 1], d, s, w, Unit(w, n, k, down))
  BY <1>6
<1> HIDE DEF Step, h
<1> DEFINE Good == {k \in 0 .. n : after[k] = After(k)}
<1>9. 0 \in Good
  BY <1>2, <1>8
<1>10. \A k \in 1 .. n : k - 1 \in Good => k \in Good
  BY <1>3, <1>8
<1>11. n \in Good
  <2> HIDE DEF Good
  <2> QED BY <1>9, <1>10, Passes
<1> QED
  BY <1>4, <1>7, <1>11

\* memmove: the direction and the unit are chosen right.
LEMMA MemmoveIs ==
  ASSUME NEW size \in Nat, NEW m, IsMemory(m, size), NEW d \in Nat, NEW s \in Nat,
         NEW n \in Nat, s + n <= size
  PROVE  memmove(m, d, s, n) = Copied(m, d, s, 0, n)
<1>1. PICK w \in Nat : /\ w = IF s % WORD = 0 /\ d % WORD = 0 /\ n % WORD = 0 THEN WORD ELSE 1
                      /\ w # 0 /\ n % w = 0
  BY StringsAssumption
<1>2. PICK q, r : Divided(n, w, q, r)
  BY DEF Divided
<1>3. q \in Nat /\ n = q * w /\ q = n \div w
  <2>1. q \in Nat /\ r \in 0 .. w - 1 /\ n = q * w + r
    BY <1>1, <1>2, Division
  <2>2. r = 0 /\ q = n \div w
    BY <1>1, <1>2 DEF Divided
  <2>3. q * w \in Nat
    BY <1>1, <2>1
  <2> QED BY <2>1, <2>2, <2>3
<1>4. PICK x : x = memmove(m, d, s, n) /\ IsMove(x, m, d, s, n, q, w)
  BY <1>1, <1>3 DEF memmove, move, IsMove
<1>5. Units(n, q, w) /\ w # 0 /\ q \in Nat
  BY <1>1, <1>3 DEF Units
<1>6. x = Copied(m, d, s, 0, n)
  BY <1>4, <1>5, RepMovs
<1> QED
  BY <1>4, <1>6

----------------------------------------------------------------------------
(* What was called, and what it has returned *)

\* The calls whose results are proved to be right.
CallOK ==
  /\ call.fn = "memmove" =>
       /\ call.d \in Nat /\ call.s \in Nat /\ call.n \in Nat
       /\ call.d + call.n <= MemSize /\ call.s + call.n <= MemSize
  /\ call.fn = "bootmain" => call.ph \in Layouts
  /\ call.fn = "user_mem_check" =>
       /\ call.table \in PageTables /\ call.va \in 0 .. ADDRS - 1
       /\ call.len \in 0 .. ADDRS - 1 /\ call.perm \in Ask

\* The memory in which Boot has left the kernel ph.
Booted(ph) ==
  memset(bootmain([a \in 0 .. ImageBytes(ph) - 1 |-> Unread], ph),
         ph[Len(ph)].p_pa + ph[Len(ph)].p_filesz, 0, ph[Len(ph)].p_memsz - ph[Len(ph)].p_filesz)

\* A result is that of the call.
ResultOK ==
  result # <<>> =>
    /\ call.fn = "memmove" => result[1] = memmove(Bytes(MemSize), call.d, call.s, call.n)
    /\ call.fn = "bootmain" => result[1] = Booted(call.ph)
    /\ call.fn = "user_mem_check" =>
         result[1] = user_mem_check(call.table, call.va, call.len, call.perm)

IInv == CallOK /\ ResultOK

\* The program calls functions on the inputs of Init alone.
LEMMA InitCall ==
  Init => IInv
<1> SUFFICES ASSUME Init PROVE IInv
  OBVIOUS
<1>1. ResultOK
  BY DEF Init, ResultOK
<1>2. CASE \E c \in Moves : c.d + c.n <= MemSize /\ c.s + c.n <= MemSize /\ call = c
  BY <1>1, <1>2, LibraryAssumption DEF IInv, CallOK, Moves
<1>3. CASE \E c \in Checks : call = c
  BY <1>1, <1>3 DEF IInv, CallOK, Checks
<1>4. CASE \E ph \in Layouts : call = [fn |-> "bootmain", ph |-> ph]
  BY <1>1, <1>4 DEF IInv, CallOK
<1>5. CASE \/ \E c \in Prints : (c.neg => c.padc = "0") /\ call = c
           \/ \E ds \in Directives : call = [fn |-> "cprintf", ds |-> ds]
           \/ \E ds \in Directives, n \in Sizes : call = [fn |-> "snprintf", ds |-> ds, n |-> n]
           \/ \E c \in Lookups : call = c
           \/ \E line \in Lines : call = [fn |-> "runcmd", line |-> line]
  <2>1. call.fn \in {"printnum", "cprintf", "snprintf", "debuginfo_eip", "runcmd"}
    <3>1. \A c \in Prints : c.fn = "printnum"
      BY DEF Prints
    <3>2. \A c \in Lookups : c.fn = "debuginfo_eip"
      BY DEF Lookups
    <3> QED BY <1>5, <3>1, <3>2
  <2> QED BY <1>1, <2>1 DEF IInv, CallOK
<1> QED
  BY <1>2, <1>3, <1>4, <1>5 DEF Init

\* A call returns its own result.
LEMMA StepResult ==
  IInv /\ [Next]_vars => IInv'
<1> SUFFICES ASSUME IInv, [Next]_vars PROVE IInv'
  OBVIOUS
<1>1. CASE UNCHANGED vars
  BY <1>1 DEF IInv, CallOK, ResultOK, vars
<1>2. CASE Memmove
  BY <1>2 DEF IInv, CallOK, ResultOK, Memmove, Return
<1>3. CASE Boot
  BY <1>3 DEF IInv, CallOK, ResultOK, Boot, Booted, Return
<1>4. CASE Check
  BY <1>4 DEF IInv, CallOK, ResultOK, Check, Return
<1>5. CASE Printnum \/ Cprint \/ Snprint \/ Lookup \/ Runcmd
  <2>1. call.fn \in {"printnum", "cprintf", "snprintf", "debuginfo_eip", "runcmd"} /\ call' = call
    BY <1>5 DEF Printnum, Cprint, Snprint, Lookup, Runcmd, Return
  <2> QED BY <2>1 DEF IInv, CallOK, ResultOK
<1> QED
  BY <1>1, <1>2, <1>3, <1>4, <1>5 DEF Next

\* So every result is that of the call.
LEMMA Results ==
  Spec => []IInv
<1> QED
  BY InitCall, StepResult, PTL DEF Spec

\* memmove copies as if through a temporary, from whichever end and in whichever
\* unit: nothing is overwritten before it has been copied.
THEOREM MemmoveCorrect ==
  Spec => []MemmoveCopies
<1>1. IInv => MemmoveCopies
  <2> SUFFICES ASSUME IInv, Returned("memmove") PROVE MemmoveCopies
    BY DEF MemmoveCopies
  <2>1. /\ call.d \in Nat /\ call.s \in Nat /\ call.n \in Nat
        /\ call.d + call.n <= MemSize /\ call.s + call.n <= MemSize
        /\ result[1] = memmove(Bytes(MemSize), call.d, call.s, call.n)
    BY DEF IInv, CallOK, ResultOK, Returned
  <2>2. PICK d \in Nat, s \in Nat, n \in Nat : d = call.d /\ s = call.s /\ n = call.n
    BY <2>1
  <2>3. PICK m, r : m = Bytes(MemSize) /\ r = result[1]
    OBVIOUS
  <2>4. IsMemory(m, MemSize) /\ MemSize \in Nat /\ \A a \in 0 .. MemSize - 1 : m[a] = a
    BY <2>3, LibraryAssumption DEF IsMemory, Bytes
  <2>5. r = memmove(m, d, s, n) /\ s + n <= MemSize /\ d + n <= MemSize
    BY <2>1, <2>2, <2>3
  <2>6. r = Copied(m, d, s, 0, n)
    BY <2>4, <2>5, MemmoveIs
  <2>7. \A a \in 0 .. MemSize - 1 : r[a] = IF a \in d .. d + n - 1 THEN m[a - d + s] ELSE a
    BY <2>4, <2>6 DEF Copied, IsMemory
  <2>8. \A a \in 0 .. MemSize - 1 : a \in d .. d + n - 1 =>
          a - d + s \in 0 .. MemSize - 1 /\ a - d + s = s + a - d
    BY <2>4, <2>5
  <2>9. \A a \in 0 .. MemSize - 1 : r[a] = IF a \in d .. d + n - 1 THEN s + a - d ELSE a
    BY <2>4, <2>7, <2>8
  <2> QED BY <2>2, <2>3, <2>9 DEF MemmoveCopies
<1> QED
  BY <1>1, Results, PTL

----------------------------------------------------------------------------
(* Pages *)

\* The address a lies in the page q.
OnPage(a, q) == a \in Nat /\ q \in Nat /\ q * PGSIZE <= a /\ a < q * PGSIZE + PGSIZE

\* The first page ends where the second begins, or earlier.
LEMMA PagesApart ==
  ASSUME NEW p \in Nat, NEW q \in Nat, p < q
  PROVE  /\ p * PGSIZE \in Nat /\ q * PGSIZE \in Nat
         /\ p * PGSIZE + PGSIZE <= q * PGSIZE
<1>0. PICK n \in Nat : n = PGSIZE /\ n # 0
  BY UserMemAssumption
<1>1. PICK p1 \in Nat : p1 = p + 1 /\ p1 <= q
  OBVIOUS
<1>2. p1 * n <= q * n /\ p1 * n \in Nat /\ q * n \in Nat
  BY <1>1, ProductMonotone
<1>3. p1 * n = p * n + n /\ p * n \in Nat
  BY <1>1
<1> QED
  BY <1>0, <1>2, <1>3

\* Addresses and their pages come in the same order.
LEMMA PageOrder ==
  ASSUME NEW a, NEW b, NEW p, NEW q, OnPage(a, p), OnPage(b, q), a <= b
  PROVE  p <= q
<1>0. PGSIZE \in Nat /\ p \in Nat /\ q \in Nat /\ a \in Nat /\ b \in Nat
  BY UserMemAssumption DEF OnPage
<1> SUFFICES ASSUME q < p PROVE FALSE
  BY <1>0
<1>1. q * PGSIZE + PGSIZE <= p * PGSIZE /\ q * PGSIZE \in Nat /\ p * PGSIZE \in Nat
  BY <1>0, PagesApart
<1> QED
  BY <1>0, <1>1 DEF OnPage

\* Every address lies in a page, where ROUNDDOWN takes it to the start.
LEMMA PageFound ==
  ASSUME NEW a \in Nat
  PROVE  OnPage(a, PageOf(a)) /\ RoundDown(a) = PageOf(a) * PGSIZE
<1>0. PICK n \in Nat : n = PGSIZE /\ n # 0
  BY UserMemAssumption
<1>1. PICK q, r : Divided(a, n, q, r)
  BY DEF Divided
<1>2. q \in Nat /\ r \in 0 .. n - 1 /\ a = q * n + r
  BY <1>0, <1>1, Division
<1>3. q = PageOf(a) /\ r = a % n
  BY <1>0, <1>1 DEF Divided, PageOf
<1>4. q * n \in Nat
  BY <1>2
<1>5. RoundDown(a) = q * n
  BY <1>0, <1>2, <1>3, <1>4 DEF RoundDown
<1>6. OnPage(a, q)
  BY <1>0, <1>2, <1>4 DEF OnPage
<1> QED
  BY <1>0, <1>3, <1>5, <1>6

\* The page is the only one.
LEMMA PageUnique ==
  ASSUME NEW a, NEW q, OnPage(a, q)
  PROVE  PageOf(a) = q
<1>1. a \in Nat /\ q \in Nat /\ a <= a
  BY DEF OnPage
<1>2. PICK p : p = PageOf(a) /\ OnPage(a, p)
  BY <1>1, PageFound
<1>3. p <= q /\ q <= p /\ p \in Nat
  BY <1>1, <1>2, PageOrder DEF OnPage
<1> QED
  BY <1>1, <1>2, <1>3

\* The start of a page is on it.
LEMMA PageStart ==
  ASSUME NEW q \in Nat
  PROVE  q * PGSIZE \in Nat /\ OnPage(q * PGSIZE, q)
<1>1. PGSIZE \in Nat /\ PGSIZE # 0 /\ q * PGSIZE \in Nat
  BY UserMemAssumption
<1> QED
  BY <1>1 DEF OnPage

\* The first address that is rounded to itself.
LEMMA PageExact ==
  ASSUME NEW a \in Nat, a % PGSIZE = 0
  PROVE  a = PageOf(a) * PGSIZE /\ PageOf(a) \in Nat
<1>1. RoundDown(a) = PageOf(a) * PGSIZE /\ PageOf(a) \in Nat
  BY PageFound DEF OnPage
<1> QED
  BY <1>1 DEF RoundDown

\* All addresses of a page are out of reach, or none is.
LEMMA BadPage ==
  ASSUME NEW a, NEW q, OnPage(a, q), NEW table, NEW perm
  PROVE  bad(table, a, perm) <=> bad(table, q * PGSIZE, perm)
<1>1. q \in Nat /\ a \in Nat
  BY DEF OnPage
<1>2. q * PGSIZE \in Nat /\ OnPage(q * PGSIZE, q)
  BY <1>1, PageStart
<1>3. PageOf(a) = q /\ PageOf(q * PGSIZE) = q
  BY <1>2, PageUnique
<1>4. a >= ULIM <=> q * PGSIZE >= ULIM
  <2>1. PICK u : u = PageOf(ULIM) /\ u \in Nat /\ ULIM = u * PGSIZE
    BY UserMemAssumption, PageExact
  <2>2. PGSIZE \in Nat /\ ULIM \in Nat
    BY UserMemAssumption
  <2>3. OnPage(ULIM, u)
    BY <2>1, PageStart
  <2>4. a >= ULIM => q * PGSIZE >= ULIM
    <3>1. a >= ULIM => u <= q
      BY <1>1, <2>2, <2>3, PageOrder
    <3>2. CASE u < q
      BY <1>1, <1>2, <2>1, <2>2, <3>2, PagesApart
    <3>3. CASE u = q
      BY <1>2, <2>1, <2>2, <3>3
    <3> QED BY <1>1, <2>1, <3>1, <3>2, <3>3
  <2>5. q * PGSIZE >= ULIM => a >= ULIM
    BY <1>1, <1>2, <2>2 DEF OnPage
  <2> QED BY <2>4, <2>5
<1> QED
  BY <1>3, <1>4 DEF bad

----------------------------------------------------------------------------
(* user_mem_check *)

\* j is the first bad page of the n from the page q on, or n.
FirstOf(j, n, q, table, perm) ==
  /\ j \in 0 .. n
  /\ \A i \in 0 .. j - 1 : ~ bad(table, (q + i) * PGSIZE, perm)
  /\ j < n => bad(table, (q + j) * PGSIZE, perm)

\* There is one.
LEMMA FirstExists ==
  ASSUME NEW n \in Nat, NEW q, NEW table, NEW perm
  PROVE  \E j : FirstOf(j, n, q, table, perm)
<1> DEFINE Is(i) == bad(table, (q + i) * PGSIZE, perm)
           S == {i \in 0 .. n - 1 : Is(i)}
<1>1. CASE S = {}
  <2>1. \A i \in 0 .. n - 1 : ~ Is(i)
    BY <1>1
  <2>2. FirstOf(n, n, q, table, perm)
    BY <2>1 DEF FirstOf
  <2> QED BY <2>2
<1>2. CASE S # {}
  <2>1. PICK j \in S : \A i \in S : j <= i
    <3>1. S \in SUBSET Nat
      OBVIOUS
    <3> HIDE DEF S
    <3> QED BY <1>2, <3>1, LeastExists
  <2>2. j \in 0 .. n - 1 /\ Is(j)
    BY <2>1
  <2>3. \A i \in 0 .. j - 1 : ~ Is(i)
    <3> SUFFICES ASSUME NEW i \in 0 .. j - 1, Is(i) PROVE FALSE
      OBVIOUS
    <3>1. i \in 0 .. n - 1 /\ ~ (j <= i)
      BY <2>2
    <3>2. i \in S
      BY <3>1
    <3> QED BY <2>1, <3>1, <3>2
  <2>4. FirstOf(j, n, q, table, perm)
    BY <2>2, <2>3 DEF FirstOf
  <2> QED BY <2>4
<1> QED
  BY <1>1, <1>2

\* The loop stops there.
LEMMA LoopStops ==
  ASSUME NEW q \in Nat, NEW e \in Nat, q <= e, NEW table, NEW perm,
         NEW j, FirstOf(j, e - q, q, table, perm)
  PROVE  first_bad(table, q * PGSIZE, e * PGSIZE, perm) = (q + j) * PGSIZE
<1>0. PICK n \in Nat, a \in Nat, b \in Nat : n = e - q /\ a = q * PGSIZE /\ b = e * PGSIZE
  <2>1. e - q \in Nat
    OBVIOUS
  <2> QED BY <2>1, PageStart
<1>1. PGSIZE \in Nat /\ j \in 0 .. n
  BY <1>0, UserMemAssumption DEF FirstOf
<1>2. (b - a) \div PGSIZE = n
  <2>1. n * PGSIZE = e * PGSIZE - q * PGSIZE
    BY <1>0, <1>1
  <2>2. n * PGSIZE = b - a
    BY <1>0, <2>1
  <2>3. PageOf(n * PGSIZE) = n
    BY PageStart, PageUnique
  <2> QED BY <2>2, <2>3 DEF PageOf
<1> DEFINE Step(g) == [k \in 0 .. n |-> IF k = 0 THEN a
                                        ELSE IF bad(table, g[k - 1], perm) THEN g[k - 1] ELSE g[k - 1] + PGSIZE]
           at == CHOOSE g : g = Step(g)
           Stop(k) == (q + (IF k <= j THEN k ELSE j)) * PGSIZE
           h == [k \in 0 .. n |-> Stop(k)]
<1>3. first_bad(table, a, b, perm) = at[n]
  BY <1>2 DEF first_bad
<1>4. Stop(0) = a
  BY <1>0, <1>1
<1>5. ASSUME NEW k \in 1 .. n
      PROVE  Stop(k) = IF bad(table, Stop(k - 1), perm) THEN Stop(k - 1) ELSE Stop(k - 1) + PGSIZE
  <2>1. CASE k <= j
    <3>1. k - 1 \in 0 .. j - 1 /\ k - 1 <= j
      BY <1>1, <2>1
    <3>2. Stop(k - 1) = (q + (k - 1)) * PGSIZE /\ Stop(k) = (q + k) * PGSIZE
      BY <2>1, <3>1
    <3>3. ~ bad(table, Stop(k - 1), perm)
      BY <3>1, <3>2 DEF FirstOf
    <3>4. PICK x \in Nat : x = q + (k - 1) /\ q + k = x + 1
      BY <3>1, <1>1
    <3>5. (x + 1) * PGSIZE = x * PGSIZE + PGSIZE
      BY <1>1, <3>4
    <3>6. Stop(k) = Stop(k - 1) + PGSIZE
      <4> HIDE DEF Stop
      <4> QED BY <3>2, <3>4, <3>5
    <3> HIDE DEF Stop
    <3> QED BY <3>3, <3>6
  <2>2. CASE ~ (k <= j)
    <3>1. j <= k - 1 /\ j < n
      BY <1>1, <2>2
    <3>2. Stop(k - 1) = (q + j) * PGSIZE /\ Stop(k) = (q + j) * PGSIZE
      BY <1>1, <2>2, <3>1
    <3>3. bad(table, Stop(k - 1), perm)
      BY <1>0, <3>1, <3>2 DEF FirstOf
    <3> HIDE DEF Stop
    <3> QED BY <3>2, <3>3
  <2> QED BY <2>1, <2>2
<1>6. Stop(n) = (q + j) * PGSIZE
  BY <1>1
<1> HIDE DEF Stop
<1>7. h = Step(h)
  <2> SUFFICES ASSUME NEW k \in 0 .. n
               PROVE  h[k] = IF k = 0 THEN a
                             ELSE IF bad(table, h[k - 1], perm) THEN h[k - 1] ELSE h[k - 1] + PGSIZE
    OBVIOUS
  <2>1. CASE k = 0
    BY <1>4, <2>1
  <2>2. CASE k # 0
    <3>1. k \in 1 .. n /\ k - 1 \in 0 .. n
      BY <2>2
    <3> QED BY <1>5, <2>2, <3>1
  <2> QED BY <2>1, <2>2
<1>8. at = Step(at)
  <2> HIDE DEF h, Step
  <2> QED BY <1>7
<1> HIDE DEF at
<1>9. \A k \in 0 .. n : at[k] = IF k = 0 THEN a
                                ELSE IF bad(table, at[k - 1], perm) THEN at[k - 1] ELSE at[k - 1] + PGSIZE
  BY <1>8
<1> HIDE DEF Step, h
<1> DEFINE Good == {k \in 0 .. n : at[k] = Stop(k)}
<1>10. 0 \in Good
  BY <1>4, <1>9
<1>11. \A k \in 1 .. n : k - 1 \in Good => k \in Good
  BY <1>5, <1>9
<1>12. n \in Good
  <2> HIDE DEF Good
  <2> QED BY <1>10, <1>11, Passes
<1> QED
  BY <1>0, <1>3, <1>6, <1>12

\* e is where the pages of the len bytes at va end.
RangeEnd(va, len, e) ==
  /\ e \in Nat /\ RoundUp(va + len) = e * PGSIZE
  /\ \A a \in va .. va + len - 1 : PageOf(a) < e
  /\ e # 0 /\ (e - 1) * PGSIZE <= va + len - 1

\* ROUNDUP finds it, as the range does not reach the last page.
LEMMA RangeEnds ==
  ASSUME NEW va \in Nat, NEW len \in Nat, len # 0, va + len <= ADDRS - PGSIZE
  PROVE  \E e : RangeEnd(va, len, e)
<1>0. PGSIZE \in Nat /\ PGSIZE # 0 /\ ADDRS \in Nat
  BY UserMemAssumption
<1>1. PICK y \in Nat : y = va + len + PGSIZE - 1
  BY <1>0
<1>2. PICK e : e = PageOf(y) /\ OnPage(y, e) /\ RoundDown(y) = e * PGSIZE
  BY <1>1, PageFound
<1>3. PICK b \in Nat : b = e * PGSIZE
  BY <1>2, PageStart DEF OnPage
<1>4. b <= y /\ y < b + PGSIZE /\ y < ADDRS /\ e \in Nat
  BY <1>0, <1>1, <1>2, <1>3 DEF OnPage
<1>5. b % ADDRS = b
  BY <1>0, <1>4
<1>6. RoundUp(va + len) = b
  BY <1>1, <1>2, <1>3, <1>5 DEF RoundUp
<1>7. ASSUME NEW a \in va .. va + len - 1 PROVE PageOf(a) < e
  <2>1. a \in Nat /\ a < b
    BY <1>0, <1>1, <1>4
  <2>2. PICK p : p = PageOf(a) /\ OnPage(a, p) /\ p \in Nat
    BY <2>1, PageFound DEF OnPage
  <2>3. p # e
    BY <1>3, <2>1, <2>2 DEF OnPage
  <2>4. ~ (e < p)
    <3> SUFFICES ASSUME e < p PROVE FALSE
      OBVIOUS
    <3>1. e * PGSIZE + PGSIZE <= p * PGSIZE /\ p * PGSIZE \in Nat
      BY <1>4, <2>2, PagesApart
    <3>2. p * PGSIZE <= a
      BY <2>2 DEF OnPage
    <3> QED BY <1>0, <1>3, <2>1, <3>1, <3>2
  <2> QED BY <1>4, <2>2, <2>3, <2>4
<1>8. e # 0
  <2>1. PageOf(va) < e /\ PageOf(va) \in Nat
    BY <1>7, PageFound DEF OnPage
  <2> QED BY <2>1
<1>9. (e - 1) * PGSIZE <= va + len - 1
  <2>1. PICK c \in Nat : c = e - 1 /\ c + 1 = e
    BY <1>4, <1>8
  <2>2. c < e /\ c * PGSIZE \in Nat /\ c * PGSIZE + PGSIZE <= e * PGSIZE
    BY <1>4, <2>1, PagesApart
  <2> QED BY <1>0, <1>1, <1>3, <1>4, <2>1, <2>2
<1> QED
  BY <1>3, <1>4, <1>6, <1>7, <1>8, <1>9 DEF RangeEnd

\* What user_mem_check returns: no byte of the range is bad, or x is the first.
Checked(r, table, va, len, perm) ==
  IF r.ok THEN \A a \in va .. va + len - 1 : ~ bad(table, a, perm)
  ELSE \E x \in va .. va + len - 1 :
         /\ r.user_mem_check_addr = x /\ bad(table, x, perm)
         /\ \A a \in va .. va + len - 1 : bad(table, a, perm) => x <= a

\* The address a lies in the page p, which is bad if a is.
InBad(a, p, table, perm) ==
  OnPage(a, p) /\ (bad(table, a, perm) => bad(table, p * PGSIZE, perm))

\* user_mem_check looks at every page of the range and at no other.
LEMMA CheckIs ==
  ASSUME NEW va \in Nat, NEW len \in Nat, len # 0, va + len <= ADDRS - PGSIZE,
         NEW table, NEW perm, NEW r, r = user_mem_check(table, va, len, perm)
  PROVE  Checked(r, table, va, len, perm)
<1>0. PGSIZE \in Nat /\ PGSIZE # 0
  BY UserMemAssumption
<1>1. PICK e : RangeEnd(va, len, e)
  BY RangeEnds
<1>2. PICK q : q = PageOf(va) /\ OnPage(va, q) /\ RoundDown(va) = q * PGSIZE
  BY PageFound
<1>3. e \in Nat /\ q \in Nat /\ q < e /\ RoundUp(va + len) = e * PGSIZE
  BY <1>1, <1>2 DEF RangeEnd, OnPage
<1>4. PICK n \in Nat : n = e - q /\ n # 0
  BY <1>3
<1>5. PICK j : FirstOf(j, n, q, table, perm)
  BY FirstExists
<1>6. j \in Nat /\ j <= n /\ q + j \in Nat
  BY <1>3, <1>4, <1>5 DEF FirstOf
<1>7. PICK at \in Nat : at = (q + j) * PGSIZE /\ OnPage(at, q + j)
  BY <1>6, PageStart
<1>8. first_bad(table, q * PGSIZE, e * PGSIZE, perm) = at
  BY <1>3, <1>4, <1>5, <1>7, LoopStops
<1>9. PICK a0 \in Nat, end \in Nat : a0 = q * PGSIZE /\ end = e * PGSIZE /\ a0 + PGSIZE <= end
  BY <1>3, PagesApart
<1>10. r = IF at = end THEN [ok |-> TRUE]
           ELSE [ok |-> FALSE, user_mem_check_addr |-> IF at < va THEN va ELSE at]
  <2>1. a0 < end
    BY <1>0, <1>9
  <2>2. RoundDown(va) = a0 /\ RoundUp(va + len) = end /\ first_bad(table, a0, end, perm) = at
    BY <1>2, <1>3, <1>8, <1>9
  <2> QED BY <2>1, <2>2 DEF user_mem_check
<1>11. ASSUME NEW a \in va .. va + len - 1
       PROVE  \E i \in 0 .. n - 1 : InBad(a, q + i, table, perm)
  <2>1. a \in Nat /\ va <= a
    OBVIOUS
  <2>2. PICK p : p = PageOf(a) /\ OnPage(a, p)
    BY <2>1, PageFound
  <2>3. q <= p /\ p \in Nat
    BY <1>2, <2>1, <2>2, PageOrder DEF OnPage
  <2>4. p < e
    BY <1>1, <2>2 DEF RangeEnd
  <2>5. PICK i \in 0 .. n - 1 : p = q + i
    <3>1. p - q \in 0 .. n - 1 /\ p = q + (p - q)
      BY <1>3, <1>4, <2>3, <2>4
    <3> QED BY <3>1
  <2>6. bad(table, a, perm) <=> bad(table, p * PGSIZE, perm)
    BY <2>2, BadPage
  <2> QED BY <2>2, <2>5, <2>6 DEF InBad
<1>12. CASE j = n
  <2>1. q + j = e
    BY <1>3, <1>4, <1>12
  <2>2. at = end
    BY <1>7, <1>9, <2>1
  <2>3. r = [ok |-> TRUE]
    BY <1>10, <2>2
  <2>4. \A i \in 0 .. n - 1 : ~ bad(table, (q + i) * PGSIZE, perm)
    BY <1>5, <1>12 DEF FirstOf
  <2>5. ASSUME NEW a \in va .. va + len - 1 PROVE ~ bad(table, a, perm)
    <3>1. PICK i \in 0 .. n - 1 : InBad(a, q + i, table, perm)
      BY <1>11
    <3> QED BY <2>4, <3>1 DEF InBad
  <2> QED BY <2>3, <2>5 DEF Checked
<1>13. CASE j # n
  <2>1. q + j < e /\ j < n
    BY <1>3, <1>4, <1>6, <1>13
  <2>2. at + PGSIZE <= end
    BY <1>3, <1>6, <1>7, <1>9, <2>1, PagesApart
  <2>3. PICK x : x = IF at < va THEN va ELSE at
    OBVIOUS
  <2>4. r.ok = FALSE /\ r.user_mem_check_addr = x
    BY <1>0, <1>10, <2>2, <2>3
  <2>5. bad(table, at, perm)
    BY <1>5, <1>7, <2>1 DEF FirstOf
  <2>6. bad(table, x, perm)
    <3>1. CASE at < va
      <4>1. q + j <= q
        <5>1. at <= va
          BY <3>1
        <5> QED BY <1>2, <1>7, <5>1, PageOrder
      <4>2. j = 0 /\ q + j = q
        BY <1>3, <1>6, <4>1
      <4>3. at = q * PGSIZE
        BY <1>7, <4>2
      <4>4. bad(table, va, perm)
        BY <1>2, <2>5, <4>3, BadPage
      <4> QED BY <2>3, <3>1, <4>4
    <3>2. CASE ~ (at < va)
      BY <2>3, <2>5, <3>2
    <3> QED BY <3>1, <3>2
  <2>7. x \in va .. va + len - 1
    <3>1. at <= va + len - 1
      <4>1. PICK c \in Nat : c = e - 1 /\ q + j <= c
        BY <1>3, <1>6, <2>1
      <4>2. (q + j) * PGSIZE <= c * PGSIZE /\ c * PGSIZE \in Nat
        BY <1>0, <1>6, <4>1, ProductMonotone
      <4>3. c * PGSIZE <= va + len - 1
        BY <1>1, <4>1 DEF RangeEnd
      <4> QED BY <1>7, <4>2, <4>3
    <3> QED BY <2>3, <3>1
  <2>8. ASSUME NEW a \in va .. va + len - 1, bad(table, a, perm) PROVE x <= a
    <3>0. PICK i \in 0 .. n - 1 : InBad(a, q + i, table, perm)
      BY <1>11
    <3>1. OnPage(a, q + i) /\ bad(table, (q + i) * PGSIZE, perm)
      BY <2>8, <3>0 DEF InBad
    <3>2. ~ (i \in 0 .. j - 1)
      BY <1>5, <3>1 DEF FirstOf
    <3>3. q + j <= q + i /\ q + i \in Nat
      BY <1>3, <1>6, <3>2
    <3>4. (q + j) * PGSIZE <= (q + i) * PGSIZE /\ (q + i) * PGSIZE \in Nat
      <4>1. PICK y \in Nat, z \in Nat : y = q + j /\ z = q + i /\ y <= z
        BY <1>6, <3>3
      <4>2. y * PGSIZE <= z * PGSIZE /\ z * PGSIZE \in Nat
        BY <1>0, <4>1, ProductMonotone
      <4> QED BY <4>1, <4>2
    <3>5. (q + i) * PGSIZE <= a
      BY <3>1 DEF OnPage
    <3> QED BY <1>7, <2>3, <3>4, <3>5
  <2> QED BY <2>4, <2>6, <2>7, <2>8 DEF Checked
<1> QED
  BY <1>12, <1>13

\* A number below ADDRS, or that far above it or above its double.
LEMMA Wraps ==
  ASSUME NEW c \in Nat, c < ADDRS
  PROVE  c % ADDRS = c /\ (ADDRS + c) % ADDRS = c /\ (ADDRS + ADDRS) % ADDRS = 0
<1>0. PICK n \in Nat : n = ADDRS /\ n # 0
  BY UserMemAssumption
<1>1. c % n = c
  BY <1>0
<1>2. (n + c) % n = c
  BY <1>0
<1>3. (n + n) % n = 0
  BY <1>0
<1> QED
  BY <1>0, <1>1, <1>2, <1>3

\* A range of no bytes, or one that ends in the last page or wraps around, has for
\* its end at most the page behind the one it begins in.
LEMMA ShortRange ==
  ASSUME NEW va \in 0 .. ADDRS - 1, NEW len \in 0 .. ADDRS - 1,
         len = 0 \/ va + len > ADDRS - PGSIZE,
         NEW q, OnPage(va, q)
  PROVE  \E e \in Nat : RoundUp(va + len) = e * PGSIZE /\ e <= q + 1
<1>0. PGSIZE \in Nat /\ PGSIZE # 0 /\ ADDRS \in Nat /\ q \in Nat /\ va \in Nat /\ len \in Nat
  BY UserMemAssumption DEF OnPage
<1>1. PICK y \in Nat : y = va + len + PGSIZE - 1
  BY <1>0
<1>2. PICK k \in Nat, b \in Nat : OnPage(y, k) /\ RoundDown(y) = b /\ b = k * PGSIZE
  BY <1>1, PageFound, PageStart DEF OnPage
<1>3. PICK n \in Nat : ADDRS = n * PGSIZE
  BY UserMemAssumption, PageExact
<1>4. RoundUp(va + len) = b % ADDRS
  BY <1>1, <1>2 DEF RoundUp
<1>5. OnPage(va + PGSIZE, q + 1)
  <2>1. (q + 1) * PGSIZE = q * PGSIZE + PGSIZE /\ q * PGSIZE \in Nat
    BY <1>0
  <2> QED BY <1>0, <2>1 DEF OnPage
<1>6. b <= y /\ y < b + PGSIZE
  BY <1>2 DEF OnPage
<1>7. CASE b < ADDRS
  <2>1. k < n
    <3>1. n <= k => n * PGSIZE <= k * PGSIZE
      BY <1>0, ProductMonotone
    <3> QED BY <1>0, <1>2, <1>3, <1>7, <3>1
  <2>2. b + PGSIZE <= ADDRS
    BY <1>2, <1>3, <2>1, PagesApart
  <2>3. len = 0
    BY <1>0, <1>1, <1>6, <2>2
  <2>4. k <= q + 1
    <3>1. y <= va + PGSIZE
      BY <1>0, <1>1, <2>3
    <3> QED BY <1>2, <1>5, <3>1, PageOrder
  <2>5. b % ADDRS = b
    BY <1>7, Wraps
  <2> QED BY <1>2, <1>4, <2>4, <2>5
<1>8. CASE b >= ADDRS
  <2>1. n <= k
    <3>1. k < n => k * PGSIZE + PGSIZE <= n * PGSIZE
      BY PagesApart
    <3> QED BY <1>0, <1>2, <1>3, <1>8, <3>1
  <2>2. PICK c \in Nat, d \in Nat : c = k - n /\ d = c * PGSIZE /\ b = ADDRS + d
    <3>1. PICK c \in Nat : c = k - n /\ k = n + c
      BY <2>1
    <3>2. k * PGSIZE = n * PGSIZE + c * PGSIZE /\ c * PGSIZE \in Nat
      BY <1>0, <3>1
    <3> QED BY <1>2, <1>3, <3>1, <3>2
  <2>3. c <= q + 1
    <3>1. PICK x \in Nat : x = y - ADDRS /\ d <= x /\ x < d + PGSIZE /\ x <= va + PGSIZE
      BY <1>0, <1>1, <1>6, <2>2
    <3>2. OnPage(x, c)
      BY <2>2, <3>1 DEF OnPage
    <3> QED BY <1>5, <3>1, <3>2, PageOrder
  <2>4. CASE d < ADDRS
    <3>1. b % ADDRS = d
      BY <2>2, <2>4, Wraps
    <3> QED BY <1>4, <2>2, <2>3, <3>1
  <2>5. CASE d >= ADDRS
    <3>1. d < ADDRS + PGSIZE
      BY <1>0, <1>1, <1>6, <2>2
    <3>2. c = n
      <4>1. c < n => c * PGSIZE + PGSIZE <= n * PGSIZE
        BY PagesApart
      <4>2. n < c => n * PGSIZE + PGSIZE <= c * PGSIZE
        BY PagesApart
      <4> QED BY <1>0, <1>3, <2>2, <2>5, <3>1, <4>1, <4>2
    <3>3. b % ADDRS = 0
      <4>1. b = ADDRS + ADDRS
        BY <1>3, <2>2, <3>2
      <4>2. 0 < ADDRS
        BY <1>0
      <4> QED BY <4>1, <4>2, Wraps
    <3>4. 0 * PGSIZE = 0 /\ 0 <= q + 1
      BY <1>0
    <3> QED BY <1>4, <3>3, <3>4
  <2> QED BY <1>0, <2>2, <2>4, <2>5
<1> QED
  BY <1>0, <1>2, <1>7, <1>8

\* Of such a range user_mem_check looks at no page but the first.
LEMMA FirstPageAlone ==
  ASSUME NEW va \in 0 .. ADDRS - 1, NEW len \in 0 .. ADDRS - 1,
         len = 0 \/ va + len > ADDRS - PGSIZE,
         NEW table, NEW perm, NEW r, r = user_mem_check(table, va, len, perm)
  PROVE  \/ r = [ok |-> TRUE]
         \/ r = [ok |-> FALSE, user_mem_check_addr |-> va] /\ bad(table, va, perm)
<1>0. PGSIZE \in Nat /\ PGSIZE # 0 /\ va \in Nat
  BY UserMemAssumption
<1>1. PICK q \in Nat, a0 \in Nat : OnPage(va, q) /\ RoundDown(va) = a0 /\ a0 = q * PGSIZE
  BY <1>0, PageFound, PageStart DEF OnPage
<1>2. PICK e \in Nat, end \in Nat : RoundUp(va + len) = end /\ end = e * PGSIZE /\ e <= q + 1
  BY <1>1, ShortRange, PageStart
<1>3. CASE e <= q
  <2>1. ~ (a0 < end)
    BY <1>0, <1>1, <1>2, <1>3, ProductMonotone
  <2>2. r = [ok |-> TRUE]
    BY <1>1, <1>2, <2>1 DEF user_mem_check
  <2> QED BY <2>2
<1>4. CASE e = q + 1
  <2>1. end = a0 + PGSIZE /\ a0 < end
    <3>1. (q + 1) * PGSIZE = q * PGSIZE + PGSIZE
      BY <1>0, <1>1
    <3> QED BY <1>0, <1>1, <1>2, <1>4, <3>1
  <2>2. PICK n \in Nat : n = 1 /\ n = e - q /\ q <= e
    BY <1>1, <1>4
  <2>3. PICK j : FirstOf(j, n, q, table, perm)
    BY FirstExists
  <2>4. j \in 0 .. 1
    BY <2>2, <2>3 DEF FirstOf
  <2>5. PICK at : at = (q + j) * PGSIZE /\ first_bad(table, a0, end, perm) = at
    BY <1>1, <1>2, <2>2, <2>3, LoopStops
  <2>6. r = IF at = end THEN [ok |-> TRUE]
            ELSE [ok |-> FALSE, user_mem_check_addr |-> IF at < va THEN va ELSE at]
    BY <1>1, <1>2, <2>1, <2>5 DEF user_mem_check
  <2>7. CASE j = 1
    BY <1>2, <1>4, <2>5, <2>6, <2>7
  <2>8. CASE j = 0
    <3>1. at = a0
      BY <1>1, <2>5, <2>8
    <3>2. bad(table, a0, perm)
      BY <1>1, <2>2, <2>3, <2>5, <2>8, <3>1 DEF FirstOf
    <3>3. bad(table, va, perm)
      BY <1>1, <3>2, BadPage
    <3>4. at # end /\ (IF at < va THEN va ELSE at) = va
      BY <1>0, <1>1, <2>1, <3>1 DEF OnPage
    <3> QED BY <2>6, <3>3, <3>4
  <2> QED BY <2>4, <2>7, <2>8
<1> QED
  BY <1>1, <1>2, <1>3, <1>4

\* The least number of a set.
LEMMA MinIs ==
  ASSUME NEW S \in SUBSET Int, NEW x \in S, \A a \in S : x <= a
  PROVE  Min(S) = x
<1>1. \A y \in S : (\A a \in S : y <= a) => y = x
  OBVIOUS
<1>2. Min(S) = CHOOSE y \in S : \A a \in S : y <= a
  BY DEF Min
<1> QED
  BY <1>1, <1>2

\* user_mem_check refuses a range exactly when some byte of it is out of reach, and
\* names the first, with two exceptions: of an empty range it may look at the page
\* of its start, and of one that ends in the last page or wraps around it looks at
\* the first page at most.
THEOREM ChecksCorrect ==
  Spec => []ChecksEveryByte
<1>1. IInv => ChecksEveryByte
  <2> SUFFICES ASSUME IInv, Returned("user_mem_check") PROVE ChecksEveryByte
    BY DEF ChecksEveryByte
  <2>0. PICK table, perm, r, va, len :
          /\ table = call.table /\ perm = call.perm /\ va = call.va /\ len = call.len
          /\ r = result[1]
    OBVIOUS
  <2>1. /\ va \in 0 .. ADDRS - 1 /\ len \in 0 .. ADDRS - 1
        /\ r = user_mem_check(table, va, len, perm)
    BY <2>0 DEF IInv, CallOK, ResultOK, Returned
  <2>2. ADDRS \in Nat /\ va \in Nat /\ len \in Nat
    BY <2>1, UserMemAssumption
  <2>3. /\ Erroneous \subseteq va .. va + len - 1
        /\ \A a \in va .. va + len - 1 : a \in Erroneous <=> bad(table, a % ADDRS, perm)
    BY <2>0 DEF Erroneous, bad
  <2>4. /\ r.ok => (AcceptsReachable <=> Erroneous = {}) /\ RefusesErroneous
        /\ ~ r.ok => /\ AcceptsReachable
                     /\ RefusesErroneous <=> Erroneous # {} /\ r.user_mem_check_addr = Min(Erroneous)
    BY <2>0 DEF AcceptsReachable, RefusesErroneous
  <2> HIDE DEF Erroneous, AcceptsReachable, RefusesErroneous
  <2>5. CASE len # 0 /\ va + len <= ADDRS - PGSIZE
    <3>1. Checked(r, table, va, len, perm)
      BY <2>1, <2>2, <2>5, CheckIs
    <3>2. \A a \in va .. va + len - 1 : a \in Erroneous <=> bad(table, a, perm)
      <4>1. \A a \in va .. va + len - 1 : a \in Nat /\ a < ADDRS
        BY <2>2, <2>5, UserMemAssumption
      <4> QED BY <2>3, <4>1, Wraps
    <3>3. CASE r.ok
      BY <2>3, <2>4, <3>1, <3>2, <3>3 DEF Checked, ChecksEveryByte
    <3>4. CASE ~ r.ok
      <4>1. PICK x \in va .. va + len - 1 :
              /\ r.user_mem_check_addr = x /\ bad(table, x, perm)
              /\ \A a \in va .. va + len - 1 : bad(table, a, perm) => x <= a
        BY <3>1, <3>4 DEF Checked
      <4>2. x \in Erroneous /\ \A a \in Erroneous : x <= a
        BY <2>3, <3>2, <4>1
      <4>3. Min(Erroneous) = x
        BY <2>2, <2>3, <4>2, MinIs
      <4> QED BY <2>4, <3>4, <4>1, <4>2, <4>3 DEF ChecksEveryByte
    <3> QED BY <3>3, <3>4
  <2>6. CASE len = 0 \/ va + len > ADDRS - PGSIZE
    <3>1. \/ r = [ok |-> TRUE]
          \/ r = [ok |-> FALSE, user_mem_check_addr |-> va] /\ bad(table, va, perm)
      BY <2>1, <2>6, FirstPageAlone
    <3>2. CASE len = 0 /\ r.ok
      <4>1. Erroneous = {}
        BY <2>2, <2>3, <3>2
      <4> QED BY <2>4, <3>2, <4>1 DEF ChecksEveryByte
    <3>3. CASE len = 0 /\ ~ r.ok
      BY <2>0, <3>1, <3>3 DEF ChecksEveryByte
    <3>4. CASE len # 0 /\ r.ok
      BY <2>0, <2>6, <3>4 DEF ChecksEveryByte
    <3>5. CASE len # 0 /\ ~ r.ok
      <4>1. r.user_mem_check_addr = va /\ bad(table, va, perm)
        BY <3>1, <3>5
      <4>2. va % ADDRS = va /\ va \in va .. va + len - 1
        BY <2>1, <2>2, <3>5, Wraps
      <4>3. va \in Erroneous
        BY <2>3, <4>1, <4>2
      <4>4. \A a \in Erroneous : va <= a
        BY <2>2, <2>3
      <4>5. Min(Erroneous) = va
        BY <2>2, <2>3, <4>3, <4>4, MinIs
      <4> QED BY <2>4, <3>5, <4>1, <4>3, <4>5 DEF ChecksEveryByte
    <3> QED BY <3>2, <3>3, <3>4, <3>5
  <2> QED BY <2>2, <2>5, <2>6, UserMemAssumption
<1> QED
  BY <1>1, Results, PTL

----------------------------------------------------------------------------
(* readseg *)

\* The offset of a in its sector.
LEMMA SectorIs ==
  ASSUME NEW a \in Nat
  PROVE  \E r \in 0 .. SECTSIZE - 1 : r = a % SECTSIZE /\ r <= a /\ Sector(a) = a - r
<1>0. PICK n \in Nat : n = SECTSIZE /\ n # 0
  BY BootloadAssumption
<1>1. PICK q, r : Divided(a, n, q, r)
  BY DEF Divided
<1>2. q \in Nat /\ r \in 0 .. n - 1 /\ a = q * n + r
  BY <1>0, <1>1, Division
<1>3. r = a % n /\ q * n \in Nat
  BY <1>1, <1>2 DEF Divided
<1> QED
  BY <1>0, <1>2, <1>3 DEF Sector

\* It is the same so many sectors further.
LEMMA SectorFurther ==
  ASSUME NEW a \in Nat, NEW k \in Nat, NEW b, b = a + k * SECTSIZE
  PROVE  b \in Nat /\ Sector(b) = Sector(a) + k * SECTSIZE
<1>0. PICK n \in Nat : n = SECTSIZE /\ n # 0
  BY BootloadAssumption
<1>1. PICK q, r : Divided(a, n, q, r)
  BY DEF Divided
<1>2. q \in Nat /\ r \in 0 .. n - 1 /\ a = q * n + r
  BY <1>0, <1>1, Division
<1>3. b \in Nat
  BY <1>0
<1>4. PICK x, y : Divided(b, n, x, y)
  BY DEF Divided
<1>5. x \in Nat /\ y \in 0 .. n - 1 /\ b = x * n + y
  BY <1>0, <1>3, <1>4, Division
<1>6. PICK z \in Nat : z = q + k
  BY <1>2
<1>7. b = z * n + r /\ z * n \in Nat /\ x * n \in Nat
  <2>1. z * n = q * n + k * n /\ q * n \in Nat /\ k * n \in Nat
    BY <1>2, <1>6
  <2> QED BY <1>0, <1>2, <1>5, <2>1
<1>8. y = r
  <2>1. CASE x < z
    <3>1. PICK c \in Nat : c = x + 1 /\ c <= z
      BY <1>5, <1>6, <2>1
    <3>2. c * n <= z * n /\ c * n = x * n + n
      BY <1>5, <3>1, ProductMonotone
    <3> QED BY <1>2, <1>5, <1>7, <3>2
  <2>2. CASE z < x
    <3>1. PICK c \in Nat : c = z + 1 /\ c <= x
      BY <1>5, <1>6, <2>2
    <3>2. c * n <= x * n /\ c * n = z * n + n
      BY <1>5, <3>1, ProductMonotone
    <3> QED BY <1>2, <1>5, <1>7, <3>2
  <2>3. CASE x = z
    <3>1. x * n = z * n
      BY <2>3
    <3> QED BY <1>2, <1>5, <1>7, <3>1
  <2> QED BY <1>5, <1>6, <2>1, <2>2, <2>3
<1>9. Sector(a) = a - r /\ Sector(b) = b - y
  BY <1>0, <1>1, <1>4 DEF Divided, Sector
<1> QED
  BY <1>0, <1>2, <1>3, <1>8, <1>9

\* The memory b with the file's bytes from the offset off at pa, in lo up to hi.
FileIn(b, lo, hi, pa, off) ==
  [a \in DOMAIN b |-> IF a \in lo .. hi - 1 THEN a - pa + off ELSE b[a]]

\* The sectors of a segment.
Aligned(pa, off) == pa \in Nat /\ off \in Nat /\ pa % SECTSIZE = off % SECTSIZE

\* The k-th sector is read where it belongs.
LEMMA SectorRead ==
  ASSUME NEW b, NEW size \in Nat, IsMemory(b, size), NEW pa, NEW off, Aligned(pa, off),
         NEW k \in Nat, NEW lo, lo = Sector(pa), NEW hi, hi = lo + k * SECTSIZE,
         NEW o, o = off + k * SECTSIZE, NEW top, top = hi + SECTSIZE
  PROVE  readsect(FileIn(b, lo, hi, pa, off), hi, o) = FileIn(b, lo, top, pa, off)
<1>0. SECTSIZE \in Nat /\ SECTSIZE # 0 /\ pa \in Nat /\ off \in Nat /\ DOMAIN b = 0 .. size - 1
  BY BootloadAssumption DEF Aligned, IsMemory
<1>1. PICK r \in Nat : Sector(pa) = pa - r /\ Sector(off) = off - r /\ r <= pa /\ r <= off
  <2>1. PICK r \in 0 .. SECTSIZE - 1 : r = pa % SECTSIZE /\ r <= pa /\ Sector(pa) = pa - r
    BY <1>0, SectorIs
  <2>2. PICK y \in 0 .. SECTSIZE - 1 : y = off % SECTSIZE /\ y <= off /\ Sector(off) = off - y
    BY <1>0, SectorIs
  <2>3. r = y
    BY <2>1, <2>2 DEF Aligned
  <2>4. r \in Nat /\ Sector(off) = off - r /\ r <= off
    BY <1>0, <2>2, <2>3
  <2> QED BY <2>1, <2>4
<1>2. PICK c \in Nat : c = k * SECTSIZE
  BY <1>0
<1>3. Sector(o) = off - r + c
  <2>1. Sector(o) = Sector(off) + k * SECTSIZE
    BY <1>0, SectorFurther
  <2> QED BY <1>1, <1>2, <2>1
<1>4. lo \in Nat /\ hi \in Nat /\ hi = lo + c /\ lo = pa - r
  BY <1>0, <1>1, <1>2
<1> DEFINE f == FileIn(b, lo, hi, pa, off)
<1>5. /\ DOMAIN f = DOMAIN b
      /\ \A a \in DOMAIN b : f[a] = IF a \in lo .. hi - 1 THEN a - pa + off ELSE b[a]
  BY DEF FileIn
<1> HIDE DEF f
<1>6. ASSUME NEW a \in DOMAIN b
      PROVE  (IF a \in hi .. hi + SECTSIZE - 1 THEN Sector(o) + a - hi ELSE f[a]) =
             IF a \in lo .. top - 1 THEN a - pa + off ELSE b[a]
  <2>1. a \in Nat
    BY <1>0
  <2>2. CASE a \in hi .. hi + SECTSIZE - 1
    <3>1. a \in lo .. top - 1
      BY <1>0, <1>4, <2>1, <2>2
    <3>2. Sector(o) + a - hi = a - pa + off
      BY <1>0, <1>1, <1>2, <1>3, <1>4, <2>1
    <3> QED BY <2>2, <3>1, <3>2
  <2>3. CASE a \notin hi .. hi + SECTSIZE - 1
    <3>1. a \in lo .. hi - 1 <=> a \in lo .. top - 1
      BY <1>0, <1>4, <2>1, <2>3
    <3> QED BY <1>5, <2>3, <3>1
  <2> QED BY <2>2, <2>3
<1>7. readsect(f, hi, o) = FileIn(b, lo, top, pa, off)
  <2>1. readsect(f, hi, o) =
          [a \in DOMAIN b |-> IF a \in hi .. hi + SECTSIZE - 1 THEN Sector(o) + a - hi ELSE f[a]]
    BY <1>5 DEF readsect
  <2>2. FileIn(b, lo, top, pa, off) =
          [a \in DOMAIN b |-> IF a \in lo .. top - 1 THEN a - pa + off ELSE b[a]]
    BY DEF FileIn
  <2> QED BY <1>6, <2>1, <2>2
<1> QED
  BY <1>7 DEF f

\* Nothing is read up to the first sector.
LEMMA NothingRead ==
  ASSUME NEW b, NEW size \in Nat, IsMemory(b, size), NEW lo \in Nat, NEW pa, NEW off
  PROVE  FileIn(b, lo, lo, pa, off) = b
<1>1. \A a \in 0 .. size - 1 : a \notin lo .. lo - 1
  OBVIOUS
<1> QED
  BY <1>1 DEF FileIn, IsMemory

\* What the loop over n sectors leaves.
LEMMA SectorLoop ==
  ASSUME NEW b, NEW size \in Nat, IsMemory(b, size), NEW pa, NEW off, Aligned(pa, off),
         NEW lo \in Nat, lo = Sector(pa), NEW end \in Nat, lo < end,
         NEW n \in Nat, n = (end - lo + SECTSIZE - 1) \div SECTSIZE,
         NEW hi, hi = lo + n * SECTSIZE
  PROVE  sectors(b, lo, end, off) = FileIn(b, lo, hi, pa, off)
<1>0. PICK S \in Nat : S = SECTSIZE /\ S # 0
  BY BootloadAssumption
<1> DEFINE Step(g) == [k \in 0 .. n |-> IF k = 0 THEN b
                                        ELSE readsect(g[k - 1], lo + (k - 1) * S, off + (k - 1) * S)]
           after == CHOOSE g : g = Step(g)
           After(k) == FileIn(b, lo, lo + k * S, pa, off)
           h == [k \in 0 .. n |-> After(k)]
<1>1. sectors(b, lo, end, off) = after[n]
  BY <1>0 DEF sectors
<1>2. After(0) = b
  <2>1. lo + 0 * S = lo
    BY <1>0
  <2> QED BY <2>1, NothingRead
<1>3. ASSUME NEW k \in 1 .. n
      PROVE  After(k) = readsect(After(k - 1), lo + (k - 1) * S, off + (k - 1) * S)
  <2>1. PICK i \in Nat : i = k - 1 /\ k = i + 1
    OBVIOUS
  <2>2. PICK x, o, top : x = lo + i * S /\ o = off + i * S /\ top = x + S
    OBVIOUS
  <2>3. lo + k * S = top
    <3>1. (i + 1) * S = i * S + S /\ i * S \in Nat
      BY <1>0
    <3> QED BY <1>0, <2>1, <2>2, <3>1
  <2>4. readsect(FileIn(b, lo, x, pa, off), x, o) = FileIn(b, lo, top, pa, off)
    <3>1. /\ i \in Nat /\ lo = Sector(pa) /\ x = lo + i * SECTSIZE
          /\ o = off + i * SECTSIZE /\ top = x + SECTSIZE
      BY <1>0, <2>2
    <3> HIDE DEF After
    <3> QED BY <3>1, SectorRead
  <2>5. After(k) = FileIn(b, lo, top, pa, off)
    BY <2>3
  <2>6. After(k - 1) = FileIn(b, lo, x, pa, off)
    BY <2>1, <2>2
  <2> HIDE DEF After
  <2> QED BY <2>1, <2>2, <2>4, <2>5, <2>6
<1>4. After(n) = FileIn(b, lo, hi, pa, off)
  BY <1>0
<1> HIDE DEF After
<1>5. h = Step(h)
  <2> SUFFICES ASSUME NEW k \in 0 .. n
               PROVE  h[k] = IF k = 0 THEN b
                             ELSE readsect(h[k - 1], lo + (k - 1) * S, off + (k - 1) * S)
    OBVIOUS
  <2>1. CASE k = 0
    BY <1>2, <2>1
  <2>2. CASE k # 0
    <3>1. k \in 1 .. n /\ k - 1 \in 0 .. n
      BY <2>2
    <3> QED BY <1>3, <2>2, <3>1
  <2> QED BY <2>1, <2>2
<1>6. after = Step(after)
  <2> HIDE DEF h, Step
  <2> QED BY <1>5
<1> HIDE DEF after
<1>7. \A k \in 0 .. n : after[k] = IF k = 0 THEN b
                                   ELSE readsect(after[k - 1], lo + (k - 1) * S, off + (k - 1) * S)
  BY <1>6
<1> HIDE DEF Step, h
<1> DEFINE Good == {k \in 0 .. n : after[k] = After(k)}
<1>8. 0 \in Good
  BY <1>2, <1>7
<1>9. \A k \in 1 .. n : k - 1 \in Good => k \in Good
  BY <1>3, <1>7
<1>10. n \in Good
  <2> HIDE DEF Good
  <2> QED BY <1>8, <1>9, Passes
<1> QED
  BY <1>1, <1>4, <1>10

\* r is the memory b into which the sectors of a segment have been read.
SegmentRead(r, b, pa, off, count) ==
  \E hi \in Nat : hi >= pa + count /\ r = FileIn(b, Sector(pa), hi, pa, off)

\* readseg reads whole sectors, the last one included.
LEMMA ReadsegIs ==
  ASSUME NEW b, NEW size \in Nat, IsMemory(b, size), NEW pa, NEW off, Aligned(pa, off),
         NEW count \in Nat
  PROVE  SegmentRead(readseg(b, pa, count, off), b, pa, off, count)
<1>0. PICK S \in Nat : S = SECTSIZE /\ S # 0
  BY BootloadAssumption
<1>1. PICK lo \in Nat : lo = Sector(pa)
  <2>1. pa \in Nat
    BY DEF Aligned
  <2>2. PICK r \in 0 .. SECTSIZE - 1 : r <= pa /\ Sector(pa) = pa - r
    BY <2>1, SectorIs
  <2> QED BY <1>0, <2>1, <2>2
<1>2. PICK end \in Nat : end = pa + count
  BY DEF Aligned
<1>3. readseg(b, pa, count, off) = sectors(b, lo, end, off)
  BY <1>1, <1>2 DEF readseg
<1>4. CASE lo < end
  <2>1. PICK y \in Nat : y = end - lo + S - 1
    BY <1>0, <1>4
  <2>2. PICK n, r : Divided(y, S, n, r)
    BY DEF Divided
  <2>3. n \in Nat /\ r \in 0 .. S - 1 /\ y = n * S + r
    BY <1>0, <2>1, <2>2, Division
  <2>4. n = (end - lo + SECTSIZE - 1) \div SECTSIZE
    BY <1>0, <2>1, <2>2 DEF Divided
  <2>5. PICK c \in Nat : c = n * S
    BY <1>0, <2>3
  <2>6. PICK hi \in Nat : hi = lo + c
    OBVIOUS
  <2>7. hi >= end
    BY <1>0, <2>1, <2>3, <2>5, <2>6
  <2>8. hi = lo + n * SECTSIZE
    BY <1>0, <2>5, <2>6
  <2>9. sectors(b, lo, end, off) = FileIn(b, lo, hi, pa, off)
    BY <1>1, <1>4, <2>3, <2>4, <2>8, SectorLoop
  <2> QED BY <1>1, <1>2, <1>3, <2>7, <2>9 DEF SegmentRead
<1>5. CASE ~ (lo < end)
  <2>1. sectors(b, lo, end, off) = b
    BY <1>5 DEF sectors
  <2>2. FileIn(b, lo, lo, pa, off) = b
    BY NothingRead
  <2>3. lo >= end
    BY <1>5
  <2> QED BY <1>1, <1>2, <1>3, <2>1, <2>2, <2>3 DEF SegmentRead
<1> QED
  BY <1>4, <1>5

----------------------------------------------------------------------------
(* bootmain *)

\* A program header whose segment lies in a memory of so many bytes.
Segment(h, size) ==
  /\ h.p_pa \in Nat /\ h.p_offset \in Nat /\ h.p_filesz \in Nat /\ h.p_memsz \in Nat
  /\ h.p_filesz <= h.p_memsz /\ Aligned(h.p_pa, h.p_offset)
  /\ h.p_pa + h.p_memsz <= size

\* The segment h comes after g (see Linked).
Follows(g, h) ==
  /\ g.p_filesz = g.p_memsz
  /\ g.p_pa + g.p_memsz <= h.p_pa
  /\ \/ g.p_pa + g.p_memsz <= Sector(h.p_pa)
     \/ h.p_pa - g.p_pa = h.p_offset - g.p_offset

\* The memory b holds the bytes of the segment h.
Loaded(b, h) == \A a \in h.p_pa .. h.p_pa + h.p_memsz - 1 : b[a] = a - h.p_pa + h.p_offset

Memories(size) == [0 .. size - 1 -> Int]

\* The memory r is b with the segment h.
WithSegment(r, b, h) == r = readseg(b, h.p_pa, h.p_memsz, h.p_offset)

\* What reading a segment does to a byte.
LEMMA SegmentBytes ==
  ASSUME NEW size \in Nat, NEW b \in Memories(size), NEW h, Segment(h, size),
         NEW r, WithSegment(r, b, h)
  PROVE  /\ r \in Memories(size) /\ Loaded(r, h)
         /\ \A a \in 0 .. size - 1 : /\ r[a] \in {b[a], a - h.p_pa + h.p_offset}
                                     /\ a < Sector(h.p_pa) => r[a] = b[a]
<1>1. PICK pa, off, count : pa = h.p_pa /\ off = h.p_offset /\ count = h.p_memsz
  OBVIOUS
<1>2. /\ Aligned(pa, off) /\ pa \in Nat /\ off \in Nat /\ count \in Nat /\ pa + count <= size
      /\ r = readseg(b, pa, count, off)
  BY <1>1 DEF Segment, WithSegment
<1>3. IsMemory(b, size) /\ DOMAIN b = 0 .. size - 1 /\ \A a \in 0 .. size - 1 : b[a] \in Int
  BY DEF IsMemory, Memories
<1>4. PICK hi \in Nat : hi >= pa + count /\ r = FileIn(b, Sector(pa), hi, pa, off)
  BY <1>2, <1>3, ReadsegIs DEF SegmentRead
<1>5. PICK lo \in Nat : lo = Sector(pa) /\ lo <= pa
  <2>1. PICK x \in 0 .. SECTSIZE - 1 : x <= pa /\ Sector(pa) = pa - x
    BY <1>2, SectorIs
  <2>2. SECTSIZE \in Nat
    BY BootloadAssumption
  <2> QED BY <1>2, <2>1, <2>2
<1>6. r = [a \in 0 .. size - 1 |-> IF a \in lo .. hi - 1 THEN a - pa + off ELSE b[a]]
  BY <1>3, <1>4, <1>5 DEF FileIn
<1>7. r \in Memories(size)
  BY <1>2, <1>3, <1>6 DEF Memories
<1>8. \A a \in pa .. pa + count - 1 : r[a] = a - pa + off
  <2> SUFFICES ASSUME NEW a \in pa .. pa + count - 1 PROVE r[a] = a - pa + off
    OBVIOUS
  <2>1. a \in 0 .. size - 1 /\ a \in lo .. hi - 1
    BY <1>2, <1>4, <1>5
  <2> QED BY <1>6, <2>1
<1>9. \A a \in 0 .. size - 1 : r[a] \in {b[a], a - pa + off} /\ (a < lo => r[a] = b[a])
  <2> SUFFICES ASSUME NEW a \in 0 .. size - 1
               PROVE  r[a] \in {b[a], a - pa + off} /\ (a < lo => r[a] = b[a])
    OBVIOUS
  <2>1. a < lo => a \notin lo .. hi - 1
    BY <1>4
  <2>2. r[a] = IF a \in lo .. hi - 1 THEN a - pa + off ELSE b[a]
    BY <1>6
  <2> QED BY <2>1, <2>2
<1> QED
  BY <1>1, <1>5, <1>7, <1>8, <1>9 DEF Loaded

\* The sectors of a segment leave those before it as they should be.
LEMMA KeepsLoaded ==
  ASSUME NEW size \in Nat, NEW b \in Memories(size), NEW h, Segment(h, size),
         NEW r, WithSegment(r, b, h), NEW g, Segment(g, size), Follows(g, h), Loaded(b, g)
  PROVE  Loaded(r, g)
<1>1. \A a \in 0 .. size - 1 : /\ r[a] \in {b[a], a - h.p_pa + h.p_offset}
                               /\ a < Sector(h.p_pa) => r[a] = b[a]
  BY SegmentBytes
<1>2. PICK pa \in Nat, off \in Nat, x \in Nat, o \in Nat, n \in Nat :
        pa = h.p_pa /\ off = h.p_offset /\ x = g.p_pa /\ o = g.p_offset /\ n = g.p_memsz
  BY DEF Segment
<1>3. PICK lo \in Nat : lo = Sector(pa)
  <2>1. PICK z \in 0 .. SECTSIZE - 1 : z <= pa /\ Sector(pa) = pa - z
    BY SectorIs
  <2>2. SECTSIZE \in Nat
    BY BootloadAssumption
  <2> QED BY <2>1, <2>2
<1>4. x + n <= size /\ (x + n <= lo \/ pa - x = off - o)
  BY <1>2, <1>3 DEF Segment, Follows
<1>5. ASSUME NEW a \in x .. x + n - 1 PROVE r[a] = a - x + o
  <2>1. a \in 0 .. size - 1
    BY <1>4
  <2>2. b[a] = a - x + o
    BY <1>2 DEF Loaded
  <2>3. CASE x + n <= lo
    <3>1. a < lo
      BY <2>3
    <3> QED BY <1>1, <1>2, <1>3, <2>1, <2>2, <3>1
  <2>4. CASE pa - x = off - o
    <3>1. a - pa + off = a - x + o
      BY <2>4
    <3>2. r[a] \in {b[a], a - pa + off}
      BY <1>1, <1>2, <2>1
    <3> QED BY <2>2, <3>1, <3>2
  <2> QED BY <1>4, <2>3, <2>4
<1> QED
  BY <1>2, <1>5 DEF Loaded

\* N segments, each of which fits and follows those before it.
Image(ph, N, size) ==
  /\ N \in Nat /\ N # 0 /\ size \in Nat
  /\ \A k \in 1 .. N : Segment(ph[k], size)
  /\ \A k, l \in 1 .. N : k < l => Follows(ph[k], ph[l])

\* A kernel as it is linked is such an image.
LEMMA LinkedImage ==
  ASSUME NEW ph \in Layouts
  PROVE  Image(ph, Len(ph), ImageBytes(ph))
<1>1. PICK N : N = Len(ph)
  OBVIOUS
<1>2. N \in Nat /\ DOMAIN ph = 1 .. N
      /\ \A k \in 1 .. N : ph[k] \in [p_pa : Nat, p_offset : Nat, p_filesz : Nat, p_memsz : Nat]
  <2>1. ph \in Seq([p_pa : Nat, p_offset : Nat, p_filesz : Nat, p_memsz : Nat])
    BY LibraryAssumption
  <2> DEFINE R == [p_pa : Nat, p_offset : Nat, p_filesz : Nat, p_memsz : Nat]
  <2>2. ph \in Seq(R)
    BY <2>1
  <2> HIDE DEF R
  <2>3. Len(ph) \in Nat /\ DOMAIN ph = 1 .. Len(ph) /\ \A k \in 1 .. Len(ph) : ph[k] \in R
    BY <2>2
  <2> QED BY <1>1, <2>3 DEF R
<1>3. Linked(ph)
  BY LibraryAssumption
<1>4. N # 0
  BY <1>1, <1>2, <1>3 DEF Linked
<1>5. \A k \in 1 .. N : /\ ph[k].p_pa \in Nat /\ ph[k].p_offset \in Nat
                        /\ ph[k].p_filesz \in Nat /\ ph[k].p_memsz \in Nat
  BY <1>2
<1>6. \A k \in 1 .. N : /\ ph[k].p_filesz <= ph[k].p_memsz
                        /\ Aligned(ph[k].p_pa, ph[k].p_offset)
  BY <1>2, <1>3, <1>5 DEF Linked, Aligned
<1>7. \A k, l \in 1 .. N : k < l => Follows(ph[k], ph[l])
  BY <1>2, <1>3 DEF Linked, Follows
<1>8. PICK size \in Nat : size = ImageBytes(ph) /\ size >= ph[N].p_pa + ph[N].p_memsz
  <2>1. SECTSIZE \in Nat /\ N \in 1 .. N
    BY <1>2, <1>4, BootloadAssumption
  <2> QED BY <1>1, <1>5, <2>1 DEF ImageBytes
<1>9. \A k \in 1 .. N : ph[k].p_pa + ph[k].p_memsz <= size
  <2> SUFFICES ASSUME NEW k \in 1 .. N PROVE ph[k].p_pa + ph[k].p_memsz <= size
    OBVIOUS
  <2>1. N \in 1 .. N
    BY <1>2, <1>4
  <2>2. CASE k = N
    BY <1>8, <2>2
  <2>3. CASE k # N
    <3>1. k < N
      BY <1>2, <2>3
    <3>2. ph[k].p_pa + ph[k].p_memsz <= ph[N].p_pa
      BY <1>7, <2>1, <3>1 DEF Follows
    <3> QED BY <1>5, <1>8, <2>1, <3>2
  <2> QED BY <2>2, <2>3
<1>10. \A k \in 1 .. N : Segment(ph[k], size)
  BY <1>5, <1>6, <1>9 DEF Segment
<1> QED
  BY <1>1, <1>2, <1>4, <1>7, <1>8, <1>10 DEF Image

\* Memories in which the segments up to the k-th have been read.
UpTo(b, ph, size, k) ==
  b \in Memories(size) /\ \A l \in 1 .. k : Loaded(b, ph[l])

\* One segment more.
LEMMA OneMore ==
  ASSUME NEW ph, NEW N, NEW size, Image(ph, N, size), NEW k \in 1 .. N,
         NEW i, i = k - 1, NEW b, UpTo(b, ph, size, i), NEW r, WithSegment(r, b, ph[k])
  PROVE  UpTo(r, ph, size, k)
<1>1. size \in Nat /\ b \in Memories(size) /\ Segment(ph[k], size)
  BY DEF Image, UpTo
<1>2. r \in Memories(size) /\ Loaded(r, ph[k])
  BY <1>1, SegmentBytes
<1>3. ASSUME NEW l \in 1 .. k PROVE Loaded(r, ph[l])
  <2>1. CASE l = k
    BY <1>2, <2>1
  <2>2. CASE l # k
    <3>1. l \in 1 .. i /\ l \in 1 .. N /\ l < k
      <4>1. N \in Nat
        BY DEF Image
      <4> QED BY <2>2, <4>1
    <3>2. Segment(ph[l], size) /\ Follows(ph[l], ph[k]) /\ Loaded(b, ph[l])
      BY <3>1 DEF Image, UpTo
    <3> QED BY <1>1, <3>2, KeepsLoaded
  <2> QED BY <2>1, <2>2
<1> QED
  BY <1>2, <1>3 DEF UpTo

\* bootmain reads all the segments.
LEMMA BootmainIs ==
  ASSUME NEW ph, NEW N, NEW size, Image(ph, N, size), N = Len(ph), NEW m \in Memories(size)
  PROVE  UpTo(bootmain(m, ph), ph, size, N)
<1>0. N \in Nat /\ N # 0 /\ size \in Nat
  BY DEF Image
<1> DEFINE M == Memories(size)
           Read(k, b) == readseg(b, ph[k].p_pa, ph[k].p_memsz, ph[k].p_offset)
           F == [p \in (1 .. N) \X M |-> Read(p[1], p[2])]
           Step(g) == [k \in 0 .. N |-> IF k = 0 THEN m ELSE Read(k, g[k - 1])]
           after == CHOOSE g : g = Step(g)
<1>1. \A k \in 1 .. N, b \in M : WithSegment(Read(k, b), b, ph[k])
  BY DEF WithSegment
<1>2. \A k \in 1 .. N, b \in M : F[<<k, b>>] = Read(k, b)
  OBVIOUS
<1>3. bootmain(m, ph) = after[N]
  BY DEF bootmain
<1> HIDE DEF F
<1>4. PICK g : Iterated(g, N, m, F)
  BY <1>0, IteratedExists
<1>5. \A k \in 0 .. N : g[k] = IF k = 0 THEN m ELSE F[<<k, g[k - 1]>>]
  BY <1>4 DEF Iterated
<1>6. ASSUME NEW k \in 1 .. N, NEW b, UpTo(b, ph, size, k - 1)
      PROVE  UpTo(Read(k, b), ph, size, k)
  <2>1. b \in M
    BY <1>6 DEF UpTo
  <2>2. PICK i, r : i = k - 1 /\ r = Read(k, b)
    OBVIOUS
  <2>3. WithSegment(r, b, ph[k]) /\ UpTo(b, ph, size, i)
    BY <1>1, <1>6, <2>1, <2>2
  <2> HIDE DEF Read
  <2>4. UpTo(r, ph, size, k)
    BY <2>2, <2>3, OneMore
  <2> QED BY <2>2, <2>4
<1>7. \A k \in 1 .. N : \A b : UpTo(b, ph, size, k - 1) => F[<<k, b>>] = Read(k, b)
  BY <1>2 DEF UpTo
<1> HIDE DEF Read, M
<1> DEFINE Good == {k \in 0 .. N : UpTo(g[k], ph, size, k)}
<1>8. 0 \in Good
  <2>1. UpTo(m, ph, size, 0)
    BY DEF UpTo
  <2>2. 0 \in 0 .. N
    BY <1>0
  <2>3. g[0] = m
    BY <1>5, <2>2
  <2> QED BY <2>1, <2>2, <2>3
<1>9. ASSUME NEW k \in 1 .. N, k - 1 \in Good
      PROVE  k \in Good /\ g[k] = Read(k, g[k - 1])
  <2>1. UpTo(g[k - 1], ph, size, k - 1) /\ k \in 0 .. N /\ k # 0
    BY <1>0, <1>9
  <2>2. PICK b, r : b = g[k - 1] /\ r = g[k]
    OBVIOUS
  <2>3. r = Read(k, b)
    BY <1>5, <1>7, <2>1, <2>2
  <2>4. UpTo(r, ph, size, k)
    BY <1>6, <2>1, <2>2, <2>3
  <2> QED BY <2>1, <2>2, <2>3, <2>4
<1>10. \A i \in 0 .. N : i \in Good
  <2> SUFFICES ASSUME NEW i \in 0 .. N PROVE i \in Good
    OBVIOUS
  <2>1. i \in Nat /\ \A k \in 1 .. i : k \in 1 .. N
    BY <1>0
  <2> HIDE DEF Good
  <2>2. \A k \in 1 .. i : k - 1 \in Good => k \in Good
    BY <1>9, <2>1
  <2> QED BY <1>8, <2>1, <2>2, Passes
<1>11. g = Step(g)
  <2>1. ASSUME NEW k \in 0 .. N PROVE g[k] = IF k = 0 THEN m ELSE Read(k, g[k - 1])
    <3>1. CASE k = 0
      BY <1>5, <3>1
    <3>2. CASE k # 0
      <4>1. k \in 1 .. N /\ k - 1 \in 0 .. N
        BY <1>0, <3>2
      <4> HIDE DEF Good
      <4> QED BY <1>9, <1>10, <3>2, <4>1
    <3> QED BY <3>1, <3>2
  <2>2. g = [k \in 0 .. N |-> g[k]]
    BY <1>4 DEF Iterated
  <2> QED BY <2>1, <2>2
<1>12. after = Step(after)
  <2> HIDE DEF Step
  <2> QED BY <1>11
<1> HIDE DEF after, Good
<1>13. \A k \in 0 .. N : after[k] = IF k = 0 THEN m ELSE Read(k, after[k - 1])
  BY <1>12
<1> HIDE DEF Step
<1> DEFINE Same == {k \in 0 .. N : after[k] = g[k]}
<1>14. 0 \in Same
  <2>1. 0 \in 0 .. N
    BY <1>0
  <2> QED BY <1>5, <1>13, <2>1
<1>15. ASSUME NEW k \in 1 .. N, k - 1 \in Same PROVE k \in Same
  <2>1. k \in 0 .. N /\ k # 0 /\ k - 1 \in 0 .. N /\ after[k - 1] = g[k - 1]
    BY <1>0, <1>15
  <2>2. g[k] = Read(k, g[k - 1])
    BY <1>9, <1>10, <2>1
  <2> QED BY <1>13, <2>1, <2>2
<1>16. N \in Same
  <2> HIDE DEF Same
  <2> QED BY <1>0, <1>14, <1>15, Passes
<1>17. N \in Good
  BY <1>0, <1>10
<1> QED
  BY <1>3, <1>16, <1>17 DEF Good

\* The byte i of the segment h, when the BSS has been cleared.
Right(b, h, i) == b[h.p_pa + i] = IF i < h.p_filesz THEN h.p_offset + i ELSE 0

\* Clearing the BSS of the last segment leaves every byte of the others.
LEMMA BssCleared ==
  ASSUME NEW ph, NEW N, NEW size, Image(ph, N, size), NEW b, UpTo(b, ph, size, N),
         NEW v, v = ph[N].p_pa + ph[N].p_filesz, NEW n, n = ph[N].p_memsz - ph[N].p_filesz,
         NEW k \in 1 .. N, NEW i \in 0 .. ph[k].p_memsz - 1
  PROVE  Right(memset(b, v, 0, n), ph[k], i)
<1>1. N \in 1 .. N /\ size \in Nat /\ b \in Memories(size) /\ Loaded(b, ph[k])
  BY DEF Image, UpTo
<1>2. Segment(ph[k], size) /\ Segment(ph[N], size)
  BY <1>1 DEF Image
<1>3. PICK pa \in Nat, off \in Nat, file \in Nat, mem \in Nat :
        pa = ph[k].p_pa /\ off = ph[k].p_offset /\ file = ph[k].p_filesz /\ mem = ph[k].p_memsz
  BY <1>2 DEF Segment
<1>4. PICK pa1 \in Nat, file1 \in Nat, mem1 \in Nat :
        pa1 = ph[N].p_pa /\ file1 = ph[N].p_filesz /\ mem1 = ph[N].p_memsz
  BY <1>2 DEF Segment
<1>5. PICK a \in Nat : a = pa + i /\ a \in 0 .. size - 1
  <2>1. i \in 0 .. mem - 1 /\ pa + mem <= size
    BY <1>2, <1>3 DEF Segment
  <2> QED BY <1>1, <2>1
<1>6. b[a] = off + i
  <2>1. a \in pa .. pa + mem - 1 /\ a - pa + off = off + i
    BY <1>3, <1>5
  <2>2. b[a] = a - pa + off
    BY <1>3, <2>1, <1>1 DEF Loaded
  <2> QED BY <2>1, <2>2
<1>7. memset(b, v, 0, n)[a] = IF a \in v .. v + n - 1 THEN 0 ELSE off + i
  <2>1. DOMAIN b = 0 .. size - 1
    BY <1>1 DEF Memories
  <2> QED BY <1>5, <1>6, <2>1 DEF memset
<1>8. v = pa1 + file1 /\ n = mem1 - file1 /\ file1 <= mem1
  BY <1>2, <1>4 DEF Segment
<1>9. a \in v .. v + n - 1 <=> ~ (i < file)
  <2>1. CASE k = N
    <3>1. pa = pa1 /\ file = file1 /\ mem = mem1
      BY <1>3, <1>4, <2>1
    <3> QED BY <1>3, <1>5, <1>8, <3>1
  <2>2. CASE k # N
    <3>1. k < N
      BY <1>1, <2>2 DEF Image
    <3>2. Follows(ph[k], ph[N])
      BY <1>1, <3>1 DEF Image
    <3>3. file = mem /\ pa + mem <= pa1
      BY <1>3, <1>4, <3>2 DEF Follows
    <3> QED BY <1>3, <1>5, <1>8, <3>3
  <2> QED BY <2>1, <2>2
<1> QED
  BY <1>3, <1>5, <1>7, <1>9 DEF Right

\* The kernel's image is in memory as the linker made it, although whole sectors
\* are read over the ends of the segments, and its BSS is zero.
THEOREM ImageCorrect ==
  Spec => []ImageLoaded
<1>1. IInv => ImageLoaded
  <2> SUFFICES ASSUME IInv, Returned("bootmain") PROVE ImageLoaded
    BY DEF ImageLoaded
  <2>1. PICK ph, r : ph = call.ph /\ r = result[1]
    OBVIOUS
  <2>2. ph \in Layouts /\ r = Booted(ph)
    BY <2>1 DEF IInv, CallOK, ResultOK, Returned
  <2>3. PICK N, size : N = Len(ph) /\ size = ImageBytes(ph)
    OBVIOUS
  <2>4. Image(ph, N, size)
    BY <2>2, <2>3, LinkedImage
  <2>5. PICK m : m = [a \in 0 .. size - 1 |-> Unread]
    OBVIOUS
  <2>6. m \in Memories(size)
    BY <2>5 DEF Memories, Unread
  <2>7. PICK b : b = bootmain(m, ph)
    OBVIOUS
  <2>8. UpTo(b, ph, size, N)
    BY <2>3, <2>4, <2>6, <2>7, BootmainIs
  <2>9. PICK v, n : v = ph[N].p_pa + ph[N].p_filesz /\ n = ph[N].p_memsz - ph[N].p_filesz
    OBVIOUS
  <2>10. r = memset(b, v, 0, n)
    BY <2>2, <2>3, <2>5, <2>7, <2>9 DEF Booted
  <2>11. \A k \in 1 .. N : \A i \in 0 .. ph[k].p_memsz - 1 : Right(r, ph[k], i)
    BY <2>4, <2>8, <2>9, <2>10, BssCleared
  <2>12. DOMAIN ph = 1 .. N
    <3> DEFINE R == [p_pa : Nat, p_offset : Nat, p_filesz : Nat, p_memsz : Nat]
    <3>1. ph \in Seq(R)
      BY <2>2, LibraryAssumption
    <3> HIDE DEF R
    <3> QED BY <2>3, <3>1
  <2> QED BY <2>1, <2>11, <2>12 DEF ImageLoaded, Right
<1> QED
  BY <1>1, Results, PTL

=============================================================================
