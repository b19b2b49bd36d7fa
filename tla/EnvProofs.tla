------------------------------ MODULE EnvProofs ------------------------------
(***************************************************************************)
(* Proofs about kern/env.c.  First the array envs[], its free list and the *)
(* ids of environments, for any number of slots and any width of envid_t;  *)
(* then the address spaces: what each page of memory is used for, that no  *)
(* step of a creation, a teardown or a program mixes up two uses, and what *)
(* follows for programs.                                                   *)
(***************************************************************************)
EXTENDS Env, PmapLemmas, NaturalsInduction, WellFoundedInduction

----------------------------------------------------------------------------
(* The arithmetic of ids *)

\* The id that slot e has in its k-th generation, and the generation after k.
Id(k, e)      == k * GENSTEP + e
Succ(k)       == IF k = Generations THEN 1 ELSE k + 1

\* The generation j before k, in the circle of generations.
Before(k, j)  == IF j < k THEN k - j ELSE k - j + Generations

\* The remainder of a multiple plus a remainder.
LEMMA Remainder ==
  ASSUME NEW n \in Nat \ {0}, NEW q \in Int, NEW r \in 0 .. n - 1
  PROVE  (q * n + r) % n = r
BY SMT

\* A number without remainder is a multiple.
LEMMA Multiple ==
  ASSUME NEW n \in Nat \ {0}, NEW a \in Nat, a % n = 0
  PROVE  a \div n \in Nat /\ a = (a \div n) * n
BY SMT

\* What EnvAssumption says of the numbers: half the range of envid_t is a whole
\* number of generations, and each of them has room for every slot.
LEMMA Numbers ==
  /\ Generations \in Nat \ {0}
  /\ IDMOD = 2 * ((Generations + 1) * GENSTEP)
  /\ IDMOD \div 2 = (Generations + 1) * GENSTEP
  /\ (Generations + 1) * GENSTEP \in Nat
  /\ GENSTEP \in Nat /\ NENV \in Nat \ {0} /\ NENV <= GENSTEP
  /\ \E q \in Nat : GENSTEP = q * NENV
<1>0. NENV \in Nat \ {0} /\ GENSTEP \in Nat \ {0} /\ IDMOD \in Nat
  BY EnvAssumption
<1>1. PICK n : n = 2 * GENSTEP
  OBVIOUS
<1>2. n \in Nat \ {0} /\ IDMOD % n = 0 /\ IDMOD > n
  BY <1>0, <1>1, EnvAssumption
<1>3. PICK l : l = IDMOD \div n
  OBVIOUS
<1>4. l \in Nat /\ IDMOD = l * n
  BY <1>0, <1>2, <1>3, Multiple
<1>5. l > 1
  <2>1. l = 0 => IDMOD = 0
    BY <1>2, <1>4
  <2>2. l = 1 => IDMOD = n
    BY <1>2, <1>4
  <2> QED BY <1>2, <1>4, <2>1, <2>2
<1>6. Generations = l - 1
  BY <1>1, <1>3 DEF Generations
<1>7. l * n = 2 * (l * GENSTEP) /\ l * GENSTEP \in Nat
  BY <1>0, <1>1, <1>4
<1>8. IDMOD \div 2 = l * GENSTEP
  <2>1. PICK x \in Nat : x = l * GENSTEP
    BY <1>7
  <2>2. IDMOD = 2 * x
    BY <1>4, <1>7, <2>1
  <2>3. IDMOD \div 2 = x
    BY <2>1, <2>2
  <2> QED BY <2>1, <2>3
<1>9. \E q \in Nat : GENSTEP = q * NENV
  BY <1>0, EnvAssumption, Multiple
<1>10. NENV <= GENSTEP
  <2>1. PICK q \in Nat : GENSTEP = q * NENV
    BY <1>9
  <2>2. q # 0
    BY <1>0, <2>1
  <2> QED BY <1>0, <2>1, <2>2
<1> QED
  BY <1>0, <1>4, <1>5, <1>6, <1>7, <1>8, <1>9, <1>10

\* The numbers that ids are rounded down to multiples of NENV from.
LEMMA Rounded ==
  ASSUME NEW k \in Int, NEW e \in EnvSlot
  PROVE  (k * GENSTEP + e) % NENV = e
<1>1. NENV \in Nat \ {0} /\ GENSTEP \in Nat /\ e \in 0 .. NENV - 1
  BY Numbers DEF EnvSlot
<1>2. PICK q \in Nat : GENSTEP = q * NENV
  BY Numbers
<1>3. k * GENSTEP = (k * q) * NENV /\ k * q \in Int
  BY <1>1, <1>2
<1>4. PICK z \in Int : z = k * q
  BY <1>3
<1>5. (z * NENV + e) % NENV = e
  BY <1>1, Remainder
<1> QED
  BY <1>3, <1>4, <1>5

\* Ids of different generations differ, lie in the positive half of envid_t, and
\* name their slot.
LEMMA IdType ==
  ASSUME NEW k \in 1 .. Generations, NEW e \in EnvSlot
  PROVE  /\ Id(k, e) \in 1 .. (IDMOD \div 2) - 1
         /\ Id(k, e) >= GENSTEP
         /\ Id(k, e) % NENV = e
         /\ \A j \in 1 .. Generations : Id(j, e) = Id(k, e) => j = k
<1>1. /\ Generations \in Nat /\ GENSTEP \in Nat \ {0} /\ NENV \in Nat
      /\ NENV <= GENSTEP /\ e \in Nat /\ e < NENV /\ k \in Int
  BY Numbers DEF EnvSlot
<1>2. GENSTEP <= k * GENSTEP /\ k * GENSTEP \in Nat
  BY <1>1
<1>3. k * GENSTEP + GENSTEP <= (Generations + 1) * GENSTEP
  BY <1>1
<1>4. IDMOD \div 2 = (Generations + 1) * GENSTEP /\ (Generations + 1) * GENSTEP \in Nat
  BY Numbers
<1>5. \A j \in 1 .. Generations : j * GENSTEP = k * GENSTEP => j = k
  BY <1>1
<1>6. \A j \in 1 .. Generations : Id(j, e) = Id(k, e) => j = k
  <2> SUFFICES ASSUME NEW j \in 1 .. Generations, Id(j, e) = Id(k, e) PROVE j = k
    OBVIOUS
  <2>1. j * GENSTEP \in Nat
    BY <1>1
  <2>2. j * GENSTEP + e = k * GENSTEP + e
    BY DEF Id
  <2> QED BY <1>1, <1>2, <1>5, <2>1, <2>2
<1>7. Id(k, e) % NENV = e
  BY <1>1, Rounded DEF Id
<1> QED
  BY <1>1, <1>2, <1>3, <1>4, <1>6, <1>7 DEF Id

\* env_alloc gives a slot its ids in the order of the generations, starts with
\* the first, and begins again where the next would turn negative.
LEMMA NextId ==
  ASSUME NEW e \in EnvSlot
  PROVE  /\ next_id(0, e) = Id(1, e)
         /\ \A k \in 1 .. Generations : next_id(Id(k, e), e) = Id(Succ(k), e)
<1>1. /\ Generations \in Nat \ {0} /\ GENSTEP \in Nat \ {0} /\ NENV \in Nat \ {0}
      /\ NENV <= GENSTEP /\ e \in Nat /\ e < NENV
  BY Numbers, EnvAssumption DEF EnvSlot
<1>2. PICK h \in Nat : h = (Generations + 1) * GENSTEP
  BY Numbers
<1>3. IDMOD = 2 * h /\ IDMOD \div 2 = h
  BY <1>2, Numbers
<1>4. 2 * GENSTEP <= h
  BY <1>1, <1>2
<1>5. ASSUME NEW n \in 0 .. h - 1 PROVE Signed(n) = n
  BY <1>3 DEF Signed
<1>6. next_id(0, e) = Id(1, e)
  <2>1. Signed(0 + GENSTEP) = GENSTEP
    BY <1>1, <1>4, <1>5
  <2>2. Signed(GENSTEP) % NENV = 0
    <3>1. 0 \in EnvSlot
      BY <1>1 DEF EnvSlot
    <3>2. (1 * GENSTEP + 0) % NENV = 0
      BY <3>1, Rounded
    <3> QED BY <1>1, <2>1, <3>2
  <2> QED BY <1>1, <2>1, <2>2 DEF next_id, Id
<1>7. ASSUME NEW k \in 1 .. Generations
      PROVE  next_id(Id(k, e), e) = Id(Succ(k), e)
  <2>1. PICK g \in Nat : g = (k + 1) * GENSTEP
    BY <1>1
  <2>2. Id(k, e) + GENSTEP = g + e
    BY <1>1, <2>1 DEF Id
  <2>3. CASE k # Generations
    <3>1. g + GENSTEP <= h
      BY <1>1, <1>2, <2>1, <2>3
    <3>2. Signed(g + e) = g + e
      BY <1>1, <1>5, <3>1
    <3>3. (g + e) % NENV = e
      <4>1. k + 1 \in Int
        OBVIOUS
      <4> QED BY <2>1, <4>1, Rounded
    <3>4. g > 0
      BY <1>1, <2>1
    <3> QED BY <1>1, <2>1, <2>2, <2>3, <3>2, <3>3, <3>4 DEF next_id, Id, Succ
  <2>4. CASE k = Generations
    <3>1. g = h
      BY <1>2, <2>1, <2>4
    <3>2. Signed(h + e) = h + e - 2 * h
      <4>1. h + e < 2 * h /\ h + e >= h
        BY <1>1, <1>4
      <4> QED BY <1>1, <1>3, <4>1 DEF Signed
    <3>3. PICK s \in Int : s = h + e - 2 * h
      BY <1>1
    <3>4. s % NENV = e
      <4>1. -(k + 1) \in Int
        OBVIOUS
      <4>2. (-(k + 1)) * GENSTEP = -g
        BY <1>1, <2>1
      <4>3. ((-(k + 1)) * GENSTEP + e) % NENV = e
        BY <4>1, Rounded
      <4>4. s = (-(k + 1)) * GENSTEP + e
        BY <1>1, <3>1, <3>3, <4>2
      <4> QED BY <4>3, <4>4
    <3>5. s - e <= 0
      BY <1>1, <3>3
    <3>6. next_id(Id(k, e), e) = GENSTEP + e
      BY <2>2, <3>1, <3>2, <3>3, <3>4, <3>5 DEF next_id
    <3> QED BY <1>1, <2>4, <3>6 DEF Id, Succ
  <2> QED BY <2>3, <2>4
<1> QED
  BY <1>6, <1>7

\* Going round the circle of generations.
LEMMA Circle ==
  ASSUME NEW k \in 1 .. Generations
  PROVE  /\ Succ(k) \in 1 .. Generations
         /\ Before(k, 0) = k
         /\ \A j \in 0 .. Generations - 1 : /\ Before(k, j) \in 1 .. Generations
                                            /\ Before(Succ(k), j + 1) = Before(k, j)
         /\ \A j \in 1 .. Generations - 1 : Before(k, j) # k
BY Numbers DEF Succ, Before

----------------------------------------------------------------------------
(* The invariant of envs[], its free list and the ids *)

IdRange   == 1 .. (IDMOD \div 2) - 1
SlotOf(D) == [env_id : 0 .. (IDMOD \div 2) - 1, env_parent_id : 0 .. (IDMOD \div 2) - 1,
              env_status : {"FREE", "RUNNABLE", "RUNNING"}, env_pgdir : D]
Names(s)  == {s[i] : i \in DOMAIN s}
Lives(fl) == EnvSlot \ Names(fl)

\* A slot was never used and its id is 0, or it has the id of some generation k
\* and s lists the ids of the generations before k, the last one last.
History(id, e, s) ==
  \/ id = 0 /\ s = <<>>
  \/ \E k \in 1 .. Generations :
       /\ id = Id(k, e) /\ Len(s) <= Generations - 1
       /\ \A i \in 1 .. Len(s) : s[i] = Id(Before(k, Len(s) + 1 - i), e)

SlotGood(slot, e, s, live) ==
  /\ History(slot.env_id, e, s)
  /\ live => slot.env_pgdir # Null /\ slot.env_status # "FREE" /\ slot.env_id # 0
  /\ ~live => slot.env_pgdir = Null /\ (slot.env_status = "FREE" \/ slot.env_id = 0)

SlotsGood(es, fl, rt) ==
  /\ \E D : es \in [EnvSlot -> SlotOf(D)]
  /\ fl \in Seq(EnvSlot) /\ rt \in [EnvSlot -> Seq(IdRange)]
  /\ \A i, j \in DOMAIN fl : fl[i] = fl[j] => i = j
  /\ \A e \in EnvSlot : SlotGood(es[e], e, rt[e], e \in Lives(fl))

Loops == {"load_icode", "env_free"}

SlotInv ==
  /\ SlotsGood(envs, env_free_list, retired)
  /\ curenv \in EnvSlot \cup {Null}
  /\ call = Call(call.fn, call.e, call.todo, call.destroy)
  /\ call.fn \in Loops => call.e \in Live

\* The slots off the list are the environments.
LEMMA LiveIs ==
  Live = Lives(env_free_list)
BY DEF Live, Listed, Lives, Names

\* The id that replaces another is the next generation's, and the replaced one
\* joins those that envid2env must not find, the oldest of which is forgotten.
LEMMA Ages ==
  ASSUME NEW e \in EnvSlot, NEW id \in Nat, NEW s \in Seq(IdRange), History(id, e, s)
  PROVE  LET t == IF id = 0 THEN s ELSE LastOf(Append(s, id), Generations - 1)
         IN  /\ next_id(id, e) \in IdRange
             /\ t \in Seq(IdRange)
             /\ History(next_id(id, e), e, t)
<1> DEFINE t == IF id = 0 THEN s ELSE LastOf(Append(s, id), Generations - 1)
<1>0. Generations \in Nat \ {0} /\ Len(s) \in Nat
  BY Numbers
<1>1. CASE id = 0
  <2>1. ~\E k \in 1 .. Generations : id = Id(k, e)
    BY <1>1, IdType
  <2>2. s = <<>>
    BY <2>1 DEF History
  <2>3. 1 \in 1 .. Generations /\ next_id(id, e) = Id(1, e)
    BY <1>0, <1>1, NextId
  <2>4. Id(1, e) \in IdRange
    BY <2>3, IdType DEF IdRange
  <2>5. History(Id(1, e), e, s)
    BY <1>0, <2>2, <2>3 DEF History
  <2> QED BY <1>1, <2>3, <2>4, <2>5
<1>2. CASE id # 0
  <2>1. PICK k \in 1 .. Generations :
          /\ id = Id(k, e) /\ Len(s) <= Generations - 1
          /\ \A i \in 1 .. Len(s) : s[i] = Id(Before(k, Len(s) + 1 - i), e)
    BY <1>2 DEF History
  <2>2. PICK h : h = Succ(k)
    OBVIOUS
  <2>3. h \in 1 .. Generations /\ next_id(id, e) = Id(h, e) /\ Id(h, e) \in IdRange
    BY <2>1, <2>2, NextId, Circle, IdType DEF IdRange
  <2>4. id \in IdRange
    BY <2>1, IdType DEF IdRange
  <2>5. PICK u : u = Append(s, id)
    OBVIOUS
  <2>6. /\ u \in Seq(IdRange) /\ Len(u) = Len(s) + 1
        /\ \A i \in 1 .. Len(s) : u[i] = s[i]
        /\ u[Len(s) + 1] = id
    BY <1>0, <2>4, <2>5
  <2>7. \A i \in 1 .. Len(s) + 1 : u[i] = Id(Before(h, (Len(s) + 1) + 1 - i), e)
    <3> SUFFICES ASSUME NEW i \in 1 .. Len(s) + 1
                 PROVE  u[i] = Id(Before(h, (Len(s) + 1) + 1 - i), e)
      OBVIOUS
    <3>0. Len(s) + 1 - i \in 0 .. Generations - 1
      BY <1>0, <2>1
    <3>1. PICK j \in 0 .. Generations - 1 : j = Len(s) + 1 - i
      BY <3>0
    <3>2. Before(h, j + 1) = Before(k, j) /\ j + 1 = (Len(s) + 1) + 1 - i
      BY <1>0, <2>2, <3>1, Circle
    <3>3. CASE i \in 1 .. Len(s)
      BY <2>1, <2>6, <3>1, <3>2, <3>3
    <3>4. CASE i = Len(s) + 1
      <4>1. j = 0 /\ Before(k, 0) = k
        BY <1>0, <3>1, <3>4, Circle
      <4> QED BY <2>1, <2>6, <3>2, <3>4, <4>1
    <3> QED BY <1>0, <3>3, <3>4
  <2>8. t = LastOf(u, Generations - 1)
    BY <1>2, <2>5
  <2>9. /\ t \in Seq(IdRange) /\ Len(t) <= Generations - 1
        /\ \A i \in 1 .. Len(t) : t[i] = Id(Before(h, Len(t) + 1 - i), e)
    <3>1. CASE Len(u) <= Generations - 1
      <4>1. t = u
        BY <2>8, <3>1 DEF LastOf
      <4> QED BY <2>6, <2>7, <3>1, <4>1
    <3>2. CASE ~(Len(u) <= Generations - 1)
      <4>1. Len(s) = Generations - 1 /\ Len(u) = Generations
        BY <1>0, <2>1, <2>6, <3>2
      <4>2. t = SubSeq(u, 2, Generations)
        BY <1>0, <2>8, <3>2, <4>1 DEF LastOf
      <4>3. /\ t \in Seq(IdRange) /\ Len(t) = Generations - 1
            /\ \A i \in 1 .. Generations - 1 : t[i] = u[i + 1]
        <5>1. PICK g \in Nat : g = Generations
          BY <1>0
        <5>2. g >= 1 /\ Len(u) = g
          BY <1>0, <4>1, <5>1
        <5>3. PICK v : v = SubSeq(u, 2, g)
          OBVIOUS
        <5>4. /\ v \in Seq(IdRange) /\ Len(v) = g - 1
              /\ \A i \in 1 .. g - 1 : v[i] = u[i + 1]
          BY <2>6, <5>2, <5>3
        <5> QED BY <4>2, <5>1, <5>3, <5>4
      <4>4. ASSUME NEW i \in 1 .. Generations - 1
            PROVE  t[i] = Id(Before(h, (Generations - 1) + 1 - i), e)
        <5>1. i + 1 \in 1 .. Len(s) + 1 /\ (Len(s) + 1) + 1 - (i + 1) = (Generations - 1) + 1 - i
          BY <1>0, <4>1
        <5> QED BY <2>7, <4>3, <5>1
      <4> QED BY SMTT(30), <1>0, <4>3, <4>4
    <3> QED BY <3>1, <3>2
  <2> HIDE DEF t
  <2>10. History(Id(h, e), e, t)
    BY <2>3, <2>9 DEF History
  <2> QED BY <2>3, <2>9, <2>10 DEF t
<1> QED
  BY <1>1, <1>2

\* The head of a list without repetitions is not in its tail.
LEMMA TailNames ==
  ASSUME NEW fl \in Seq(EnvSlot), fl # <<>>,
         \A i, j \in DOMAIN fl : fl[i] = fl[j] => i = j
  PROVE  /\ Head(fl) \in EnvSlot /\ Head(fl) \notin Lives(fl)
         /\ Tail(fl) \in Seq(EnvSlot)
         /\ \A i, j \in DOMAIN Tail(fl) : Tail(fl)[i] = Tail(fl)[j] => i = j
         /\ Lives(Tail(fl)) = Lives(fl) \cup {Head(fl)}
<1>1. /\ Len(fl) \in Nat \ {0} /\ DOMAIN fl = 1 .. Len(fl) /\ Head(fl) = fl[1]
      /\ Head(fl) \in EnvSlot
  OBVIOUS
<1>2. PICK t : t = Tail(fl)
  OBVIOUS
<1>3. /\ t \in Seq(EnvSlot) /\ Len(t) = Len(fl) - 1 /\ DOMAIN t = 1 .. Len(fl) - 1
      /\ \A i \in 1 .. Len(fl) - 1 : t[i] = fl[i + 1]
  BY <1>2
<1>4. \A i, j \in DOMAIN t : t[i] = t[j] => i = j
  BY SMTT(30), <1>1, <1>3
<1>5. \A x : x \in Names(fl) <=> x = fl[1] \/ x \in Names(t)
  <2>1. ASSUME NEW x, x \in Names(t) PROVE x \in Names(fl)
    BY <1>1, <1>3, <2>1 DEF Names
  <2>2. ASSUME NEW x, x \in Names(fl) PROVE x = fl[1] \/ x \in Names(t)
    <3>1. PICK i \in 1 .. Len(fl) : x = fl[i]
      BY <1>1, <2>2 DEF Names
    <3>2. CASE i # 1
      <4>1. i - 1 \in 1 .. Len(fl) - 1 /\ t[i - 1] = fl[i]
        BY <1>1, <1>3, <3>2
      <4> QED BY <1>3, <3>1, <4>1 DEF Names
    <3> QED BY <3>1, <3>2
  <2>3. fl[1] \in Names(fl)
    BY <1>1 DEF Names
  <2> QED BY <2>1, <2>2, <2>3
<1>6. fl[1] \notin Names(t)
  BY <1>1, <1>3 DEF Names
<1> QED
  BY <1>1, <1>2, <1>3, <1>4, <1>5, <1>6 DEF Lives

\* A slot put in front of a list on which it is not.
LEMMA PushNames ==
  ASSUME NEW fl \in Seq(EnvSlot), NEW e \in Lives(fl),
         \A i, j \in DOMAIN fl : fl[i] = fl[j] => i = j
  PROVE  LET t == <<e>> \o fl
         IN  /\ t \in Seq(EnvSlot)
             /\ \A i, j \in DOMAIN t : t[i] = t[j] => i = j
             /\ Lives(t) = Lives(fl) \ {e}
<1>1. PICK t : t = <<e>> \o fl
  OBVIOUS
<1>2. e \in EnvSlot /\ e \notin Names(fl) /\ Len(fl) \in Nat /\ DOMAIN fl = 1 .. Len(fl)
  BY DEF Lives
<1>3. /\ t \in Seq(EnvSlot) /\ DOMAIN t = 1 .. Len(fl) + 1
      /\ t[1] = e
      /\ \A i \in 2 .. Len(fl) + 1 : t[i] = fl[i - 1]
  BY <1>1, <1>2
<1>4. \A i \in 1 .. Len(fl) : i + 1 \in 2 .. Len(fl) + 1 /\ t[i + 1] = fl[i]
  BY <1>2, <1>3
<1>5. \A i \in 1 .. Len(fl) + 1 : i = 1 \/ (i \in 2 .. Len(fl) + 1 /\ i - 1 \in 1 .. Len(fl))
  BY <1>2
<1>6. \A i \in 1 .. Len(fl) : fl[i] # e
  BY <1>2 DEF Names
<1>7. \A i, j \in DOMAIN t : t[i] = t[j] => i = j
  <2> SUFFICES ASSUME NEW i \in 1 .. Len(fl) + 1, NEW j \in 1 .. Len(fl) + 1, t[i] = t[j]
               PROVE  i = j
    BY <1>3
  <2>1. CASE i = 1 /\ j = 1
    BY <2>1
  <2>2. CASE i # 1 /\ j = 1
    <3>1. i - 1 \in 1 .. Len(fl) /\ t[i] = fl[i - 1]
      BY <1>3, <1>5, <2>2
    <3> QED BY <1>3, <1>6, <2>2, <3>1
  <2>3. CASE i = 1 /\ j # 1
    <3>1. j - 1 \in 1 .. Len(fl) /\ t[j] = fl[j - 1]
      BY <1>3, <1>5, <2>3
    <3> QED BY <1>3, <1>6, <2>3, <3>1
  <2>4. CASE i # 1 /\ j # 1
    <3>1. /\ i - 1 \in 1 .. Len(fl) /\ t[i] = fl[i - 1]
          /\ j - 1 \in 1 .. Len(fl) /\ t[j] = fl[j - 1]
      BY <1>3, <1>5, <2>4
    <3>2. i - 1 = j - 1
      BY <1>2, <3>1
    <3> QED BY <3>2
  <2> QED BY <2>1, <2>2, <2>3, <2>4
<1>8. \A x : x \in Names(t) <=> x = e \/ x \in Names(fl)
  <2>1. ASSUME NEW x, x \in Names(t) PROVE x = e \/ x \in Names(fl)
    <3>1. PICK i \in 1 .. Len(fl) + 1 : x = t[i]
      BY <1>3, <2>1 DEF Names
    <3> QED BY <1>2, <1>3, <1>5, <3>1 DEF Names
  <2>2. ASSUME NEW x, x \in Names(fl) PROVE x \in Names(t)
    <3>1. PICK i \in 1 .. Len(fl) : x = fl[i]
      BY <1>2, <2>2 DEF Names
    <3>2. i + 1 \in 1 .. Len(fl) + 1 /\ t[i + 1] = x
      BY <1>2, <1>4, <3>1
    <3> QED BY <1>3, <3>2 DEF Names
  <2>3. e \in Names(t)
    <3>1. 1 \in 1 .. Len(fl) + 1
      BY <1>2
    <3> QED BY <1>3, <3>1 DEF Names
  <2> QED BY <2>1, <2>2, <2>3
<1> QED
  BY <1>1, <1>3, <1>7, <1>8 DEF Lives

----------------------------------------------------------------------------
(* The steps of env.c preserve it *)

\* The last assignments of env_alloc: the first slot of the list is filled.
LEMMA CommitSlots ==
  ASSUME SlotInv, NEW parent \in 0 .. (IDMOD \div 2) - 1, NEW d, d # Null,
         env_free_list # <<>>, Commit(Head(env_free_list), parent, d)
  PROVE  /\ SlotsGood(envs', env_free_list', retired')
         /\ Head(env_free_list) \in EnvSlot /\ Head(env_free_list) \notin Live
         /\ Live' = Live \cup {Head(env_free_list)}
<1> DEFINE e == Head(env_free_list)
           s == retired[e]
           id == envs[e].env_id
           t == IF id = 0 THEN s ELSE LastOf(Append(s, id), Generations - 1)
           slot == [env_id |-> next_id(id, e), env_parent_id |-> parent,
                    env_status |-> "RUNNABLE", env_pgdir |-> d]
<1>1. /\ env_free_list \in Seq(EnvSlot) /\ retired \in [EnvSlot -> Seq(IdRange)]
      /\ \A i, j \in DOMAIN env_free_list : env_free_list[i] = env_free_list[j] => i = j
  BY DEF SlotInv, SlotsGood
<1>2. PICK D : envs \in [EnvSlot -> SlotOf(D)]
  BY DEF SlotInv, SlotsGood
<1>3. /\ e \in EnvSlot /\ e \notin Lives(env_free_list)
      /\ Tail(env_free_list) \in Seq(EnvSlot)
      /\ \A i, j \in DOMAIN Tail(env_free_list) : Tail(env_free_list)[i] = Tail(env_free_list)[j] => i = j
      /\ Lives(Tail(env_free_list)) = Lives(env_free_list) \cup {e}
  BY <1>1, TailNames
<1>4. \A x \in EnvSlot : SlotGood(envs[x], x, retired[x], x \in Lives(env_free_list))
  BY DEF SlotInv, SlotsGood
<1>5. id \in Nat /\ s \in Seq(IdRange) /\ History(id, e, s)
  <2>1. id \in 0 .. (IDMOD \div 2) - 1
    BY <1>2, <1>3 DEF SlotOf
  <2>2. IDMOD \div 2 \in Nat
    BY Numbers
  <2> QED BY <1>1, <1>3, <1>4, <2>1, <2>2 DEF SlotGood
<1> HIDE DEF id, s
<1>6. next_id(id, e) \in IdRange /\ t \in Seq(IdRange) /\ History(next_id(id, e), e, t)
  BY <1>3, <1>5, Ages
<1>7. /\ envs' = [envs EXCEPT ![e] = slot]
      /\ env_free_list' = Tail(env_free_list)
      /\ retired' = [retired EXCEPT ![e] = t]
  BY DEF Commit, s, id
<1>8. slot \in SlotOf(D \cup {d})
  BY <1>6, Numbers DEF SlotOf, IdRange
<1>9. slot.env_id = next_id(id, e) /\ slot.env_pgdir = d /\ slot.env_status = "RUNNABLE"
  OBVIOUS
<1> HIDE DEF slot, e, t
<1>10. envs' \in [EnvSlot -> SlotOf(D \cup {d})]
  <2>1. SlotOf(D) \subseteq SlotOf(D \cup {d})
    BY DEF SlotOf
  <2> QED BY <1>2, <1>3, <1>7, <1>8, <2>1
<1>11. retired' \in [EnvSlot -> Seq(IdRange)]
  BY <1>1, <1>3, <1>6, <1>7
<1>12. ASSUME NEW x \in EnvSlot
       PROVE  SlotGood(envs'[x], x, retired'[x], x \in Lives(env_free_list'))
  <2>1. CASE x = e
    <3>1. envs'[x] = slot /\ retired'[x] = t /\ x \in Lives(env_free_list')
      BY <1>1, <1>2, <1>3, <1>7, <2>1 DEF e
    <3>2. next_id(id, e) # 0
      BY <1>6, Numbers DEF IdRange
    <3> QED BY <1>6, <1>9, <2>1, <3>1, <3>2 DEF SlotGood
  <2>2. CASE x # e
    <3>1. envs'[x] = envs[x] /\ retired'[x] = retired[x]
      BY <1>1, <1>2, <1>7, <2>2
    <3>2. x \in Lives(env_free_list') <=> x \in Lives(env_free_list)
      BY <1>3, <1>7, <2>2 DEF e
    <3> QED BY <1>4, <3>1, <3>2 DEF SlotGood
  <2> QED BY <2>1, <2>2
<1>13. Live' = Lives(env_free_list')
  BY DEF Live, Listed, Lives, Names
<1> QED
  BY <1>3, <1>7, <1>10, <1>11, <1>12, <1>13, LiveIs DEF SlotsGood, e

\* The last assignments of env_free: the slot goes back in front of the list.
LEMMA FreeSlots ==
  ASSUME SlotInv, NEW e \in Live,
         envs' = [envs EXCEPT ![e].env_pgdir = Null, ![e].env_status = "FREE"],
         env_free_list' = <<e>> \o env_free_list, retired' = retired
  PROVE  /\ SlotsGood(envs', env_free_list', retired')
         /\ Live' = Live \ {e}
<1>1. /\ env_free_list \in Seq(EnvSlot) /\ retired \in [EnvSlot -> Seq(IdRange)]
      /\ \A i, j \in DOMAIN env_free_list : env_free_list[i] = env_free_list[j] => i = j
      /\ e \in Lives(env_free_list) /\ e \in EnvSlot
  BY LiveIs DEF SlotInv, SlotsGood, Lives
<1>2. PICK D : envs \in [EnvSlot -> SlotOf(D)]
  BY DEF SlotInv, SlotsGood
<1>3. /\ env_free_list' \in Seq(EnvSlot)
      /\ \A i, j \in DOMAIN env_free_list' : env_free_list'[i] = env_free_list'[j] => i = j
      /\ Lives(env_free_list') = Lives(env_free_list) \ {e}
  BY <1>1, PushNames
<1>4. \A x \in EnvSlot : SlotGood(envs[x], x, retired[x], x \in Lives(env_free_list))
  BY DEF SlotInv, SlotsGood
<1>5. envs[e] \in SlotOf(D)
  BY <1>1, <1>2
<1>6. PICK slot : slot = [envs[e] EXCEPT !.env_pgdir = Null, !.env_status = "FREE"]
  OBVIOUS
<1>7. /\ slot \in SlotOf(D \cup {Null}) /\ slot.env_pgdir = Null /\ slot.env_status = "FREE"
      /\ slot.env_id = envs[e].env_id
  BY <1>5, <1>6 DEF SlotOf
<1>8. envs' = [envs EXCEPT ![e] = slot]
  BY <1>1, <1>2, <1>6
<1>9. envs' \in [EnvSlot -> SlotOf(D \cup {Null})]
  <2>1. SlotOf(D) \subseteq SlotOf(D \cup {Null})
    BY DEF SlotOf
  <2> QED BY <1>1, <1>2, <1>7, <1>8, <2>1
<1>10. ASSUME NEW x \in EnvSlot
       PROVE  SlotGood(envs'[x], x, retired'[x], x \in Lives(env_free_list'))
  <2>1. CASE x = e
    <3>1. envs'[x] = slot /\ retired'[x] = retired[e] /\ x \notin Lives(env_free_list')
      BY <1>1, <1>2, <1>3, <1>8, <2>1
    <3> QED BY <1>4, <1>7, <2>1, <3>1 DEF SlotGood
  <2>2. CASE x # e
    <3>1. envs'[x] = envs[x] /\ retired'[x] = retired[x]
      BY <1>1, <1>2, <1>8, <2>2
    <3>2. x \in Lives(env_free_list') <=> x \in Lives(env_free_list)
      BY <1>3, <2>2
    <3> QED BY <1>4, <3>1, <3>2 DEF SlotGood
  <2> QED BY <2>1, <2>2
<1>11. Live' = Lives(env_free_list')
  BY DEF Live, Listed, Lives, Names
<1> QED
  BY <1>1, <1>3, <1>9, <1>10, <1>11, LiveIs DEF SlotsGood

\* env_run marks the slot it switches to.
LEMMA RunSlots ==
  ASSUME SlotInv, NEW e \in Live,
         envs' = [envs EXCEPT ![e].env_status = "RUNNING"],
         env_free_list' = env_free_list, retired' = retired
  PROVE  SlotsGood(envs', env_free_list', retired')
<1>1. /\ env_free_list \in Seq(EnvSlot) /\ retired \in [EnvSlot -> Seq(IdRange)]
      /\ \A i, j \in DOMAIN env_free_list : env_free_list[i] = env_free_list[j] => i = j
      /\ e \in Lives(env_free_list) /\ e \in EnvSlot
  BY LiveIs DEF SlotInv, SlotsGood, Lives
<1>2. PICK D : envs \in [EnvSlot -> SlotOf(D)]
  BY DEF SlotInv, SlotsGood
<1>3. \A x \in EnvSlot : SlotGood(envs[x], x, retired[x], x \in Lives(env_free_list))
  BY DEF SlotInv, SlotsGood
<1>4. PICK slot : slot = [envs[e] EXCEPT !.env_status = "RUNNING"]
  OBVIOUS
<1>5. /\ slot \in SlotOf(D) /\ slot.env_pgdir = envs[e].env_pgdir /\ slot.env_status = "RUNNING"
      /\ slot.env_id = envs[e].env_id
  BY <1>1, <1>2, <1>4 DEF SlotOf
<1>6. envs' = [envs EXCEPT ![e] = slot]
  BY <1>1, <1>2, <1>4
<1>7. envs' \in [EnvSlot -> SlotOf(D)]
  BY <1>1, <1>2, <1>5, <1>6
<1>8. ASSUME NEW x \in EnvSlot
      PROVE  SlotGood(envs'[x], x, retired'[x], x \in Lives(env_free_list'))
  <2>1. CASE x = e
    <3>1. envs'[x] = slot /\ x \in Lives(env_free_list')
      BY <1>1, <1>2, <1>6, <2>1
    <3> QED BY <1>1, <1>3, <1>5, <2>1, <3>1 DEF SlotGood
  <2>2. CASE x # e
    <3>1. envs'[x] = envs[x]
      BY <1>1, <1>2, <1>6, <2>2
    <3> QED BY <1>3, <3>1
  <2> QED BY <2>1, <2>2
<1> QED
  BY <1>1, <1>7, <1>8 DEF SlotsGood

\* Who the parent of an environment can be.
LEMMA ParentType ==
  ASSUME SlotInv, NEW parent \in Parent
  PROVE  parent \in 0 .. (IDMOD \div 2) - 1
<1>1. PICK D : envs \in [EnvSlot -> SlotOf(D)]
  BY DEF SlotInv, SlotsGood
<1>2. \A e \in {curenv} \ {Null} : e \in EnvSlot
  BY DEF SlotInv
<1>3. \A e \in EnvSlot : envs[e].env_id \in 0 .. (IDMOD \div 2) - 1
  BY <1>1 DEF SlotOf
<1>4. 0 \in 0 .. (IDMOD \div 2) - 1
  <2>1. 1 \in 1 .. Generations /\ 0 \in EnvSlot
    BY Numbers DEF EnvSlot
  <2>2. Id(1, 0) \in 1 .. (IDMOD \div 2) - 1
    BY <2>1, IdType
  <2> QED BY <2>2, Numbers
<1> QED
  BY <1>2, <1>3, <1>4 DEF Parent

\* A successful env_alloc has found a page and a slot.
LEMMA AllocGives ==
  ASSUME NEW parent, env_alloc(parent).e # Null
  PROVE  /\ env_free_list # <<>> /\ env_alloc(parent).e = Head(env_free_list)
         /\ page_alloc(mem, TRUE).pg # Null
         /\ env_alloc(parent).d = page_alloc(mem, TRUE).pg
         /\ env_alloc(parent).mem = env_setup_vm(page_alloc(mem, TRUE).mem, page_alloc(mem, TRUE).pg)
<1>1. PICK a : a = page_alloc(mem, TRUE)
  OBVIOUS
<1>2. env_alloc(parent) =
        IF env_free_list = <<>> THEN [e |-> Null, mem |-> mem, d |-> Null]
        ELSE IF a.pg = Null THEN [e |-> Null, mem |-> mem, d |-> Null]
        ELSE [e |-> Head(env_free_list), mem |-> env_setup_vm(a.mem, a.pg), d |-> a.pg]
  BY <1>1 DEF env_alloc
<1>3. env_free_list # <<>> /\ a.pg # Null
  BY <1>2
<1>4. env_alloc(parent) = [e |-> Head(env_free_list), mem |-> env_setup_vm(a.mem, a.pg), d |-> a.pg]
  BY <1>2, <1>3
<1>5. /\ env_alloc(parent).e = Head(env_free_list) /\ env_alloc(parent).d = a.pg
      /\ env_alloc(parent).mem = env_setup_vm(a.mem, a.pg)
  BY <1>4
<1> QED
  BY <1>1, <1>3, <1>5, Zenon

\* mem_init and env_init leave every slot on the list, in order, with id 0.
LEMMA InitSlots ==
  Init => SlotInv
<1> SUFFICES ASSUME Init PROVE SlotInv
  OBVIOUS
<1>0. NENV \in Nat \ {0}
  BY Numbers
<1>1. /\ env_free_list = [i \in 1 .. NENV |-> i - 1] /\ retired = [e \in EnvSlot |-> <<>>]
      /\ curenv = Null /\ call = Call("kernel", Null, <<>>, FALSE)
  BY DEF Init, Kernel
<1>2. PICK status \in [EnvSlot -> {"FREE", "RUNNABLE"}] :
        envs = [e \in EnvSlot |-> [env_id |-> 0, env_parent_id |-> 0,
                                   env_status |-> status[e], env_pgdir |-> Null]]
  BY DEF Init
<1>3. /\ env_free_list \in Seq(EnvSlot) /\ DOMAIN env_free_list = 1 .. NENV
      /\ \A i \in 1 .. NENV : env_free_list[i] = i - 1
  <2>1. PICK n \in Nat : n = NENV
    BY <1>0
  <2>2. \A i \in 1 .. n : i - 1 \in EnvSlot
    BY <2>1 DEF EnvSlot
  <2>3. [i \in 1 .. n |-> i - 1] \in Seq(EnvSlot)
    BY <2>2
  <2> QED BY <1>1, <2>1, <2>3
<1>4. \A i, j \in DOMAIN env_free_list : env_free_list[i] = env_free_list[j] => i = j
  BY <1>0, <1>3
<1>5. Lives(env_free_list) = {}
  <2> SUFFICES ASSUME NEW e \in EnvSlot PROVE e \in Names(env_free_list)
    BY DEF Lives
  <2>1. e + 1 \in 1 .. NENV /\ (e + 1) - 1 = e
    BY <1>0 DEF EnvSlot
  <2>2. env_free_list[e + 1] = e
    BY <1>3, <2>1
  <2> QED BY <1>3, <2>1, <2>2 DEF Names
<1>6. 0 \in 0 .. (IDMOD \div 2) - 1
  <2>1. 1 \in 1 .. Generations /\ 0 \in EnvSlot
    BY Numbers DEF EnvSlot
  <2>2. Id(1, 0) \in 1 .. (IDMOD \div 2) - 1
    BY <2>1, IdType
  <2> QED BY <2>2, Numbers
<1>7. envs \in [EnvSlot -> SlotOf({Null})]
  BY <1>2, <1>6 DEF SlotOf
<1>8. retired \in [EnvSlot -> Seq(IdRange)]
  BY <1>1
<1>9. \A e \in EnvSlot : SlotGood(envs[e], e, retired[e], e \in Lives(env_free_list))
  BY <1>1, <1>2, <1>5 DEF SlotGood, History
<1> QED
  BY <1>1, <1>3, <1>4, <1>7, <1>8, <1>9 DEF SlotInv, SlotsGood, Loops, Call

\* What the slots, the list and the ids are does not depend on memory.
LEMMA SameSlots ==
  ASSUME SlotInv, envs' = envs, env_free_list' = env_free_list, retired' = retired
  PROVE  SlotsGood(envs', env_free_list', retired') /\ Live' = Live
BY DEF SlotInv, Live, Listed

\* Every step preserves the invariant.
LEMMA NextSlots ==
  SlotInv /\ [Next]_vars => SlotInv'
<1> SUFFICES ASSUME SlotInv, [Next]_vars PROVE SlotInv'
  OBVIOUS
<1>0. call = Call(call.fn, call.e, call.todo, call.destroy) /\ curenv \in EnvSlot \cup {Null}
  BY DEF SlotInv
<1>1. ASSUME NEW fn, NEW e, NEW todo, NEW destroy, call' = Call(fn, e, todo, destroy),
             SlotsGood(envs', env_free_list', retired'),
             curenv' \in EnvSlot \cup {Null}, fn \in Loops => e \in Live'
      PROVE  SlotInv'
  BY <1>1 DEF SlotInv, Call
<1>2. ASSUME envs' = envs, env_free_list' = env_free_list, retired' = retired,
             curenv' = curenv, call' = call
      PROVE  SlotInv'
  BY <1>2, SameSlots DEF SlotInv
<1>3. ASSUME NEW parent \in Parent, EnvAlloc(parent) PROVE SlotInv'
  <2>1. SlotsGood(envs', env_free_list', retired')
    BY <1>3, ParentType, AllocGives, CommitSlots DEF EnvAlloc
  <2>2. call' = Call("kernel", Null, <<>>, FALSE) /\ curenv' = curenv
    BY <1>3 DEF EnvAlloc, Kernel
  <2> QED BY <1>0, <1>1, <2>1, <2>2 DEF Loops
<1>4. ASSUME NEW prog \in Programs, EnvCreate(prog) PROVE SlotInv'
  <2>1. curenv' = curenv
    BY <1>4 DEF EnvCreate
  <2>2. PICK r : r = env_alloc(0)
    OBVIOUS
  <2>3. CASE r.e # Null
    <3>1. Commit(r.e, 0, r.d) /\ call' = Call("load_icode", r.e, prog, FALSE)
      BY <1>4, <2>2, <2>3 DEF EnvCreate
    <3>2. 0 \in 0 .. (IDMOD \div 2) - 1
      BY ParentType DEF Parent
    <3>3. SlotsGood(envs', env_free_list', retired') /\ r.e \in Live'
      BY <2>2, <2>3, <3>1, <3>2, AllocGives, CommitSlots
    <3> QED BY <1>0, <1>1, <2>1, <3>1, <3>3
  <2>4. CASE r.e = Null
    <3>1. /\ envs' = envs /\ env_free_list' = env_free_list /\ retired' = retired
          /\ \/ call' = Call("panic", Null, <<>>, FALSE)
             \/ \E e \in Live : call' = Call("load_icode", e, prog, FALSE)
      BY <1>4, <2>2, <2>4 DEF EnvCreate
    <3>2. SlotsGood(envs', env_free_list', retired') /\ Live' = Live
      BY <3>1, SameSlots
    <3> QED BY <1>0, <1>1, <2>1, <3>1, <3>2 DEF Loops
  <2> QED BY <2>3, <2>4
<1>5. ASSUME LoadPage PROVE SlotInv'
  <2>1. /\ envs' = envs /\ env_free_list' = env_free_list /\ retired' = retired
        /\ curenv' = curenv /\ call.fn = "load_icode"
        /\ \/ call' = [call EXCEPT !.todo = Tail(@)]
           \/ call' = Call("panic", Null, <<>>, FALSE)
    BY <1>5 DEF LoadPage
  <2>2. SlotsGood(envs', env_free_list', retired') /\ Live' = Live
    BY <2>1, SameSlots
  <2>3. CASE call' = [call EXCEPT !.todo = Tail(@)]
    <3>1. call' = Call(call.fn, call.e, Tail(call.todo), call.destroy)
      BY <1>0, <2>3 DEF Call
    <3>2. call.e \in Live
      BY <2>1 DEF SlotInv, Loops
    <3> QED BY <1>0, <1>1, <2>1, <2>2, <3>1, <3>2
  <2>4. CASE call' = Call("panic", Null, <<>>, FALSE)
    BY <1>0, <1>1, <2>1, <2>2, <2>4 DEF Loops
  <2> QED BY <2>1, <2>3, <2>4
<1>6. ASSUME LoadStack PROVE SlotInv'
  <2>1. /\ envs' = envs /\ env_free_list' = env_free_list /\ retired' = retired
        /\ curenv' = curenv
        /\ \/ call' = Call("kernel", Null, <<>>, FALSE)
           \/ call' = Call("panic", Null, <<>>, FALSE)
    BY <1>6 DEF LoadStack, Kernel
  <2>2. SlotsGood(envs', env_free_list', retired') /\ Live' = Live
    BY <2>1, SameSlots
  <2> QED BY <1>0, <1>1, <2>1, <2>2 DEF Loops
<1>7. ASSUME NEW e \in EnvSlot, EnvRun(e) PROVE SlotInv'
  <2>1. /\ e \in Live /\ env_free_list' = env_free_list /\ retired' = retired
        /\ call' = Call("user", e, <<>>, FALSE) /\ curenv' \in EnvSlot \cup {Null}
    BY <1>0, <1>7 DEF EnvRun
  <2>2. SlotsGood(envs', env_free_list', retired')
    <3>1. CASE envs' = [envs EXCEPT ![e].env_status = "RUNNING"]
      BY <2>1, <3>1, RunSlots
    <3>2. CASE envs' = envs
      BY <2>1, <3>2, SameSlots
    <3> QED BY <1>7, <3>1, <3>2 DEF EnvRun
  <2> QED BY <1>1, <2>1, <2>2 DEF Loops
<1>8. ASSUME NEW e \in EnvSlot, EnvFree(e) \/ EnvDestroy(e) PROVE SlotInv'
  <2>1. PICK destroy \in BOOLEAN : env_free(e, destroy)
    BY <1>8 DEF EnvFree, EnvDestroy
  <2>2. /\ e \in Live /\ envs' = envs /\ env_free_list' = env_free_list
        /\ retired' = retired /\ curenv' = curenv
        /\ call' = Call("env_free", e, <<>>, destroy)
    BY <2>1 DEF env_free
  <2>3. SlotsGood(envs', env_free_list', retired') /\ Live' = Live
    BY <2>2, SameSlots
  <2> QED BY <1>0, <1>1, <2>2, <2>3
<1>9. ASSUME FreePage \/ FreeTable PROVE SlotInv'
  BY <1>2, <1>9 DEF FreePage, FreeTable
<1>10. ASSUME FreeDirectory PROVE SlotInv'
  <2>1. /\ call.fn = "env_free"
        /\ envs' = [envs EXCEPT ![call.e].env_pgdir = Null, ![call.e].env_status = "FREE"]
        /\ env_free_list' = <<call.e>> \o env_free_list
        /\ retired' = retired /\ curenv' = curenv
        /\ \/ call' = Call("monitor", Null, <<>>, FALSE)
           \/ call' = Call("kernel", Null, <<>>, FALSE)
    BY <1>10 DEF FreeDirectory, Kernel
  <2>2. call.e \in Live
    BY <2>1 DEF SlotInv, Loops
  <2>3. SlotsGood(envs', env_free_list', retired')
    BY <2>1, <2>2, FreeSlots
  <2> QED BY <1>0, <1>1, <2>1, <2>3 DEF Loops
<1>11. ASSUME Trap PROVE SlotInv'
  <2>1. /\ envs' = envs /\ env_free_list' = env_free_list /\ retired' = retired
        /\ curenv' = curenv /\ call' = Call("kernel", Null, <<>>, FALSE)
    BY <1>11 DEF Trap, Kernel
  <2>2. SlotsGood(envs', env_free_list', retired')
    BY <2>1, SameSlots
  <2> QED BY <1>0, <1>1, <2>1, <2>2 DEF Loops
<1>12. ASSUME NEW va, UserWrite(va, Word) \/ TlbFill(va) PROVE SlotInv'
  BY <1>2, <1>12 DEF UserWrite, TlbFill
<1>13. CASE UNCHANGED vars
  BY <1>2, <1>13 DEF vars
<1> QED
  BY <1>3, <1>4, <1>5, <1>6, <1>7, <1>8, <1>9, <1>10, <1>11, <1>12, <1>13 DEF Next, InKernel

\* What the invariant says of the slots.
LEMMA SlotInvImplies ==
  SlotInv => SlotsOK /\ StaleIdsRejected
<1> SUFFICES ASSUME SlotInv PROVE SlotsOK /\ StaleIdsRejected
  OBVIOUS
<1>1. \A e \in EnvSlot : SlotGood(envs[e], e, retired[e], e \in Live)
  BY LiveIs DEF SlotInv, SlotsGood
<1>2. \A i, j \in DOMAIN env_free_list : env_free_list[i] = env_free_list[j] => i = j
  BY DEF SlotInv, SlotsGood
<1>3. ASSUME NEW e \in Live
      PROVE  /\ envs[e].env_status # "FREE"
             /\ envs[e].env_id % NENV = e
             /\ envs[e].env_id >= GENSTEP
  <2>1. e \in EnvSlot /\ SlotGood(envs[e], e, retired[e], TRUE)
    BY <1>1 DEF Live
  <2>2. PICK k \in 1 .. Generations : envs[e].env_id = Id(k, e)
    BY <2>1 DEF SlotGood, History
  <2> QED BY <2>1, <2>2, IdType DEF SlotGood
<1>4. \A e \in EnvSlot : e \in Live <=> Pgdir(e) # Null
  BY <1>1 DEF SlotGood, Pgdir
<1>5. StaleIdsRejected
  <2> SUFFICES ASSUME NEW id \in 1 .. (IDMOD \div 2) - 1,
                      NEW e, e = envid2env(id, FALSE), e # Null
               PROVE  e \in Live /\ \A i \in DOMAIN retired[e] : retired[e][i] # id
    BY DEF StaleIdsRejected
  <2>0. id # 0 /\ id \in Int
    BY Numbers
  <2>1. e = id % NENV /\ envs[e].env_status # "FREE" /\ envs[e].env_id = id
    BY <2>0 DEF envid2env
  <2>2. e \in EnvSlot
    <3>1. PICK n \in Nat \ {0} : n = NENV
      BY Numbers
    <3>2. id % n \in 0 .. n - 1
      BY <2>0
    <3> QED BY <2>1, <3>1, <3>2 DEF EnvSlot
  <2>3. e \in Live
    BY <1>1, <2>0, <2>1, <2>2 DEF SlotGood
  <2>4. PICK s \in Seq(IdRange) : s = retired[e]
    BY <2>2 DEF SlotInv, SlotsGood
  <2>5. PICK k \in 1 .. Generations :
          /\ id = Id(k, e) /\ Len(s) <= Generations - 1
          /\ \A i \in 1 .. Len(s) : s[i] = Id(Before(k, Len(s) + 1 - i), e)
    BY <1>1, <2>0, <2>1, <2>2, <2>4 DEF SlotGood, History
  <2>6. ASSUME NEW i \in DOMAIN s PROVE s[i] # id
    <3>1. Len(s) \in Nat /\ i \in 1 .. Len(s)
      BY <2>4, LenProperties
    <3>2. Len(s) + 1 - i \in 1 .. Generations - 1
      BY <2>5, <3>1, Numbers
    <3>3. PICK j \in 1 .. Generations - 1 : j = Len(s) + 1 - i
      BY <3>2
    <3>4. j \in 0 .. Generations - 1
      BY <3>3, Numbers
    <3>5. Before(k, j) # k /\ Before(k, j) \in 1 .. Generations
      BY <3>3, <3>4, Circle
    <3>6. s[i] = Id(Before(k, j), e)
      BY <2>5, <3>1, <3>3
    <3> QED BY <2>2, <2>5, <3>5, <3>6, IdType
  <2>7. \A i \in DOMAIN retired[e] : retired[e][i] # id
    BY <2>4, <2>6
  <2> QED BY <2>3, <2>7
<1> QED
  BY <1>2, <1>3, <1>4, <1>5 DEF SlotsOK

\* The invariant holds of the specification.
LEMMA SlotInvariance ==
  Spec => []SlotInv
BY InitSlots, NextSlots, PTL DEF Spec

\* The slots off env_free_list are the environments, with a directory and an id
\* that is positive and names the slot, whatever env_alloc and env_free did
\* before and however often the generations have come round.
THEOREM SlotsCorrect ==
  Spec => []SlotsOK
BY SlotInvariance, SlotInvImplies, PTL

\* envid2env finds only environments that exist, and none under an id that
\* belonged to an earlier environment of the slot, until the generations have
\* come full circle.
THEOREM StaleIdsAreRejected ==
  Spec => []StaleIdsRejected
BY SlotInvariance, SlotInvImplies, PTL

USE PmapAssumption

----------------------------------------------------------------------------
(* The invariant of memory.  kd says what each frame is used for; a frame   *)
(* in use as a page table or as a page is named by the entry at[f] of the  *)
(* frame up[f] and by no other.                                            *)

Kind == {"kernel", "free", "lost", "dir", "table", "page"}

WellTyped(m, kd, up, at) ==
  m \in Mem /\ kd \in [Frame -> Kind] /\ up \in [Frame -> Frame] /\ at \in [Frame -> Ix]

\* The kernel's frames are its own, and its tables as mem_init left them.
KernelKept(m, kd) ==
  /\ \A f \in Frame : kd[f] = "kernel" <=> f \in Root \cup KTables
  /\ m.tab[kern_pgdir] = kernel_entries
  /\ \A t \in KTables : m.tab[t] = KernMap[t] /\ m.pp_ref[t] = 1

\* What directories and page tables name ...
DirNames(m, kd, up, at) ==
  \A d \in Frame, i \in UIx : kd[d] = "dir" /\ m.tab[d][i] # Null =>
    LET t == m.tab[d][i].pg
    IN  kd[t] = "table" /\ up[t] = d /\ at[t] = i /\ m.tab[d][i].perm = Perm

TableNames(m, kd, up, at) ==
  \A t \in Frame, j \in Ix : kd[t] = "table" /\ m.tab[t][j] # Null =>
    LET p == m.tab[t][j].pg
    IN  kd[p] = "page" /\ up[p] = t /\ at[p] = j

\* ... and by whom page tables and pages are named.
Named(m, kd, up, at) ==
  \A f \in Frame :
    /\ kd[f] = "table" => /\ kd[up[f]] = "dir" /\ at[f] \in UIx
                          /\ m.tab[up[f]][at[f]] # Null /\ m.tab[up[f]][at[f]].pg = f
    /\ kd[f] = "page"  => /\ kd[up[f]] = "table"
                          /\ m.tab[up[f]][at[f]] # Null /\ m.tab[up[f]][at[f]].pg = f

\* Above UTOP every directory is the kernel's, except for UVPT.
Upper(m, kd) ==
  \A d \in Frame : kd[d] = "dir" =>
    \A i \in Ix \ UIx : m.tab[d][i] = IF i = UVPT THEN [pg |-> d, perm |-> {"U"}]
                                      ELSE kernel_entries[i]

Counted(m, kd) ==
  \A f \in Frame : /\ kd[f] \in {"dir", "table", "page"} => m.pp_ref[f] = 1
                   /\ kd[f] = "free" => m.pp_ref[f] = 0

FreeSet(kd) == {f \in Frame : kd[f] = "free"}
DirSet(kd)  == {f \in Frame : kd[f] = "dir"}
LostSet(kd) == {f \in Frame : kd[f] = "lost"}

\* The processor is on a directory in use, and has cached what the tables say.
Cached(m, kd) ==
  /\ m.cr3 = kern_pgdir \/ kd[m.cr3] = "dir"
  /\ \A va \in Va : m.tlb[va] = Null \/ m.tlb[va] = translate(m, m.cr3, va)

Good(m, kd, up, at) ==
  /\ WellTyped(m, kd, up, at) /\ KernelKept(m, kd)
  /\ DirNames(m, kd, up, at) /\ TableNames(m, kd, up, at) /\ Named(m, kd, up, at)
  /\ Upper(m, kd) /\ Counted(m, kd) /\ IsFreeList(m, FreeSet(kd)) /\ Cached(m, kd)

----------------------------------------------------------------------------
(* What the processor finds *)

\* What the assumptions say of the kernel's frames.
LEMMA KernelFrames ==
  /\ kern_pgdir \in Frame /\ kern_pgdir \in Root /\ KTables \subseteq Frame
  /\ UIx \subseteq Ix /\ UVPT \in Ix /\ UVPT \notin UIx
  /\ \A i \in UIx : kernel_entries[i] = Null
  /\ \A i \in Ix : i # UVPT /\ kernel_entries[i] # Null =>
                     /\ i \in DOMAIN KernTab
                     /\ kernel_entries[i].pg = KernTab[i] /\ KernTab[i] \in KTables
  /\ kernel_entries[UVPT] # Null /\ kernel_entries[UVPT].pg = kern_pgdir
  /\ kernel_entries \in Table
<1>1. /\ kern_pgdir \in Frame /\ kern_pgdir \in Root /\ UVPT \in Ix \ UIx /\ UIx \subseteq Ix
      /\ DOMAIN KernTab \subseteq (Ix \ UIx) \ {UVPT} /\ KTables \subseteq Frame
  BY EnvAssumption DEF Page, UIx
<1>2. \A i \in DOMAIN KernTab : KernTab[i] \in KTables
  BY DEF KTables
<1>3. [pg |-> kern_pgdir, perm |-> {"U"}] \in Entry
  BY <1>1 DEF Entry, Perm
<1>4. \A i \in DOMAIN KernTab : [pg |-> KernTab[i], perm |-> Perm] \in Entry
  BY <1>1, <1>2 DEF Entry
<1>5. \A i \in Ix : kernel_entries[i] = IF i = UVPT THEN [pg |-> kern_pgdir, perm |-> {"U"}]
                ELSE IF i \in DOMAIN KernTab THEN [pg |-> KernTab[i], perm |-> Perm]
                ELSE Null
  BY DEF kernel_entries
<1>6. kernel_entries \in Table
  BY <1>3, <1>4 DEF kernel_entries, Table
<1>7. \A i \in UIx : kernel_entries[i] = Null
  BY <1>1, <1>5
<1>8. kernel_entries[UVPT] # Null /\ kernel_entries[UVPT].pg = kern_pgdir
  <2>1. kernel_entries[UVPT] = [pg |-> kern_pgdir, perm |-> {"U"}]
    BY <1>1, <1>5
  <2> QED BY <1>3, <2>1
<1>9. \A i \in Ix : i # UVPT /\ kernel_entries[i] # Null =>
                     /\ i \in DOMAIN KernTab
                     /\ kernel_entries[i].pg = KernTab[i] /\ KernTab[i] \in KTables
  <2> SUFFICES ASSUME NEW i \in Ix, i # UVPT, kernel_entries[i] # Null
               PROVE  /\ i \in DOMAIN KernTab
                      /\ kernel_entries[i].pg = KernTab[i] /\ KernTab[i] \in KTables
    OBVIOUS
  <2>1. i \in DOMAIN KernTab
    BY <1>5
  <2>2. kernel_entries[i] = [pg |-> KernTab[i], perm |-> Perm]
    BY <1>5, <2>1
  <2> QED BY <1>2, <2>1, <2>2
<1> QED
  BY <1>1, <1>6, <1>7, <1>8, <1>9

\* The table that the walk for va under directory c comes to.
LEMMA Walked ==
  ASSUME NEW m, NEW kd, NEW up, NEW at, Good(m, kd, up, at),
         NEW c \in Frame, c = kern_pgdir \/ kd[c] = "dir", NEW i \in Ix, m.tab[c][i] # Null
  PROVE  LET t == m.tab[c][i].pg
         IN  /\ t \in Frame
             /\ \/ t = c
                \/ kd[t] = "table" /\ up[t] = c /\ at[t] = i /\ i \in UIx /\ kd[c] = "dir"
                \/ t \in KTables /\ i \in DOMAIN KernTab
<1> DEFINE t == m.tab[c][i].pg
<1>1. m.tab \in [Frame -> Table]
  BY DEF Good, WellTyped, Mem
<1>2. t \in Frame
  BY <1>1 DEF Table, Entry
<1>3. CASE c = kern_pgdir
  <2>1. m.tab[c][i] = kernel_entries[i]
    BY <1>3 DEF Good, KernelKept
  <2> QED BY <1>2, <1>3, <2>1, KernelFrames
<1>4. CASE c # kern_pgdir /\ i \in UIx
  BY <1>2, <1>4 DEF Good, DirNames
<1>5. CASE c # kern_pgdir /\ i \notin UIx
  <2>1. m.tab[c][i] = IF i = UVPT THEN [pg |-> c, perm |-> {"U"}] ELSE kernel_entries[i]
    BY <1>5 DEF Good, Upper
  <2> QED BY <1>2, <2>1, KernelFrames
<1> QED
  BY <1>3, <1>4, <1>5

\* The entries of m that m2 has not are none that a walk from %cr3 can come
\* to, or have been flushed.
Keeps(m, m2, kd, up, at) ==
  \A f \in Frame, x \in Ix : m.tab[f][x] # Null /\ m2.tab[f][x] # m.tab[f][x] =>
    /\ f # m.cr3 /\ kd[f] # "kernel"
    /\ kd[f] = "table" /\ up[f] = m.cr3 => m2.tlb[<<at[f], x>>] = Null

\* What the processor has cached stays what the tables say.
LEMMA TlbKeeps ==
  ASSUME NEW m, NEW kd, NEW up, NEW at, Good(m, kd, up, at),
         NEW m2, Keeps(m, m2, kd, up, at), m2.cr3 = m.cr3,
         \A va \in Va : m2.tlb[va] = Null \/ m2.tlb[va] = m.tlb[va]
  PROVE  \A va \in Va : m2.tlb[va] = Null \/ m2.tlb[va] = translate(m2, m2.cr3, va)
<1> SUFFICES ASSUME NEW va \in Va, m2.tlb[va] # Null
             PROVE  m2.tlb[va] = translate(m2, m2.cr3, va)
  OBVIOUS
<1> DEFINE c == m.cr3
           t == m.tab[c][va[1]].pg
<1>1. m2.tlb[va] = translate(m, c, va) /\ translate(m, c, va) # Null
  BY DEF Good, Cached
<1>2. va[1] \in Ix /\ va[2] \in Ix /\ va = <<va[1], va[2]>>
  BY DEF Va
<1>3. c \in Frame /\ (c = kern_pgdir \/ kd[c] = "dir")
  BY DEF Good, WellTyped, Mem, Cached
<1>4. m.tab[c][va[1]] # Null /\ m.tab[t][va[2]] # Null
  BY <1>1 DEF translate
<1>5. /\ t \in Frame
      /\ \/ t = c
         \/ kd[t] = "table" /\ up[t] = c /\ at[t] = va[1]
         \/ t \in KTables
  BY <1>2, <1>3, <1>4, Walked
<1>6. m2.tab[c][va[1]] = m.tab[c][va[1]]
  BY <1>2, <1>3, <1>4 DEF Keeps
<1>7. m2.tab[t][va[2]] = m.tab[t][va[2]]
  <2>1. t \in KTables => kd[t] = "kernel"
    BY <1>5 DEF Good, KernelKept
  <2>2. PICK i \in Ix, j \in Ix : va = <<i, j>> /\ i = va[1] /\ j = va[2]
    BY <1>2
  <2> HIDE DEF t
  <2> SUFFICES ASSUME m2.tab[t][j] # m.tab[t][j] PROVE FALSE
    BY <2>2
  <2>3. m.tab[t][j] # Null
    BY <1>4, <2>2
  <2>4. /\ t # m.cr3 /\ kd[t] # "kernel"
        /\ kd[t] = "table" /\ up[t] = m.cr3 => m2.tlb[<<at[t], j>>] = Null
    BY <1>5, <2>3 DEF Keeps
  <2> QED BY <1>5, <2>1, <2>2, <2>4
<1>8. translate(m2, c, va) = translate(m, c, va)
  BY <1>6, <1>7 DEF translate
<1> QED
  BY <1>1, <1>8

\* Entries name frames.
LEMMA EntryFrames ==
  ASSUME NEW m \in Mem
  PROVE  \A f \in Frame, i \in Ix : m.tab[f][i] # Null =>
           m.tab[f][i] \in Entry /\ m.tab[f][i].pg \in Frame
<1>1. m.tab \in [Frame -> Table]
  BY DEF Mem
<1> QED
  BY <1>1 DEF Table, Entry

----------------------------------------------------------------------------
(* The operations of PmapOps, each as the change it makes to the uses *)

Put(f, x, y) == [f EXCEPT ![x] = y]
Plus(S, x)   == S \cup {x}
Minus(S, x)  == S \ {x}

\* The address with index i in the directory and j in the table, and what
\* pgdir_walk, page_remove and page_insert do there.
Addr(i, j)            == <<i, j>>
walk_at(m, d, i, j)   == pgdir_walk(m, d, Addr(i, j), TRUE)
remove_at(m, d, i, j) == page_remove(m, d, Addr(i, j))
insert_at(m, d, p, i, j) == page_insert(m, d, p, Addr(i, j), Perm)

\* Whatever is put in a frame that is none of the kernel's, no directory and no
\* table changes nothing that a walk finds.
LEMMA WriteGood ==
  ASSUME NEW m, NEW kd, NEW up, NEW at, Good(m, kd, up, at),
         NEW p \in Frame, kd[p] \in {"lost", "page"}, NEW new \in Table
  PROVE  Good([m EXCEPT !.tab[p] = new], kd, up, at)
<1> DEFINE m2 == [m EXCEPT !.tab[p] = new]
<1>1. /\ m \in Mem /\ m.tab \in [Frame -> Table] /\ kern_pgdir \in Frame /\ KTables \subseteq Frame
      /\ kd[kern_pgdir] = "kernel" /\ \A t \in KTables : kd[t] = "kernel"
  BY KernelFrames DEF Good, WellTyped, Mem, KernelKept
<1>2. /\ m2.pp_ref = m.pp_ref /\ m2.pp_link = m.pp_link /\ m2.page_free_list = m.page_free_list
      /\ m2.cr3 = m.cr3 /\ m2.tlb = m.tlb /\ m2.tab = [m.tab EXCEPT ![p] = new] /\ m2 \in Mem
  BY <1>1 DEF Mem
<1>3. m2.tab[p] = new /\ \A f \in Frame : f # p => m2.tab[f] = m.tab[f]
  BY <1>1, <1>2
<1> HIDE DEF m2
<1>4. WellTyped(m2, kd, up, at) /\ KernelKept(m2, kd)
  BY <1>1, <1>2, <1>3 DEF Good, WellTyped, KernelKept
<1>5. DirNames(m2, kd, up, at) /\ TableNames(m2, kd, up, at)
  BY <1>3 DEF Good, DirNames, TableNames
<1>6. Named(m2, kd, up, at)
  BY <1>3 DEF Good, Named, WellTyped
<1>7. Upper(m2, kd) /\ Counted(m2, kd) /\ IsFreeList(m2, FreeSet(kd))
  BY <1>2, <1>3, FreeListSame DEF Good, Upper, Counted
<1>8. Cached(m2, kd)
  <2>1. Keeps(m, m2, kd, up, at)
    BY <1>1, <1>3 DEF Good, Cached, Keeps
  <2> QED BY <1>2, <2>1, TlbKeeps DEF Good, Cached
<1> QED
  BY <1>4, <1>5, <1>6, <1>7, <1>8 DEF Good, m2

\* Loading %cr3 with the kernel's directory or with one in use.
LEMMA SwitchGood ==
  ASSUME NEW m, NEW kd, NEW up, NEW at, Good(m, kd, up, at),
         NEW c \in Frame, c = kern_pgdir \/ kd[c] = "dir"
  PROVE  /\ Good(lcr3(m, c), kd, up, at)
         /\ lcr3(m, c).cr3 = c /\ lcr3(m, c).tab = m.tab /\ lcr3(m, c).pp_ref = m.pp_ref
<1> DEFINE m2 == lcr3(m, c)
<1>1. m \in Mem /\ m.tlb \in [Va -> Entry \cup {Null}]
  BY DEF Good, WellTyped, Mem
<1>2. /\ m2.pp_ref = m.pp_ref /\ m2.pp_link = m.pp_link /\ m2.page_free_list = m.page_free_list
      /\ m2.cr3 = c /\ m2.tab = m.tab /\ m2.tlb = [va \in Va |-> Null] /\ m2 \in Mem
  BY <1>1 DEF Mem, lcr3
<1> HIDE DEF m2
<1>3. WellTyped(m2, kd, up, at) /\ KernelKept(m2, kd)
  BY <1>2 DEF Good, WellTyped, KernelKept
<1>4. DirNames(m2, kd, up, at) /\ TableNames(m2, kd, up, at) /\ Named(m2, kd, up, at)
  BY <1>2 DEF Good, DirNames, TableNames, Named
<1>5. Upper(m2, kd) /\ Counted(m2, kd) /\ IsFreeList(m2, FreeSet(kd)) /\ Cached(m2, kd)
  BY <1>2, FreeListSame DEF Good, Upper, Counted, Cached
<1> QED
  BY <1>2, <1>3, <1>4, <1>5 DEF Good, m2

\* The processor caches what the tables say.
LEMMA FillGood ==
  ASSUME NEW m, NEW kd, NEW up, NEW at, Good(m, kd, up, at), NEW va \in Va
  PROVE  /\ Good(tlb_fill(m, va), kd, up, at)
         /\ tlb_fill(m, va).cr3 = m.cr3 /\ tlb_fill(m, va).tab = m.tab
<1> DEFINE m2 == tlb_fill(m, va)
<1>1. /\ m \in Mem /\ m.tlb \in [Va -> Entry \cup {Null}]
      /\ translate(m, m.cr3, va) \in Entry \cup {Null}
  BY TranslateType DEF Good, WellTyped, Mem
<1>2. PICK x : x = translate(m, m.cr3, va)
  OBVIOUS
<1>3. /\ m2.pp_ref = m.pp_ref /\ m2.pp_link = m.pp_link /\ m2.page_free_list = m.page_free_list
      /\ m2.cr3 = m.cr3 /\ m2.tab = m.tab /\ m2.tlb = [m.tlb EXCEPT ![va] = x] /\ m2 \in Mem
  BY <1>1, <1>2 DEF Mem, tlb_fill
<1> HIDE DEF m2
<1>4. WellTyped(m2, kd, up, at) /\ KernelKept(m2, kd)
  BY <1>3 DEF Good, WellTyped, KernelKept
<1>5. DirNames(m2, kd, up, at) /\ TableNames(m2, kd, up, at) /\ Named(m2, kd, up, at)
  BY <1>3 DEF Good, DirNames, TableNames, Named
<1>6. Upper(m2, kd) /\ Counted(m2, kd) /\ IsFreeList(m2, FreeSet(kd))
  BY <1>3, FreeListSame DEF Good, Upper, Counted
<1>7. \A v \in Va : translate(m2, m2.cr3, v) = translate(m, m.cr3, v)
  BY <1>3 DEF translate
<1>8. Cached(m2, kd)
  BY <1>1, <1>2, <1>3, <1>7 DEF Good, Cached
<1> QED
  BY <1>3, <1>4, <1>5, <1>6, <1>8 DEF Good, m2

\* page_alloc takes the head of the free list; nobody uses it yet.
LEMMA AllocGood ==
  ASSUME NEW m, NEW kd, NEW up, NEW at, Good(m, kd, up, at),
         m.page_free_list # Null, NEW zero \in BOOLEAN
  PROVE  LET p == m.page_free_list
             n == page_alloc(m, zero).mem
         IN  /\ p \in Frame /\ kd[p] = "free" /\ page_alloc(m, zero).pg = p
             /\ Good(n, Put(kd, p, "lost"), up, at)
             /\ n.pp_ref[p] = 0 /\ n.cr3 = m.cr3
             /\ n.tab = [m.tab EXCEPT ![p] = IF zero THEN Blank ELSE m.tab[p]]
<1> USE DEF Put
<1> DEFINE n == page_alloc(m, zero).mem
           K == Put(kd, m.page_free_list, "lost")
<1>1. /\ m \in Mem /\ m.tab \in [Frame -> Table] /\ m.pp_link \in [Frame -> Frame \cup {Null}]
      /\ kd \in [Frame -> Kind] /\ m.page_free_list \in Frame
  BY DEF Good, WellTyped, Mem
<1>2. PICK p \in Frame : p = m.page_free_list
  BY <1>1
<1>3. PICK new \in Table : new = IF zero THEN Blank ELSE m.tab[p]
  <2>1. Blank \in Table
    BY DEF Blank, Table
  <2> QED BY <1>1, <2>1
<1>4. /\ page_alloc(m, zero).pg = p
      /\ n = [m EXCEPT !.page_free_list = m.pp_link[p], !.pp_link[p] = Null, !.tab[p] = new]
  BY <1>1, <1>2, <1>3 DEF page_alloc
<1>5. /\ n.pp_ref = m.pp_ref /\ n.pp_link = [m.pp_link EXCEPT ![p] = Null]
      /\ n.page_free_list = m.pp_link[p]
      /\ n.cr3 = m.cr3 /\ n.tab = [m.tab EXCEPT ![p] = new] /\ n.tlb = m.tlb /\ n \in Mem
  <2>1. /\ m.pp_link[p] \in Frame \cup {Null}
        /\ [m.pp_link EXCEPT ![p] = Null] \in [Frame -> Frame \cup {Null}]
        /\ [m.tab EXCEPT ![p] = new] \in [Frame -> Table]
    BY <1>1
  <2>2. PICK h, l, t : /\ h = m.pp_link[p] /\ l = [m.pp_link EXCEPT ![p] = Null]
                       /\ t = [m.tab EXCEPT ![p] = new]
    OBVIOUS
  <2>3. n = [m EXCEPT !.page_free_list = h, !.pp_link = l, !.tab = t]
    BY <1>1, <1>4, <2>2 DEF Mem
  <2> QED BY <1>1, <2>1, <2>2, <2>3 DEF Mem
<1> HIDE DEF n
<1>6. K[p] = "lost" /\ (\A f \in Frame : f # p => K[f] = kd[f]) /\ K \in [Frame -> Kind]
  BY <1>1, <1>2 DEF Kind
<1> HIDE DEF K
<1>7. IsFreeList(m, FreeSet(kd)) /\ FreeSet(kd) \in SUBSET Frame
  BY DEF Good, FreeSet
<1>8. p \in FreeSet(kd) /\ IsFreeList(n, FreeSet(kd) \ {p})
  BY <1>1, <1>2, <1>5, <1>7, FreeListPop
<1>9. kd[p] = "free" /\ FreeSet(K) = FreeSet(kd) \ {p}
  BY <1>6, <1>8 DEF FreeSet
<1>10. n.tab[p] = new /\ \A f \in Frame : f # p => n.tab[f] = m.tab[f]
  BY <1>1, <1>5
<1>11. kern_pgdir \in Frame /\ KTables \subseteq Frame /\ p # kern_pgdir /\ p \notin KTables
  BY <1>9, KernelFrames DEF Good, KernelKept
<1>12. WellTyped(n, K, up, at) /\ KernelKept(n, K)
  BY <1>5, <1>6, <1>9, <1>10, <1>11 DEF Good, WellTyped, KernelKept
<1>13. DirNames(n, K, up, at)
  <2> SUFFICES ASSUME NEW d \in Frame, NEW i \in UIx, K[d] = "dir", n.tab[d][i] # Null
               PROVE  LET t == n.tab[d][i].pg
                      IN  /\ K[t] = "table" /\ up[t] = d /\ at[t] = i
                          /\ n.tab[d][i].perm = Perm
    BY DEF DirNames
  <2>1. d # p /\ n.tab[d] = m.tab[d] /\ kd[d] = "dir" /\ i \in Ix
    BY <1>6, <1>10 DEF UIx
  <2> QED BY <1>1, <1>6, <1>9, <2>1, EntryFrames DEF Good, DirNames
<1>14. TableNames(n, K, up, at)
  <2> SUFFICES ASSUME NEW t \in Frame, NEW j \in Ix, K[t] = "table", n.tab[t][j] # Null
               PROVE  LET q == n.tab[t][j].pg
                      IN  K[q] = "page" /\ up[q] = t /\ at[q] = j
    BY DEF TableNames
  <2>1. t # p /\ n.tab[t] = m.tab[t] /\ kd[t] = "table"
    BY <1>6, <1>10
  <2> QED BY <1>1, <1>6, <1>9, <2>1, EntryFrames DEF Good, TableNames
<1>15. Named(n, K, up, at)
  BY <1>6, <1>9, <1>10 DEF Good, Named, WellTyped
<1>16. Upper(n, K) /\ Counted(n, K)
  BY <1>5, <1>6, <1>10 DEF Good, Upper, Counted
<1>17. Cached(n, K)
  <2>1. Keeps(m, n, kd, up, at)
    BY <1>9, <1>10, <1>11 DEF Good, Cached, Keeps
  <2>2. m.cr3 \in Frame
    BY <1>1 DEF Mem
  <2> QED BY <1>5, <1>6, <1>9, <2>1, <2>2, TlbKeeps DEF Good, Cached
<1>18. n.pp_ref[p] = 0
  BY <1>5, <1>9 DEF Good, Counted
<1> QED
  BY <1>2, <1>3, <1>4, <1>5, <1>8, <1>9, <1>12, <1>13, <1>14, <1>15, <1>16, <1>17, <1>18
     DEF Good, n, K

\* env_setup_vm makes a new page a directory, the kernel's above UTOP and empty
\* below.
LEMMA InstallGood ==
  ASSUME NEW m, NEW kd, NEW up, NEW at, Good(m, kd, up, at),
         NEW p \in Frame, kd[p] = "lost", m.pp_ref[p] = 0
  PROVE  LET n == env_setup_vm(m, p)
         IN  /\ Good(n, Put(kd, p, "dir"), up, at)
             /\ n.cr3 = m.cr3
             /\ \A i \in UIx : n.tab[p][i] = Null
             /\ \A f \in Frame \ {p} : n.tab[f] = m.tab[f]
<1> USE DEF Put
<1> DEFINE n == env_setup_vm(m, p)
           K == Put(kd, p, "dir")
           new == [kernel_entries EXCEPT ![UVPT] = [pg |-> p, perm |-> {"U"}]]
<1>1. /\ m \in Mem /\ m.tab \in [Frame -> Table] /\ kd \in [Frame -> Kind]
      /\ m.pp_ref \in [Frame -> 0 .. RefMod - 1] /\ m.tab[kern_pgdir] = kernel_entries
  BY DEF Good, WellTyped, KernelKept, Mem
<1>2. PICK c : c = pp_ref_incr(m, p)
  OBVIOUS
<1>3. /\ c \in Mem /\ c.pp_ref = [m.pp_ref EXCEPT ![p] = 1]
      /\ c.pp_link = m.pp_link /\ c.page_free_list = m.page_free_list
      /\ c.tab = m.tab /\ c.cr3 = m.cr3 /\ c.tlb = m.tlb
  BY <1>1, <1>2, Increment
<1>4. [pg |-> p, perm |-> {"U"}] \in Entry /\ UVPT \in Ix
  BY KernelFrames DEF Entry, Perm
<1>5. /\ new \in Table /\ \A i \in Ix : i # UVPT => new[i] = kernel_entries[i]
      /\ new[UVPT] = [pg |-> p, perm |-> {"U"}]
  BY <1>4, KernelFrames DEF Table
<1>6. n = [c EXCEPT !.tab[p] = new]
  BY <1>1, <1>2 DEF env_setup_vm
<1> HIDE DEF new
<1>7. /\ n.pp_ref = c.pp_ref /\ n.pp_link = m.pp_link /\ n.page_free_list = m.page_free_list
      /\ n.cr3 = m.cr3 /\ n.tlb = m.tlb /\ n.tab = [m.tab EXCEPT ![p] = new] /\ n \in Mem
  BY <1>1, <1>3, <1>5, <1>6 DEF Mem
<1> HIDE DEF n
<1>8. K[p] = "dir" /\ (\A f \in Frame : f # p => K[f] = kd[f]) /\ K \in [Frame -> Kind]
  BY <1>1 DEF Kind
<1> HIDE DEF K
<1>9. n.tab[p] = new /\ \A f \in Frame : f # p => n.tab[f] = m.tab[f]
  BY <1>1, <1>7
<1>10. n.pp_ref[p] = 1 /\ \A f \in Frame : f # p => n.pp_ref[f] = m.pp_ref[f]
  BY <1>1, <1>3, <1>7
<1>11. /\ kern_pgdir \in Frame /\ KTables \subseteq Frame /\ p # kern_pgdir /\ p \notin KTables
       /\ UVPT \notin UIx /\ UIx \subseteq Ix /\ \A i \in UIx : kernel_entries[i] = Null
  BY KernelFrames DEF Good, KernelKept
<1>12. \A i \in UIx : new[i] = Null
  BY <1>5, <1>11
<1>13. WellTyped(n, K, up, at) /\ KernelKept(n, K)
  BY <1>7, <1>8, <1>9, <1>10, <1>11 DEF Good, WellTyped, KernelKept
<1>14. DirNames(n, K, up, at)
  <2> SUFFICES ASSUME NEW d \in Frame, NEW i \in UIx, K[d] = "dir", n.tab[d][i] # Null
               PROVE  LET t == n.tab[d][i].pg
                      IN  /\ K[t] = "table" /\ up[t] = d /\ at[t] = i
                          /\ n.tab[d][i].perm = Perm
    BY DEF DirNames
  <2>1. d # p /\ n.tab[d] = m.tab[d] /\ kd[d] = "dir" /\ i \in Ix
    BY <1>8, <1>9, <1>11, <1>12
  <2> QED BY <1>1, <1>8, <2>1, EntryFrames DEF Good, DirNames
<1>15. TableNames(n, K, up, at)
  <2> SUFFICES ASSUME NEW t \in Frame, NEW j \in Ix, K[t] = "table", n.tab[t][j] # Null
               PROVE  LET q == n.tab[t][j].pg
                      IN  K[q] = "page" /\ up[q] = t /\ at[q] = j
    BY DEF TableNames
  <2>1. t # p /\ n.tab[t] = m.tab[t] /\ kd[t] = "table"
    BY <1>8, <1>9
  <2> QED BY <1>1, <1>8, <2>1, EntryFrames DEF Good, TableNames
<1>16. Named(n, K, up, at)
  BY <1>8, <1>9 DEF Good, Named, WellTyped
<1>17. Upper(n, K)
  BY <1>5, <1>8, <1>9 DEF Good, Upper
<1>18. Counted(n, K)
  BY <1>8, <1>10 DEF Good, Counted
<1>19. IsFreeList(n, FreeSet(K))
  <2>1. FreeSet(K) = FreeSet(kd)
    BY <1>8 DEF FreeSet
  <2> QED BY <1>7, <2>1, FreeListSame DEF Good
<1>20. Cached(n, K)
  <2>1. Keeps(m, n, kd, up, at)
    BY <1>9, <1>11 DEF Good, Cached, Keeps
  <2>2. m.cr3 \in Frame
    BY <1>1 DEF Mem
  <2> QED BY <1>7, <1>8, <2>1, <2>2, TlbKeeps DEF Good, Cached
<1> QED
  BY <1>7, <1>9, <1>12, <1>13, <1>14, <1>15, <1>16, <1>17, <1>18, <1>19, <1>20 DEF Good, n, K

\* The entry i, below UTOP, of a directory in use; the table it names; and a page
\* in nobody's use, with a count of n.
InDir(m, kd, up, at, d, i) ==
  Good(m, kd, up, at) /\ d \in Frame /\ kd[d] = "dir" /\ i \in UIx

HasTable(m, d, i, t) ==
  t \in Frame /\ m.tab[d][i] # Null /\ m.tab[d][i].pg = t

Unused(m, kd, p, n) ==
  p \in Frame /\ kd[p] = "lost" /\ m.pp_ref[p] = n

\* pgdir_walk makes a new blank page the table at an empty entry of a directory.
LEMMA EnterGood ==
  ASSUME NEW m, NEW kd, NEW up, NEW at, NEW d, NEW i, InDir(m, kd, up, at, d, i),
         m.tab[d][i] = Null,
         NEW p, Unused(m, kd, p, 0), m.tab[p] = Blank
  PROVE  LET n == enter_table(m, d, i, p)
         IN  /\ Good(n, Put(kd, p, "table"), Put(up, p, d), Put(at, p, i))
             /\ n.cr3 = m.cr3
             /\ \A f \in Frame \ {p} : n.pp_ref[f] = m.pp_ref[f]
             /\ \A f \in Frame \ {d} : n.tab[f] = m.tab[f]
             /\ HasTable(n, d, i, p)
<1> USE DEF InDir, HasTable, Unused, Put
<1> DEFINE n == enter_table(m, d, i, p)
           K == Put(kd, p, "table")
           U == Put(up, p, d)
           A == Put(at, p, i)
           new == [pg |-> p, perm |-> Perm]
<1>1. /\ m \in Mem /\ m.tab \in [Frame -> Table] /\ kd \in [Frame -> Kind]
      /\ m.pp_ref \in [Frame -> 0 .. RefMod - 1] /\ i \in Ix /\ m.tab[d] \in Table
  BY DEF Good, WellTyped, Mem, UIx
<1>2. PICK c : c = pp_ref_incr(m, p)
  OBVIOUS
<1>3. /\ c \in Mem /\ c.pp_ref = [m.pp_ref EXCEPT ![p] = 1]
      /\ c.pp_link = m.pp_link /\ c.page_free_list = m.page_free_list
      /\ c.tab = m.tab /\ c.cr3 = m.cr3 /\ c.tlb = m.tlb
  BY <1>1, <1>2, Increment
<1>4. new \in Entry /\ new # Null /\ new.pg = p /\ new.perm = Perm
  BY DEF Entry
<1>5. n = [c EXCEPT !.tab[d][i] = new]
  BY <1>2 DEF enter_table
<1> HIDE DEF new
<1>6. PICK T \in Table : T = [m.tab[d] EXCEPT ![i] = new]
  BY <1>1, <1>4 DEF Table
<1>7. T[i] = new /\ \A x \in Ix : x # i => T[x] = m.tab[d][x]
  BY <1>1, <1>6 DEF Table
<1>8. n = [c EXCEPT !.tab[d] = T]
  BY <1>1, <1>3, <1>5, <1>6 DEF Mem
<1>9. /\ n.pp_ref = c.pp_ref /\ n.pp_link = m.pp_link /\ n.page_free_list = m.page_free_list
      /\ n.cr3 = m.cr3 /\ n.tlb = m.tlb /\ n.tab = [m.tab EXCEPT ![d] = T] /\ n \in Mem
  BY <1>1, <1>3, <1>8 DEF Mem
<1> HIDE DEF n
<1>10. /\ K[p] = "table" /\ U[p] = d /\ A[p] = i
       /\ K \in [Frame -> Kind] /\ U \in [Frame -> Frame] /\ A \in [Frame -> Ix]
       /\ \A f \in Frame : f # p => K[f] = kd[f] /\ U[f] = up[f] /\ A[f] = at[f]
  BY <1>1 DEF Good, WellTyped, Kind
<1> HIDE DEF K, U, A
<1>11. n.tab[d] = T /\ \A f \in Frame : f # d => n.tab[f] = m.tab[f]
  BY <1>1, <1>9
<1>12. n.pp_ref[p] = 1 /\ \A f \in Frame : f # p => n.pp_ref[f] = m.pp_ref[f]
  BY <1>1, <1>3, <1>9
<1>13. /\ kern_pgdir \in Frame /\ KTables \subseteq Frame /\ p # kern_pgdir /\ p \notin KTables
       /\ d # kern_pgdir /\ d \notin KTables /\ d # p /\ UIx \subseteq Ix
  BY KernelFrames DEF Good, KernelKept
<1>14. \A x \in Ix : n.tab[p][x] = Null
  BY <1>11, <1>13 DEF Blank
<1>15. \A f \in Frame, x \in Ix : m.tab[f][x] # Null => n.tab[f][x] = m.tab[f][x]
  BY <1>7, <1>11
<1>16. WellTyped(n, K, U, A) /\ KernelKept(n, K)
  BY <1>9, <1>10, <1>11, <1>12, <1>13 DEF Good, WellTyped, KernelKept
<1>17. DirNames(n, K, U, A)
  <2> SUFFICES ASSUME NEW g \in Frame, NEW x \in UIx, K[g] = "dir", n.tab[g][x] # Null
               PROVE  LET t == n.tab[g][x].pg
                      IN  /\ K[t] = "table" /\ U[t] = g /\ A[t] = x
                          /\ n.tab[g][x].perm = Perm
    BY DEF DirNames
  <2>1. CASE g = d /\ x = i
    BY <1>4, <1>7, <1>10, <1>11, <2>1
  <2>2. CASE g # d \/ x # i
    <3>1. n.tab[g][x] = m.tab[g][x] /\ kd[g] = "dir" /\ x \in Ix
      BY <1>7, <1>10, <1>11, <1>13, <2>2
    <3> QED BY <1>1, <1>10, <3>1, EntryFrames DEF Good, DirNames
  <2> QED BY <2>1, <2>2
<1>18. TableNames(n, K, U, A)
  <2> SUFFICES ASSUME NEW t \in Frame, NEW j \in Ix, K[t] = "table", n.tab[t][j] # Null
               PROVE  LET q == n.tab[t][j].pg
                      IN  K[q] = "page" /\ U[q] = t /\ A[q] = j
    BY DEF TableNames
  <2>1. t # p /\ t # d /\ n.tab[t] = m.tab[t] /\ kd[t] = "table"
    BY <1>10, <1>11, <1>13, <1>14
  <2> QED BY <1>1, <1>10, <2>1, EntryFrames DEF Good, TableNames
<1>19. Named(n, K, U, A)
  <2> SUFFICES ASSUME NEW f \in Frame
               PROVE  /\ K[f] = "table" => /\ K[U[f]] = "dir" /\ A[f] \in UIx
                                            /\ n.tab[U[f]][A[f]] # Null /\ n.tab[U[f]][A[f]].pg = f
                      /\ K[f] = "page"  => /\ K[U[f]] = "table"
                                            /\ n.tab[U[f]][A[f]] # Null /\ n.tab[U[f]][A[f]].pg = f
    BY DEF Named
  <2>1. CASE f = p
    BY <1>4, <1>7, <1>10, <1>11, <1>13, <2>1
  <2>2. CASE f # p
    <3>1. up[f] \in Frame /\ at[f] \in Ix /\ K[f] = kd[f] /\ U[f] = up[f] /\ A[f] = at[f]
      BY <1>10, <2>2 DEF Good, WellTyped
    <3>2. K[f] = "table" => kd[up[f]] = "dir" /\ up[f] # p
      BY ZenonT(30), <3>1 DEF Good, Named
    <3>3. K[f] = "page" => kd[up[f]] = "table" /\ up[f] # p
      BY <3>1 DEF Good, Named
    <3> QED BY <1>10, <1>15, <3>1, <3>2, <3>3 DEF Good, Named
  <2> QED BY <2>1, <2>2
<1>20. Upper(n, K)
  <2> SUFFICES ASSUME NEW g \in Frame, K[g] = "dir", NEW x \in Ix \ UIx
               PROVE  n.tab[g][x] = IF x = UVPT THEN [pg |-> g, perm |-> {"U"}]
                                    ELSE kernel_entries[x]
    BY DEF Upper
  <2>1. kd[g] = "dir" /\ n.tab[g][x] = m.tab[g][x]
    BY <1>7, <1>10, <1>11
  <2> QED BY <2>1 DEF Good, Upper
<1>21. Counted(n, K)
  BY <1>10, <1>12 DEF Good, Counted
<1>22. IsFreeList(n, FreeSet(K))
  <2>1. FreeSet(K) = FreeSet(kd)
    BY <1>10 DEF FreeSet
  <2> QED BY <1>9, <2>1, FreeListSame DEF Good
<1>23. Cached(n, K)
  <2>1. Keeps(m, n, kd, up, at)
    BY <1>15 DEF Keeps
  <2>2. m.cr3 \in Frame
    BY <1>1 DEF Mem
  <2> QED BY <1>9, <1>10, <2>1, <2>2, TlbKeeps DEF Good, Cached
<1>24. n.tab[d][i] # Null /\ n.tab[d][i].pg = p
  BY <1>4, <1>7, <1>11
<1> QED
  BY <1>9, <1>11, <1>12, <1>16, <1>17, <1>18, <1>19, <1>20, <1>21, <1>22, <1>23, <1>24
     DEF Good, n, K, U, A

\* page_insert counts the page before it enters it.
LEMMA CountGood ==
  ASSUME NEW m, NEW kd, NEW up, NEW at, Good(m, kd, up, at),
         NEW p \in Frame, kd[p] = "lost", m.pp_ref[p] = 0
  PROVE  LET n == pp_ref_incr(m, p)
         IN  /\ Good(n, kd, up, at) /\ n.pp_ref[p] = 1 /\ n.cr3 = m.cr3 /\ n.tab = m.tab
<1> DEFINE n == pp_ref_incr(m, p)
<1>1. m \in Mem /\ m.pp_ref \in [Frame -> 0 .. RefMod - 1]
  BY DEF Good, WellTyped, Mem
<1>2. /\ n \in Mem /\ n.pp_ref = [m.pp_ref EXCEPT ![p] = 1]
      /\ n.pp_link = m.pp_link /\ n.page_free_list = m.page_free_list
      /\ n.tab = m.tab /\ n.cr3 = m.cr3 /\ n.tlb = m.tlb
  BY <1>1, Increment
<1> HIDE DEF n
<1>3. n.pp_ref[p] = 1 /\ \A f \in Frame : f # p => n.pp_ref[f] = m.pp_ref[f]
  BY <1>1, <1>2
<1>4. WellTyped(n, kd, up, at) /\ KernelKept(n, kd)
  BY <1>2, <1>3, KernelFrames DEF Good, WellTyped, KernelKept
<1>5. DirNames(n, kd, up, at) /\ TableNames(n, kd, up, at) /\ Named(n, kd, up, at)
  BY <1>2 DEF Good, DirNames, TableNames, Named
<1>6. Upper(n, kd) /\ Counted(n, kd) /\ IsFreeList(n, FreeSet(kd))
  BY <1>2, <1>3, FreeListSame DEF Good, Upper, Counted
<1>7. \A v \in Va : translate(n, n.cr3, v) = translate(m, m.cr3, v)
  BY <1>2 DEF translate
<1>8. Cached(n, kd)
  BY <1>2, <1>7 DEF Good, Cached
<1> QED
  BY <1>2, <1>3, <1>4, <1>5, <1>6, <1>8 DEF Good, n

\* The entries that page_insert writes.
place(m, d, i, t, j, p, perm) ==
  [m EXCEPT !.tab[t][j] = [pg |-> p, perm |-> perm], !.tab[d][i].perm = @ \cup perm]

\* page_insert enters the page in an empty entry of a page table.  The table is
\* already open to everybody in its directory.
LEMMA PlaceGood ==
  ASSUME NEW m, NEW kd, NEW up, NEW at, NEW d, NEW i, InDir(m, kd, up, at, d, i),
         NEW t, HasTable(m, d, i, t), NEW j \in Ix, m.tab[t][j] = Null,
         NEW p, Unused(m, kd, p, 1), NEW perm \in SUBSET Perm
  PROVE  LET n == place(m, d, i, t, j, p, perm)
         IN  /\ Good(n, Put(kd, p, "page"), Put(up, p, t), Put(at, p, j))
             /\ n.cr3 = m.cr3
<1> USE DEF InDir, HasTable, Unused, Put
<1> DEFINE n == place(m, d, i, t, j, p, perm)
           K == Put(kd, p, "page")
           U == Put(up, p, t)
           A == Put(at, p, j)
           new == [pg |-> p, perm |-> perm]
<1>1. /\ m \in Mem /\ m.tab \in [Frame -> Table] /\ kd \in [Frame -> Kind]
      /\ m.tab[t] \in Table
  BY DEF Good, WellTyped, Mem
<1>2. /\ d = up[t] /\ i = at[t] /\ kd[d] = "dir" /\ i \in Ix /\ kd[t] = "table"
      /\ m.tab[d][i] # Null /\ m.tab[d][i].pg = t /\ m.tab[d][i].perm = Perm
  BY DEF Good, DirNames, UIx
<1>3. new \in Entry /\ new # Null /\ new.pg = p
  BY DEF Entry
<1>4. d # t
  BY <1>2
<1>5. n = [m EXCEPT !.tab[t][j] = new, !.tab[d][i].perm = @ \cup perm]
  BY DEF place
<1> HIDE DEF new
<1>6. PICK T \in Table : T = [m.tab[t] EXCEPT ![j] = new]
  BY <1>1, <1>3 DEF Table
<1>7. T[j] = new /\ \A x \in Ix : x # j => T[x] = m.tab[t][x]
  BY <1>1, <1>6 DEF Table
<1>22. PICK X \in [Frame -> Table] : X = [m.tab EXCEPT ![t] = T]
  BY <1>1
<1>8. n = [m EXCEPT !.tab = X]
  <2>1. n = [m EXCEPT !.tab[t][j] = new, !.tab[d][i].perm = Perm]
    BY <1>2, <1>5
  <2>2. X[d] = m.tab[d]
    BY <1>1, <1>4, <1>22
  <2>3. [X[d][i] EXCEPT !.perm = Perm] = X[d][i]
    <3>1. X[d][i] \in Entry /\ X[d][i].perm = Perm
      BY <1>1, <1>2, <2>2, EntryFrames
    <3> QED BY <3>1 DEF Entry
  <2>4. [X EXCEPT ![d][i].perm = Perm] = X
    BY <2>2, <2>3 DEF Table
  <2>5. PICK m1 : m1 = [m EXCEPT !.tab[t][j] = new]
    OBVIOUS
  <2>6. m1 = [m EXCEPT !.tab = X]
    BY <1>1, <1>6, <1>22, <2>5 DEF Mem
  <2>7. m1 \in Mem /\ m1.tab = X
    BY <1>1, <2>6 DEF Mem
  <2>8. n = [m1 EXCEPT !.tab[d][i].perm = Perm]
    BY <2>1, <2>5
  <2>9. n = [m1 EXCEPT !.tab = X]
    BY <2>4, <2>7, <2>8 DEF Mem
  <2> QED BY <1>1, <2>6, <2>9 DEF Mem
<1>9. /\ n.pp_ref = m.pp_ref /\ n.pp_link = m.pp_link /\ n.page_free_list = m.page_free_list
      /\ n.cr3 = m.cr3 /\ n.tlb = m.tlb /\ n.tab = X /\ n \in Mem
  BY <1>1, <1>8 DEF Mem
<1> HIDE DEF n
<1>10. /\ K[p] = "page" /\ U[p] = t /\ A[p] = j
       /\ K \in [Frame -> Kind] /\ U \in [Frame -> Frame] /\ A \in [Frame -> Ix]
       /\ \A f \in Frame : f # p => K[f] = kd[f] /\ U[f] = up[f] /\ A[f] = at[f]
  BY <1>1 DEF Good, WellTyped, Kind
<1> HIDE DEF K, U, A
<1>11. n.tab[t] = T /\ \A f \in Frame : f # t => n.tab[f] = m.tab[f]
  BY <1>1, <1>22, <1>9
<1>12. /\ kern_pgdir \in Frame /\ KTables \subseteq Frame /\ p # kern_pgdir /\ p \notin KTables
       /\ t # kern_pgdir /\ t \notin KTables /\ t # p /\ UIx \subseteq Ix
  BY <1>2, KernelFrames DEF Good, KernelKept
<1>13. \A f \in Frame, x \in Ix : m.tab[f][x] # Null => n.tab[f][x] = m.tab[f][x]
  BY <1>7, <1>11
<1>14. WellTyped(n, K, U, A) /\ KernelKept(n, K)
  BY <1>9, <1>10, <1>11, <1>12 DEF Good, WellTyped, KernelKept
<1>15. DirNames(n, K, U, A)
  <2> SUFFICES ASSUME NEW g \in Frame, NEW x \in UIx, K[g] = "dir", n.tab[g][x] # Null
               PROVE  LET q == n.tab[g][x].pg
                      IN  /\ K[q] = "table" /\ U[q] = g /\ A[q] = x
                          /\ n.tab[g][x].perm = Perm
    BY DEF DirNames
  <2>1. n.tab[g][x] = m.tab[g][x] /\ kd[g] = "dir" /\ x \in Ix
    BY <1>2, <1>10, <1>11, <1>12
  <2> QED BY <1>1, <1>10, <2>1, EntryFrames DEF Good, DirNames
<1>16. TableNames(n, K, U, A)
  <2> SUFFICES ASSUME NEW g \in Frame, NEW x \in Ix, K[g] = "table", n.tab[g][x] # Null
               PROVE  LET q == n.tab[g][x].pg
                      IN  K[q] = "page" /\ U[q] = g /\ A[q] = x
    BY DEF TableNames
  <2>1. CASE g = t /\ x = j
    BY <1>3, <1>7, <1>10, <1>11, <2>1
  <2>2. CASE g # t \/ x # j
    <3>1. n.tab[g][x] = m.tab[g][x] /\ kd[g] = "table"
      BY <1>7, <1>10, <1>11, <1>12, <2>2
    <3> QED BY <1>1, <1>10, <3>1, EntryFrames DEF Good, TableNames
  <2> QED BY <2>1, <2>2
<1>17. Named(n, K, U, A)
  <2> SUFFICES ASSUME NEW f \in Frame
               PROVE  /\ K[f] = "table" => /\ K[U[f]] = "dir" /\ A[f] \in UIx
                                            /\ n.tab[U[f]][A[f]] # Null /\ n.tab[U[f]][A[f]].pg = f
                      /\ K[f] = "page"  => /\ K[U[f]] = "table"
                                            /\ n.tab[U[f]][A[f]] # Null /\ n.tab[U[f]][A[f]].pg = f
    BY DEF Named
  <2>1. CASE f = p
    BY <1>2, <1>3, <1>7, <1>10, <1>11, <1>12, <2>1
  <2>2. CASE f # p
    <3>1. up[f] \in Frame /\ at[f] \in Ix /\ K[f] = kd[f] /\ U[f] = up[f] /\ A[f] = at[f]
      BY <1>10, <2>2 DEF Good, WellTyped
    <3>2. K[f] = "table" => kd[up[f]] = "dir" /\ up[f] # p
      <4>1. kd[f] = "table" => kd[up[f]] = "dir"
        BY DEF Good, Named
      <4> QED BY <3>1, <4>1
    <3>3. K[f] = "page" => kd[up[f]] = "table" /\ up[f] # p
      BY <3>1 DEF Good, Named
    <3> QED BY <1>10, <1>13, <3>1, <3>2, <3>3 DEF Good, Named
  <2> QED BY <2>1, <2>2
<1>18. Upper(n, K)
  <2> SUFFICES ASSUME NEW g \in Frame, K[g] = "dir", NEW x \in Ix \ UIx
               PROVE  n.tab[g][x] = IF x = UVPT THEN [pg |-> g, perm |-> {"U"}]
                                    ELSE kernel_entries[x]
    BY DEF Upper
  <2>1. kd[g] = "dir" /\ n.tab[g][x] = m.tab[g][x]
    BY <1>2, <1>10, <1>11
  <2> QED BY <2>1 DEF Good, Upper
<1>19. Counted(n, K)
  BY <1>9, <1>10 DEF Good, Counted
<1>20. IsFreeList(n, FreeSet(K))
  <2>1. FreeSet(K) = FreeSet(kd)
    BY <1>10 DEF FreeSet
  <2> QED BY <1>9, <2>1, FreeListSame DEF Good
<1>21. Cached(n, K)
  <2>1. Keeps(m, n, kd, up, at)
    BY <1>13 DEF Keeps
  <2>2. m.cr3 \in Frame
    BY <1>1 DEF Mem
  <2> QED BY <1>9, <1>10, <2>1, <2>2, TlbKeeps DEF Good, Cached
<1> QED
  BY <1>9, <1>14, <1>15, <1>16, <1>17, <1>18, <1>19, <1>20, <1>21 DEF Good, n, K, U, A

\* page_remove unmaps a page of a directory: it is free then.
LEMMA RemoveGood ==
  ASSUME NEW m, NEW kd, NEW up, NEW at, NEW d, NEW i, InDir(m, kd, up, at, d, i),
         NEW t, HasTable(m, d, i, t), NEW j \in Ix, m.tab[t][j] # Null
  PROVE  LET p == m.tab[t][j].pg
             n == remove_at(m, d, i, j)
         IN  /\ p \in Frame /\ kd[p] = "page"
             /\ Good(n, Put(kd, p, "free"), up, at)
             /\ n.cr3 = m.cr3 /\ n.tab[t][j] = Null /\ n.tab[d] = m.tab[d]
             /\ \A x \in Ix : x # j => n.tab[t][x] = m.tab[t][x]
             /\ \A f \in Frame : f # t => n.tab[f] = m.tab[f]
             /\ \A f \in Frame \ {p} : n.pp_ref[f] = m.pp_ref[f]
<1> USE DEF InDir, HasTable, Put, Addr, remove_at
<1> DEFINE n == remove_at(m, d, i, j)
           K == Put(kd, m.tab[t][j].pg, "free")
<1>1. /\ m \in Mem /\ m.tab \in [Frame -> Table] /\ kd \in [Frame -> Kind]
      /\ m.pp_ref \in [Frame -> 0 .. RefMod - 1] /\ m.tab[t] \in Table
      /\ m.pp_link \in [Frame -> Frame \cup {Null}] /\ i \in Ix
      /\ m.tlb \in [Va -> Entry \cup {Null}] /\ <<i, j>> \in Va
  BY DEF Good, WellTyped, Mem, UIx, Va
<1>2. kd[t] = "table" /\ up[t] = d /\ at[t] = i
  BY DEF Good, DirNames
<1>3. PICK p \in Frame : p = m.tab[t][j].pg /\ kd[p] = "page" /\ up[p] = t /\ at[p] = j
  BY <1>1, <1>2, EntryFrames DEF Good, TableNames
<1>4. m.pp_ref[p] = 1
  BY <1>3 DEF Good, Counted
<1>5. page_lookup(m, d, <<i, j>>) = p
  <2>1. pgdir_walk(m, d, <<i, j>>, FALSE).pt = t
    BY DEF pgdir_walk
  <2>2. t # Null /\ p # Null
    BY <1>3, PmapAssumption
  <2> QED BY <1>3, <2>1, <2>2 DEF page_lookup
<1>6. PICK c : c = page_decref(m, p)
  OBVIOUS
<1>7. /\ c \in Mem /\ c.pp_ref = [m.pp_ref EXCEPT ![p] = 0]
      /\ c.page_free_list = p /\ c.pp_link = [m.pp_link EXCEPT ![p] = m.page_free_list]
      /\ c.tab = m.tab /\ c.cr3 = m.cr3 /\ c.tlb = m.tlb
  BY <1>1, <1>4, <1>6, Decrement
<1>8. PICK T \in Table : T = [m.tab[t] EXCEPT ![j] = Null]
  BY <1>1 DEF Table
<1>9. T[j] = Null /\ \A x \in Ix : x # j => T[x] = m.tab[t][x]
  BY <1>1, <1>8 DEF Table
<1>10. n = [[c EXCEPT !.tab[t] = T] EXCEPT !.tlb[<<i, j>>] = Null]
  <2>1. p # Null
    BY PmapAssumption
  <2>2. n = tlb_invalidate([c EXCEPT !.tab[t][j] = Null], <<i, j>>)
    BY <1>5, <1>6, <2>1 DEF page_remove
  <2>3. [c EXCEPT !.tab[t][j] = Null] = [c EXCEPT !.tab[t] = T]
    BY <1>1, <1>7, <1>8 DEF Mem
  <2> QED BY <2>2, <2>3 DEF tlb_invalidate
<1>11. /\ n.pp_ref = c.pp_ref /\ n.pp_link = c.pp_link /\ n.page_free_list = c.page_free_list
       /\ n.cr3 = m.cr3 /\ n.tlb = [m.tlb EXCEPT ![<<i, j>>] = Null]
       /\ n.tab = [m.tab EXCEPT ![t] = T] /\ n \in Mem
  <2>1. PICK b : b = [c EXCEPT !.tab[t] = T]
    OBVIOUS
  <2>2. /\ b.pp_ref = c.pp_ref /\ b.pp_link = c.pp_link /\ b.page_free_list = c.page_free_list
        /\ b.cr3 = m.cr3 /\ b.tlb = m.tlb /\ b.tab = [m.tab EXCEPT ![t] = T] /\ b \in Mem
    BY <1>1, <1>7, <2>1 DEF Mem
  <2>3. n = [b EXCEPT !.tlb[<<i, j>>] = Null]
    BY <1>10, <2>1
  <2>4. [m.tlb EXCEPT ![<<i, j>>] = Null] \in [Va -> Entry \cup {Null}]
    BY <1>1
  <2> QED BY <1>1, <2>2, <2>3, <2>4 DEF Mem
<1> HIDE DEF n
<1>12. K[p] = "free" /\ (\A f \in Frame : f # p => K[f] = kd[f]) /\ K \in [Frame -> Kind]
  BY <1>1, <1>3 DEF Kind
<1>13. K = Put(kd, p, "free")
  BY <1>3
<1> HIDE DEF K
<1>14. n.tab[t] = T /\ \A f \in Frame : f # t => n.tab[f] = m.tab[f]
  BY <1>1, <1>11
<1>15. n.pp_ref[p] = 0 /\ \A f \in Frame : f # p => n.pp_ref[f] = m.pp_ref[f]
  BY <1>1, <1>7, <1>11
<1>16. /\ kern_pgdir \in Frame /\ KTables \subseteq Frame /\ p # kern_pgdir /\ p \notin KTables
       /\ t # kern_pgdir /\ t \notin KTables /\ t # p /\ UIx \subseteq Ix
  BY <1>2, <1>3, KernelFrames DEF Good, KernelKept
<1>17. \A f \in Frame, x \in Ix : n.tab[f][x] # m.tab[f][x] => f = t /\ x = j
  BY <1>9, <1>14
<1>18. WellTyped(n, K, up, at) /\ KernelKept(n, K)
  <2>1. WellTyped(n, K, up, at)
    BY <1>11, <1>12 DEF Good, WellTyped
  <2>2. \A f \in Frame : K[f] = "kernel" <=> f \in Root \cup KTables
    BY <1>3, <1>12 DEF Good, KernelKept
  <2>3. n.tab[kern_pgdir] = kernel_entries
    BY <1>14, <1>16 DEF Good, KernelKept
  <2>4. \A g \in KTables : n.tab[g] = KernMap[g] /\ n.pp_ref[g] = 1
    BY <1>14, <1>15, <1>16 DEF Good, KernelKept
  <2> QED BY <2>1, <2>2, <2>3, <2>4 DEF KernelKept
<1>19. DirNames(n, K, up, at)
  <2> SUFFICES ASSUME NEW g \in Frame, NEW x \in UIx, K[g] = "dir", n.tab[g][x] # Null
               PROVE  LET q == n.tab[g][x].pg
                      IN  /\ K[q] = "table" /\ up[q] = g /\ at[q] = x
                          /\ n.tab[g][x].perm = Perm
    BY DEF DirNames
  <2>1. n.tab[g] = m.tab[g] /\ kd[g] = "dir" /\ x \in Ix
    BY <1>2, <1>12, <1>14, <1>16
  <2>2. PICK q \in Frame : q = m.tab[g][x].pg
    BY <1>1, <2>1, EntryFrames
  <2>3. kd[q] = "table" /\ up[q] = g /\ at[q] = x /\ m.tab[g][x].perm = Perm
    BY <2>1, <2>2 DEF Good, DirNames
  <2> QED BY <1>3, <1>12, <2>1, <2>2, <2>3
<1>20. TableNames(n, K, up, at)
  <2> SUFFICES ASSUME NEW g \in Frame, NEW x \in Ix, K[g] = "table", n.tab[g][x] # Null
               PROVE  LET q == n.tab[g][x].pg
                      IN  K[q] = "page" /\ up[q] = g /\ at[q] = x
    BY DEF TableNames
  <2>1. kd[g] = "table"
    BY <1>12
  <2>2. g # t \/ x # j
    BY <1>9, <1>14
  <2>3. n.tab[g][x] = m.tab[g][x]
    BY <1>17, <2>2
  <2>4. PICK q \in Frame : q = m.tab[g][x].pg
    BY <1>1, <2>3, EntryFrames
  <2>5. kd[q] = "page" /\ up[q] = g /\ at[q] = x
    BY <2>1, <2>3, <2>4 DEF Good, TableNames
  <2>6. q # p
    BY <1>3, <2>2, <2>5
  <2> QED BY <1>12, <2>3, <2>4, <2>5, <2>6
<1>21. Named(n, K, up, at)
  <2> SUFFICES ASSUME NEW f \in Frame
               PROVE  /\ K[f] = "table" => /\ K[up[f]] = "dir" /\ at[f] \in UIx
                                            /\ n.tab[up[f]][at[f]] # Null /\ n.tab[up[f]][at[f]].pg = f
                      /\ K[f] = "page"  => /\ K[up[f]] = "table"
                                            /\ n.tab[up[f]][at[f]] # Null /\ n.tab[up[f]][at[f]].pg = f
    BY DEF Named
  <2>1. up[f] \in Frame /\ at[f] \in Ix
    BY DEF Good, WellTyped
  <2>2. CASE K[f] = "table"
    <3>1. /\ kd[f] = "table" /\ kd[up[f]] = "dir" /\ at[f] \in UIx
          /\ m.tab[up[f]][at[f]] # Null /\ m.tab[up[f]][at[f]].pg = f
      BY <1>12, <2>2 DEF Good, Named
    <3>2. up[f] # t /\ up[f] # p
      BY <1>2, <1>3, <3>1
    <3> QED BY <1>12, <1>17, <2>1, <2>2, <3>1, <3>2
  <2>3. CASE K[f] = "page"
    <3>1. /\ kd[f] = "page" /\ f # p /\ kd[up[f]] = "table"
          /\ m.tab[up[f]][at[f]] # Null /\ m.tab[up[f]][at[f]].pg = f
      BY <1>12, <2>3 DEF Good, Named
    <3>2. up[f] # p /\ ~(up[f] = t /\ at[f] = j)
      BY <1>3, <3>1
    <3> QED BY <1>12, <1>17, <2>1, <2>3, <3>1, <3>2
  <2> QED BY <2>2, <2>3
<1>22. Upper(n, K)
  <2> SUFFICES ASSUME NEW g \in Frame, K[g] = "dir", NEW x \in Ix \ UIx
               PROVE  n.tab[g][x] = IF x = UVPT THEN [pg |-> g, perm |-> {"U"}]
                                    ELSE kernel_entries[x]
    BY DEF Upper
  <2>1. kd[g] = "dir" /\ n.tab[g][x] = m.tab[g][x]
    BY <1>2, <1>12, <1>14
  <2> QED BY <2>1 DEF Good, Upper
<1>23. Counted(n, K)
  BY <1>12, <1>15 DEF Good, Counted
<1>24. IsFreeList(n, FreeSet(K))
  <2>1. FreeSet(K) = FreeSet(kd) \cup {p} /\ p \notin FreeSet(kd)
    BY <1>3, <1>12 DEF FreeSet
  <2>2. FreeSet(kd) \in SUBSET Frame /\ p \in Frame \ FreeSet(kd)
    BY <2>1 DEF FreeSet
  <2>3. n.page_free_list = p /\ n.pp_link = [m.pp_link EXCEPT ![p] = m.page_free_list]
    BY <1>7, <1>11
  <2> QED BY <1>1, <2>1, <2>2, <2>3, FreeListPush DEF Good
<1>25. Cached(n, K)
  <2>1. Keeps(m, n, kd, up, at)
    <3>1. n.tlb[<<i, j>>] = Null
      BY <1>1, <1>11
    <3>2. t # m.cr3 /\ kd[t] # "kernel"
      BY <1>2, <1>16 DEF Good, Cached
    <3> QED BY <1>2, <1>17, <3>1, <3>2 DEF Keeps
  <2>2. m.cr3 \in Frame
    BY <1>1 DEF Mem
  <2>3. \A v \in Va : n.tlb[v] = Null \/ n.tlb[v] = m.tlb[v]
    BY <1>1, <1>11
  <2>4. kd[m.cr3] = "dir" => m.cr3 # p
    BY <1>3
  <2>5. n.cr3 = m.cr3 /\ (n.cr3 = kern_pgdir \/ K[n.cr3] = "dir")
    BY <1>11, <1>12, <2>2, <2>4 DEF Good, Cached
  <2>6. \A va \in Va : n.tlb[va] = Null \/ n.tlb[va] = translate(n, n.cr3, va)
    BY <2>1, <2>3, <2>5, TlbKeeps
  <2> QED BY <2>5, <2>6 DEF Cached
<1>26. /\ n.tab[t][j] = Null /\ n.tab[d] = m.tab[d]
       /\ \A x \in Ix : x # j => n.tab[t][x] = m.tab[t][x]
       /\ \A f \in Frame : f # t => n.tab[f] = m.tab[f]
  BY <1>2, <1>9, <1>14
<1> QED
  BY <1>3, <1>11, <1>15, <1>26, <1>18, <1>19, <1>20, <1>21, <1>22, <1>23, <1>24, <1>25
     DEF Good, n, K

\* The memory after env_free has taken the table t out of the directory d.
Dropped(m, d, i, t) == page_decref([m EXCEPT !.tab[d][i] = Null], t)

\* env_free takes an empty page table out of a directory that the processor is
\* not on: the table is free then.
LEMMA DropTableGood ==
  ASSUME NEW m, NEW kd, NEW up, NEW at, NEW d, NEW i, InDir(m, kd, up, at, d, i),
         d # m.cr3, NEW t, HasTable(m, d, i, t), \A j \in Ix : m.tab[t][j] = Null
  PROVE  LET n == Dropped(m, d, i, t)
         IN  /\ kd[t] = "table"
             /\ Good(n, Put(kd, t, "free"), up, at)
             /\ n.cr3 = m.cr3 /\ n.tab[d][i] = Null
             /\ \A x \in Ix : x # i => n.tab[d][x] = m.tab[d][x]
             /\ \A f \in Frame : f # d => n.tab[f] = m.tab[f]
             /\ \A f \in Frame \ {t} : n.pp_ref[f] = m.pp_ref[f]
<1> USE DEF InDir, HasTable, Put, Dropped
<1> DEFINE n == page_decref([m EXCEPT !.tab[d][i] = Null], t)
           K == Put(kd, t, "free")
<1>1. /\ m \in Mem /\ m.tab \in [Frame -> Table] /\ kd \in [Frame -> Kind]
      /\ m.pp_ref \in [Frame -> 0 .. RefMod - 1] /\ m.tab[d] \in Table
      /\ m.pp_link \in [Frame -> Frame \cup {Null}] /\ i \in Ix
  BY DEF Good, WellTyped, Mem, UIx
<1>2. kd[t] = "table" /\ up[t] = d /\ at[t] = i
  BY DEF Good, DirNames
<1>3. m.pp_ref[t] = 1
  BY <1>2 DEF Good, Counted
<1>4. PICK T \in Table : T = [m.tab[d] EXCEPT ![i] = Null]
  BY <1>1 DEF Table
<1>5. T[i] = Null /\ \A x \in Ix : x # i => T[x] = m.tab[d][x]
  BY <1>1, <1>4 DEF Table
<1>6. PICK c : c = [m EXCEPT !.tab[d][i] = Null]
  OBVIOUS
<1>7. c = [m EXCEPT !.tab[d] = T]
  BY <1>1, <1>4, <1>6 DEF Mem
<1>8. /\ c \in Mem /\ c.pp_ref = m.pp_ref /\ c.pp_link = m.pp_link
      /\ c.page_free_list = m.page_free_list /\ c.tab = [m.tab EXCEPT ![d] = T]
      /\ c.cr3 = m.cr3 /\ c.tlb = m.tlb
  BY <1>1, <1>7 DEF Mem
<1>9. n = page_decref(c, t)
  BY <1>6
<1> HIDE DEF n
<1>10. /\ n \in Mem /\ n.pp_ref = [m.pp_ref EXCEPT ![t] = 0]
       /\ n.page_free_list = t /\ n.pp_link = [m.pp_link EXCEPT ![t] = m.page_free_list]
       /\ n.tab = [m.tab EXCEPT ![d] = T] /\ n.cr3 = m.cr3 /\ n.tlb = m.tlb
  <2>1. c.pp_ref[t] = 1 /\ c.pp_ref[t] > 0 /\ c.pp_ref[t] - 1 = 0
    BY <1>3, <1>8
  <2>2. /\ n \in Mem /\ n.pp_ref = [c.pp_ref EXCEPT ![t] = c.pp_ref[t] - 1]
        /\ n.tab = c.tab /\ n.cr3 = c.cr3 /\ n.tlb = c.tlb
        /\ n.page_free_list = t /\ n.pp_link = [c.pp_link EXCEPT ![t] = c.page_free_list]
    BY <1>8, <1>9, <2>1, Decrement
  <2> QED BY <1>8, <2>1, <2>2
<1>11. K[t] = "free" /\ (\A f \in Frame : f # t => K[f] = kd[f]) /\ K \in [Frame -> Kind]
  BY <1>1 DEF Kind
<1> HIDE DEF K
<1>12. n.tab[d] = T /\ \A f \in Frame : f # d => n.tab[f] = m.tab[f]
  BY <1>1, <1>10
<1>13. n.pp_ref[t] = 0 /\ \A f \in Frame : f # t => n.pp_ref[f] = m.pp_ref[f]
  BY <1>1, <1>10
<1>14. /\ kern_pgdir \in Frame /\ KTables \subseteq Frame /\ t # kern_pgdir /\ t \notin KTables
       /\ d # kern_pgdir /\ d \notin KTables /\ t # d /\ UIx \subseteq Ix
  BY <1>2, KernelFrames DEF Good, KernelKept
<1>15. \A f \in Frame, x \in Ix : n.tab[f][x] # m.tab[f][x] => f = d /\ x = i
  BY <1>5, <1>12
<1>16. WellTyped(n, K, up, at) /\ KernelKept(n, K)
  <2>1. WellTyped(n, K, up, at)
    BY <1>10, <1>11 DEF Good, WellTyped
  <2>2. \A f \in Frame : K[f] = "kernel" <=> f \in Root \cup KTables
    BY <1>2, <1>11 DEF Good, KernelKept
  <2>3. n.tab[kern_pgdir] = kernel_entries
    BY <1>12, <1>14 DEF Good, KernelKept
  <2>4. \A g \in KTables : n.tab[g] = KernMap[g] /\ n.pp_ref[g] = 1
    BY <1>12, <1>13, <1>14 DEF Good, KernelKept
  <2> QED BY <2>1, <2>2, <2>3, <2>4 DEF KernelKept
<1>17. DirNames(n, K, up, at)
  <2> SUFFICES ASSUME NEW g \in Frame, NEW x \in UIx, K[g] = "dir", n.tab[g][x] # Null
               PROVE  LET q == n.tab[g][x].pg
                      IN  /\ K[q] = "table" /\ up[q] = g /\ at[q] = x
                          /\ n.tab[g][x].perm = Perm
    BY DEF DirNames
  <2>1. kd[g] = "dir" /\ x \in Ix
    BY <1>11, <1>14
  <2>2. (g # d \/ x # i) /\ n.tab[g][x] = m.tab[g][x]
    BY <1>5, <1>12, <1>15, <2>1
  <2>3. PICK q \in Frame : q = m.tab[g][x].pg
    BY <1>1, <2>1, <2>2, EntryFrames
  <2>4. kd[q] = "table" /\ up[q] = g /\ at[q] = x /\ m.tab[g][x].perm = Perm
    BY <2>1, <2>2, <2>3 DEF Good, DirNames
  <2>5. q # t
    BY <1>2, <2>2, <2>4
  <2> QED BY <1>11, <2>2, <2>3, <2>4, <2>5
<1>18. TableNames(n, K, up, at)
  <2> SUFFICES ASSUME NEW g \in Frame, NEW x \in Ix, K[g] = "table", n.tab[g][x] # Null
               PROVE  LET q == n.tab[g][x].pg
                      IN  K[q] = "page" /\ up[q] = g /\ at[q] = x
    BY DEF TableNames
  <2>1. kd[g] = "table" /\ g # d /\ n.tab[g] = m.tab[g]
    BY <1>11, <1>12
  <2>2. PICK q \in Frame : q = m.tab[g][x].pg
    BY <1>1, <2>1, EntryFrames
  <2>3. kd[q] = "page" /\ up[q] = g /\ at[q] = x
    BY <2>1, <2>2 DEF Good, TableNames
  <2> QED BY <1>2, <1>11, <2>1, <2>2, <2>3
<1>19. Named(n, K, up, at)
  <2> SUFFICES ASSUME NEW f \in Frame
               PROVE  /\ K[f] = "table" => /\ K[up[f]] = "dir" /\ at[f] \in UIx
                                            /\ n.tab[up[f]][at[f]] # Null /\ n.tab[up[f]][at[f]].pg = f
                      /\ K[f] = "page"  => /\ K[up[f]] = "table"
                                            /\ n.tab[up[f]][at[f]] # Null /\ n.tab[up[f]][at[f]].pg = f
    BY DEF Named
  <2>1. up[f] \in Frame /\ at[f] \in Ix
    BY DEF Good, WellTyped
  <2>2. CASE K[f] = "table"
    <3>1. /\ kd[f] = "table" /\ f # t /\ kd[up[f]] = "dir" /\ at[f] \in UIx
          /\ m.tab[up[f]][at[f]] # Null /\ m.tab[up[f]][at[f]].pg = f
      BY <1>11, <2>2 DEF Good, Named
    <3>2. up[f] # t /\ ~(up[f] = d /\ at[f] = i)
      BY <1>2, <3>1
    <3> QED BY <1>11, <1>15, <2>1, <2>2, <3>1, <3>2
  <2>3. CASE K[f] = "page"
    <3>1. /\ kd[f] = "page" /\ kd[up[f]] = "table"
          /\ m.tab[up[f]][at[f]] # Null /\ m.tab[up[f]][at[f]].pg = f
      BY <1>11, <2>3 DEF Good, Named
    <3>2. up[f] # t /\ up[f] # d
      BY <2>1, <3>1
    <3> QED BY <1>11, <1>15, <2>1, <2>3, <3>1, <3>2
  <2> QED BY <2>2, <2>3
<1>20. Upper(n, K)
  <2> SUFFICES ASSUME NEW g \in Frame, K[g] = "dir", NEW x \in Ix \ UIx
               PROVE  n.tab[g][x] = IF x = UVPT THEN [pg |-> g, perm |-> {"U"}]
                                    ELSE kernel_entries[x]
    BY DEF Upper
  <2>1. kd[g] = "dir" /\ n.tab[g][x] = m.tab[g][x]
    BY <1>11, <1>15
  <2> QED BY <2>1 DEF Good, Upper
<1>21. Counted(n, K)
  BY <1>11, <1>13 DEF Good, Counted
<1>22. IsFreeList(n, FreeSet(K))
  <2>1. FreeSet(K) = FreeSet(kd) \cup {t} /\ t \notin FreeSet(kd)
    BY <1>2, <1>11 DEF FreeSet
  <2>2. FreeSet(kd) \in SUBSET Frame /\ t \in Frame \ FreeSet(kd)
    BY <2>1 DEF FreeSet
  <2>3. n.page_free_list = t /\ n.pp_link = [m.pp_link EXCEPT ![t] = m.page_free_list]
    BY <1>10
  <2> QED BY <1>1, <2>1, <2>2, <2>3, FreeListPush DEF Good
<1>23. Cached(n, K)
  <2>1. Keeps(m, n, kd, up, at)
    BY <1>15 DEF Keeps, Good, KernelKept
  <2>2. m.cr3 \in Frame /\ (kd[m.cr3] = "dir" => m.cr3 # t)
    BY <1>1, <1>2 DEF Mem
  <2>3. n.cr3 = m.cr3 /\ (n.cr3 = kern_pgdir \/ K[n.cr3] = "dir")
    BY <1>10, <1>11, <2>2 DEF Good, Cached
  <2>4. \A v \in Va : n.tlb[v] = Null \/ n.tlb[v] = m.tlb[v]
    BY <1>10
  <2>5. \A va \in Va : n.tlb[va] = Null \/ n.tlb[va] = translate(n, n.cr3, va)
    BY <2>1, <2>3, <2>4, TlbKeeps
  <2> QED BY <2>3, <2>5 DEF Cached
<1>24. /\ n.tab[d][i] = Null /\ n.cr3 = m.cr3
       /\ \A x \in Ix : x # i => n.tab[d][x] = m.tab[d][x]
       /\ \A f \in Frame : f # d => n.tab[f] = m.tab[f]
  BY <1>5, <1>10, <1>12
<1> QED
  BY <1>2, <1>13, <1>16, <1>17, <1>18, <1>19, <1>20, <1>21, <1>22, <1>23, <1>24
     DEF Good, n, K

\* A directory that the processor is not on and that has nothing below UTOP any
\* more is freed.
LEMMA DropDirGood ==
  ASSUME NEW m, NEW kd, NEW up, NEW at, Good(m, kd, up, at),
         NEW d \in Frame, kd[d] = "dir", d # m.cr3, \A i \in UIx : m.tab[d][i] = Null
  PROVE  LET n == page_decref(m, d)
         IN  /\ Good(n, Put(kd, d, "free"), up, at)
             /\ n.cr3 = m.cr3
             /\ \A f \in Frame \ {d} : n.pp_ref[f] = m.pp_ref[f]
<1> USE DEF Put
<1> DEFINE n == page_decref(m, d)
           K == Put(kd, d, "free")
<1>1. /\ m \in Mem /\ m.tab \in [Frame -> Table] /\ kd \in [Frame -> Kind]
      /\ m.pp_ref \in [Frame -> 0 .. RefMod - 1] /\ m.pp_ref[d] = 1
      /\ m.pp_link \in [Frame -> Frame \cup {Null}]
  BY DEF Good, WellTyped, Mem, Counted
<1>2. /\ n \in Mem /\ n.pp_ref = [m.pp_ref EXCEPT ![d] = 0]
      /\ n.page_free_list = d /\ n.pp_link = [m.pp_link EXCEPT ![d] = m.page_free_list]
      /\ n.tab = m.tab /\ n.cr3 = m.cr3 /\ n.tlb = m.tlb
  BY <1>1, Decrement
<1> HIDE DEF n
<1>3. K[d] = "free" /\ (\A f \in Frame : f # d => K[f] = kd[f]) /\ K \in [Frame -> Kind]
  BY <1>1 DEF Kind
<1> HIDE DEF K
<1>4. n.pp_ref[d] = 0 /\ \A f \in Frame : f # d => n.pp_ref[f] = m.pp_ref[f]
  BY <1>1, <1>2
<1>5. kern_pgdir \in Frame /\ KTables \subseteq Frame /\ d \notin KTables /\ UIx \subseteq Ix
  BY KernelFrames DEF Good, KernelKept
<1>6. WellTyped(n, K, up, at) /\ KernelKept(n, K)
  <2>1. WellTyped(n, K, up, at)
    BY <1>2, <1>3 DEF Good, WellTyped
  <2> QED BY <1>2, <1>3, <1>4, <1>5, <2>1 DEF Good, KernelKept
<1>7. DirNames(n, K, up, at)
  <2> SUFFICES ASSUME NEW g \in Frame, NEW x \in UIx, K[g] = "dir", n.tab[g][x] # Null
               PROVE  LET q == n.tab[g][x].pg
                      IN  /\ K[q] = "table" /\ up[q] = g /\ at[q] = x
                          /\ n.tab[g][x].perm = Perm
    BY DEF DirNames
  <2>1. kd[g] = "dir" /\ x \in Ix /\ n.tab[g][x] = m.tab[g][x]
    BY <1>2, <1>3, <1>5
  <2>2. PICK q \in Frame : q = m.tab[g][x].pg
    BY <1>1, <2>1, EntryFrames
  <2>3. kd[q] = "table" /\ up[q] = g /\ at[q] = x /\ m.tab[g][x].perm = Perm
    BY <2>1, <2>2 DEF Good, DirNames
  <2> QED BY <1>3, <2>1, <2>2, <2>3
<1>8. TableNames(n, K, up, at)
  <2> SUFFICES ASSUME NEW g \in Frame, NEW x \in Ix, K[g] = "table", n.tab[g][x] # Null
               PROVE  LET q == n.tab[g][x].pg
                      IN  K[q] = "page" /\ up[q] = g /\ at[q] = x
    BY DEF TableNames
  <2>1. kd[g] = "table" /\ n.tab[g] = m.tab[g]
    BY <1>2, <1>3
  <2>2. PICK q \in Frame : q = m.tab[g][x].pg
    BY <1>1, <2>1, EntryFrames
  <2>3. kd[q] = "page" /\ up[q] = g /\ at[q] = x
    BY <2>1, <2>2 DEF Good, TableNames
  <2> QED BY <1>3, <2>1, <2>2, <2>3
<1>9. Named(n, K, up, at)
  <2> SUFFICES ASSUME NEW f \in Frame
               PROVE  /\ K[f] = "table" => /\ K[up[f]] = "dir" /\ at[f] \in UIx
                                            /\ n.tab[up[f]][at[f]] # Null /\ n.tab[up[f]][at[f]].pg = f
                      /\ K[f] = "page"  => /\ K[up[f]] = "table"
                                            /\ n.tab[up[f]][at[f]] # Null /\ n.tab[up[f]][at[f]].pg = f
    BY DEF Named
  <2>1. up[f] \in Frame /\ K[f] \in {"table", "page"} => kd[f] = K[f]
    BY <1>3 DEF Good, WellTyped
  <2>2. kd[f] = "table" => up[f] # d
    BY DEF Good, Named
  <2>3. kd[f] = "page" => up[f] # d
    BY DEF Good, Named
  <2>4. up[f] \in Frame
    BY DEF Good, WellTyped
  <2> QED BY <1>2, <1>3, <2>1, <2>2, <2>3, <2>4 DEF Good, Named
<1>10. Upper(n, K) /\ Counted(n, K)
  BY <1>2, <1>3, <1>4 DEF Good, Upper, Counted
<1>11. IsFreeList(n, FreeSet(K))
  <2>1. FreeSet(K) = FreeSet(kd) \cup {d} /\ d \notin FreeSet(kd)
    BY <1>3 DEF FreeSet
  <2>2. FreeSet(kd) \in SUBSET Frame /\ d \in Frame \ FreeSet(kd)
    BY <2>1 DEF FreeSet
  <2> QED BY <1>1, <1>2, <2>1, <2>2, FreeListPush DEF Good
<1>12. Cached(n, K)
  <2>1. m.cr3 \in Frame
    BY <1>1 DEF Mem
  <2>2. n.cr3 = kern_pgdir \/ K[n.cr3] = "dir"
    BY <1>2, <1>3, <2>1 DEF Good, Cached
  <2>3. \A v \in Va : translate(n, n.cr3, v) = translate(m, m.cr3, v)
    BY <1>2 DEF translate
  <2> QED BY <1>2, <2>2, <2>3 DEF Good, Cached
<1> QED
  BY <1>2, <1>4, <1>6, <1>7, <1>8, <1>9, <1>10, <1>11, <1>12 DEF Good, n, K

\* pgdir_walk below UTOP finds the table, makes it, or fails and changes nothing.
LEMMA WalkGood ==
  ASSUME NEW m, NEW kd, NEW up, NEW at, NEW d, NEW i, InDir(m, kd, up, at, d, i),
         NEW j \in Ix, NEW w, w = walk_at(m, d, i, j), w.pt # Null
  PROVE  /\ HasTable(w.mem, d, i, w.pt) /\ w.mem.cr3 = m.cr3
         /\ \E K, U, A : /\ Good(w.mem, K, U, A)
                         /\ DirSet(K) = DirSet(kd) /\ LostSet(K) = LostSet(kd)
                         /\ \A f \in LostSet(kd) : w.mem.pp_ref[f] = m.pp_ref[f]
<1> DEFINE a == page_alloc(m, TRUE)
<1>1. /\ m \in Mem /\ m.tab \in [Frame -> Table] /\ i \in Ix /\ kd \in [Frame -> Kind]
      /\ Good(m, kd, up, at) /\ d \in Frame /\ kd[d] = "dir" /\ i \in UIx
  BY DEF InDir, Good, WellTyped, Mem, UIx
<1>2. CASE m.tab[d][i] # Null
  <2>1. w.pt = m.tab[d][i].pg /\ w.mem = m
    BY <1>2 DEF walk_at, Addr, pgdir_walk
  <2>2. HasTable(w.mem, d, i, w.pt) /\ w.mem.cr3 = m.cr3
    BY <1>1, <1>2, <2>1, EntryFrames DEF HasTable
  <2>3. Good(w.mem, kd, up, at) /\ \A f \in LostSet(kd) : w.mem.pp_ref[f] = m.pp_ref[f]
    BY <1>1, <2>1, Zenon
  <2> QED BY <2>2, <2>3
<1>3. CASE m.tab[d][i] = Null /\ m.page_free_list = Null
  <2>1. a.pg = Null
    BY <1>3 DEF page_alloc
  <2> QED BY <1>3, <2>1 DEF walk_at, Addr, pgdir_walk
<1>4. CASE m.tab[d][i] = Null /\ m.page_free_list # Null
  <2>1. PICK p \in Frame : p = m.page_free_list /\ kd[p] = "free" /\ a.pg = p
    BY <1>1, <1>4, AllocGood
  <2>2. PICK n, K : n = a.mem /\ K = Put(kd, p, "lost")
    OBVIOUS
  <2>3. /\ Good(n, K, up, at) /\ n.pp_ref[p] = 0 /\ n.cr3 = m.cr3
        /\ n.tab = [m.tab EXCEPT ![p] = Blank]
        /\ n.pp_ref = m.pp_ref
    <3>1. /\ Good(n, K, up, at) /\ n.pp_ref[p] = 0 /\ n.cr3 = m.cr3
          /\ n.tab = [m.tab EXCEPT ![p] = IF TRUE THEN Blank ELSE m.tab[p]]
      BY ZenonT(30), <1>1, <1>4, <2>1, <2>2, AllocGood
    <3>2. p # Null
      BY PmapAssumption
    <3>3. n.pp_ref = m.pp_ref
      BY <1>1, <2>1, <2>2, <3>2 DEF page_alloc, Mem
    <3> QED BY <3>1, <3>3
  <2>4. w.pt = p /\ w.mem = enter_table(n, d, i, p)
    <3>1. p # Null
      BY PmapAssumption
    <3> QED BY <1>4, <2>1, <2>2, <3>1 DEF walk_at, Addr, pgdir_walk
  <2>5. d # p /\ K[d] = "dir" /\ K[p] = "lost" /\ n.tab[p] = Blank /\ n.tab[d][i] = Null
    BY <1>1, <1>4, <2>1, <2>2, <2>3 DEF Put
  <2>6. PICK K2, U2, A2 : /\ K2 = Put(K, p, "table")
                          /\ U2 = Put(up, p, d) /\ A2 = Put(at, p, i)
    OBVIOUS
  <2>7. PICK n2 : n2 = enter_table(n, d, i, p)
    OBVIOUS
  <2>8. /\ Good(n2, K2, U2, A2) /\ n2.cr3 = n.cr3 /\ HasTable(n2, d, i, p)
        /\ \A f \in Frame \ {p} : n2.pp_ref[f] = n.pp_ref[f]
    <3>1. InDir(n, K, up, at, d, i) /\ Unused(n, K, p, 0)
      BY <1>1, <2>3, <2>5 DEF InDir, Unused
    <3> QED BY <2>5, <2>6, <2>7, <3>1, EnterGood
  <2>9. DirSet(K2) = DirSet(kd) /\ LostSet(K2) = LostSet(kd)
    BY <1>1, <2>1, <2>2, <2>6 DEF DirSet, LostSet, Put
  <2>10. \A f \in LostSet(kd) : n2.pp_ref[f] = m.pp_ref[f]
    BY <2>1, <2>3, <2>8 DEF LostSet
  <2>11. w.pt = p /\ w.mem = n2
    BY <2>4, <2>7
  <2>12. HasTable(w.mem, d, i, w.pt) /\ w.mem.cr3 = m.cr3
    BY <2>3, <2>8, <2>11
  <2>13. /\ Good(w.mem, K2, U2, A2)
         /\ \A f \in LostSet(kd) : w.mem.pp_ref[f] = m.pp_ref[f]
    BY <2>8, <2>10, <2>11, Zenon
  <2> QED BY <2>9, <2>12, <2>13
<1> QED
  BY <1>2, <1>3, <1>4

\* What page_insert of p did, for a result r.
Inserted(m, kd, p, r) ==
  \/ r.ok = FALSE /\ r.mem = m
  \/ /\ r.ok = TRUE /\ r.mem.cr3 = m.cr3
     /\ \E K, U, A : /\ Good(r.mem, K, U, A) /\ K[p] = "page"
                     /\ DirSet(K) = DirSet(kd) /\ LostSet(K) = Minus(LostSet(kd), p)

\* page_insert below UTOP maps a page nobody uses, and frees what it replaces; or
\* it fails and changes nothing.
LEMMA InsertGood ==
  ASSUME NEW m, NEW kd, NEW up, NEW at, NEW d, NEW i, InDir(m, kd, up, at, d, i),
         NEW j \in Ix, NEW p, Unused(m, kd, p, 0),
         NEW r, r = insert_at(m, d, p, i, j)
  PROVE  Inserted(m, kd, p, r)
<1> USE DEF Inserted
<1>1. PICK w : w = walk_at(m, d, i, j)
  OBVIOUS
<1>2. CASE w.pt = Null
  BY <1>1, <1>2 DEF walk_at, insert_at, remove_at, Addr, page_insert
<1>3. CASE w.pt # Null
  <2>0. PICK t, n : t = w.pt /\ n = w.mem
    OBVIOUS
  <2>1. /\ HasTable(n, d, i, t) /\ n.cr3 = m.cr3
        /\ \E K, U, A : /\ Good(n, K, U, A)
                        /\ DirSet(K) = DirSet(kd) /\ LostSet(K) = LostSet(kd)
                        /\ \A f \in LostSet(kd) : n.pp_ref[f] = m.pp_ref[f]
    <3>1. /\ HasTable(w.mem, d, i, w.pt) /\ w.mem.cr3 = m.cr3
          /\ \E K, U, A : /\ Good(w.mem, K, U, A)
                          /\ DirSet(K) = DirSet(kd) /\ LostSet(K) = LostSet(kd)
                          /\ \A f \in LostSet(kd) : w.mem.pp_ref[f] = m.pp_ref[f]
      <4>1. HasTable(w.mem, d, i, w.pt)
        BY <1>1, <1>3, WalkGood
      <4>2. w.mem.cr3 = m.cr3
        BY <1>1, <1>3, WalkGood
      <4>3. \E K, U, A : /\ Good(w.mem, K, U, A)
                         /\ DirSet(K) = DirSet(kd) /\ LostSet(K) = LostSet(kd)
                         /\ \A f \in LostSet(kd) : w.mem.pp_ref[f] = m.pp_ref[f]
        BY <1>1, <1>3, WalkGood
      <4> QED BY <4>1, <4>2, <4>3
    <3> QED BY <2>0, <3>1, Zenon
  <2>2. PICK K, U, A : /\ Good(n, K, U, A)
                       /\ DirSet(K) = DirSet(kd) /\ LostSet(K) = LostSet(kd)
                       /\ \A f \in LostSet(kd) : n.pp_ref[f] = m.pp_ref[f]
    BY <2>1
  <2>3. InDir(n, K, U, A, d, i) /\ Unused(n, K, p, 0)
    BY <2>2 DEF InDir, Unused, DirSet, LostSet
  <2>4. PICK c : c = pp_ref_incr(n, p)
    OBVIOUS
  <2>5. Good(c, K, U, A) /\ c.pp_ref[p] = 1 /\ c.cr3 = m.cr3 /\ c.tab = n.tab
    BY <2>1, <2>3, <2>4, CountGood DEF InDir, Unused
  <2>6. InDir(c, K, U, A, d, i) /\ Unused(c, K, p, 1) /\ HasTable(c, d, i, t)
    BY <2>1, <2>3, <2>5 DEF InDir, Unused, HasTable
  <2>7. PICK v : v = IF c.tab[t][j] = Null THEN c ELSE remove_at(c, d, i, j)
    OBVIOUS
  <2>8. PICK Kv : /\ InDir(v, Kv, U, A, d, i) /\ HasTable(v, d, i, t) /\ Unused(v, Kv, p, 1)
                  /\ v.cr3 = m.cr3 /\ v.tab[t][j] = Null
                  /\ DirSet(Kv) = DirSet(K) /\ LostSet(Kv) = LostSet(K)
    <3>1. CASE c.tab[t][j] = Null
      <4>1. v = c
        BY <2>7, <3>1
      <4> QED BY <2>5, <2>6, <3>1, <4>1
    <3>2. CASE c.tab[t][j] # Null
      <4>1. PICK q, Kq : q = c.tab[t][j].pg /\ Kq = Put(K, q, "free")
        OBVIOUS
      <4>2. v = remove_at(c, d, i, j)
        BY <2>7, <3>2
      <4>3. /\ q \in Frame /\ K[q] = "page" /\ Good(v, Kq, U, A)
            /\ v.cr3 = c.cr3 /\ v.tab[t][j] = Null /\ v.tab[d] = c.tab[d]
            /\ \A f \in Frame \ {q} : v.pp_ref[f] = c.pp_ref[f]
        BY <2>6, <3>2, <4>1, <4>2, RemoveGood
      <4>4. K \in [Frame -> Kind]
        BY <2>2 DEF Good, WellTyped
      <4>5. DirSet(Kq) = DirSet(K) /\ LostSet(Kq) = LostSet(K)
        BY <4>1, <4>3, <4>4 DEF DirSet, LostSet, Put, Plus, Minus
      <4>6. /\ p \in Frame /\ K[p] = "lost" /\ c.pp_ref[p] = 1
            /\ d \in Frame /\ K[d] = "dir" /\ i \in UIx
        BY <2>6 DEF InDir, Unused
      <4>7. p # q /\ d # q
        BY <4>3, <4>6
      <4>8. InDir(v, Kq, U, A, d, i) /\ Unused(v, Kq, p, 1)
        BY <4>1, <4>3, <4>4, <4>6, <4>7 DEF InDir, Unused, Put
      <4>9. HasTable(v, d, i, t)
        BY <2>6, <4>3 DEF HasTable
      <4> QED BY <2>5, <4>3, <4>5, <4>8, <4>9
    <3> QED BY <3>1, <3>2
  <2>9. PICK z, Kz, Uz, Az : /\ z = place(v, d, i, t, j, p, Perm)
                             /\ Kz = Put(Kv, p, "page")
                             /\ Uz = Put(U, p, t) /\ Az = Put(A, p, j)
    OBVIOUS
  <2>10. Good(z, Kz, Uz, Az) /\ z.cr3 = m.cr3
    <3>1. Perm \in SUBSET Perm
      OBVIOUS
    <3>2. /\ Good(place(v, d, i, t, j, p, Perm), Put(Kv, p, "page"),
                  Put(U, p, t), Put(A, p, j))
          /\ place(v, d, i, t, j, p, Perm).cr3 = v.cr3
      BY <2>8, <3>1, PlaceGood
    <3> QED BY <2>8, <2>9, <3>2, Zenon
  <2>11. r.ok = TRUE /\ r.mem = z
    BY <1>1, <1>3, <2>0, <2>4, <2>7, <2>9 DEF walk_at, insert_at, remove_at, Addr, page_insert, place
  <2>12. /\ Kz[p] = "page" /\ DirSet(Kz) = DirSet(kd)
         /\ LostSet(Kz) = Minus(LostSet(kd), p)
    <3>1. Kv \in [Frame -> Kind] /\ p \in Frame /\ Kv[p] = "lost"
      BY <2>8 DEF InDir, Good, WellTyped, Unused
    <3>2. DirSet(Kz) = DirSet(Kv) /\ LostSet(Kz) = Minus(LostSet(Kv), p) /\ Kz[p] = "page"
      BY <2>9, <3>1 DEF DirSet, LostSet, Put, Plus, Minus
    <3> QED BY <2>2, <2>8, <3>2
  <2>13. Good(r.mem, Kz, Uz, Az) /\ r.mem.cr3 = m.cr3
    BY <2>10, <2>11, Zenon
  <2> QED BY <2>11, <2>12, <2>13
<1> QED
  BY <1>2, <1>3

\* What an iteration of region_alloc did, for a result r.
Allocated(m, kd, r) ==
  \/ r.panic = TRUE /\ r.mapped = FALSE /\ r.mem = m
  \/ /\ r.panic = FALSE /\ r.mem.cr3 = m.cr3 /\ r.pg \in Frame
     /\ \E K, U, A :
          /\ Good(r.mem, K, U, A) /\ DirSet(K) = DirSet(kd)
          /\ \/ r.mapped = FALSE /\ LostSet(K) = Plus(LostSet(kd), r.pg)
             \/ r.mapped = TRUE /\ LostSet(K) = LostSet(kd) /\ K[r.pg] = "page"

\* region_alloc maps a new page, or finds none, or leaves the one it found in
\* nobody's use.
LEMMA RegionGood ==
  ASSUME NEW m, NEW kd, NEW up, NEW at, NEW d, NEW i, InDir(m, kd, up, at, d, i),
         NEW j \in Ix, NEW r, r = region_alloc(m, d, Addr(i, j))
  PROVE  Allocated(m, kd, r)
<1> USE DEF Allocated
<1> DEFINE a == page_alloc(m, FALSE)
<1>1. /\ Good(m, kd, up, at) /\ d \in Frame /\ kd[d] = "dir" /\ i \in UIx
      /\ kd \in [Frame -> Kind]
  BY DEF InDir, Good, WellTyped
<1>2. CASE m.page_free_list = Null
  <2>1. a.pg = Null
    BY <1>2 DEF page_alloc
  <2> QED BY <2>1 DEF region_alloc
<1>3. CASE m.page_free_list # Null
  <2>1. PICK p \in Frame : p = m.page_free_list /\ kd[p] = "free" /\ a.pg = p
    BY <1>1, <1>3, AllocGood
  <2>2. PICK n, K : n = a.mem /\ K = Put(kd, p, "lost")
    OBVIOUS
  <2>3. Good(n, K, up, at) /\ n.pp_ref[p] = 0 /\ n.cr3 = m.cr3
    BY <1>1, <1>3, <2>1, <2>2, AllocGood
  <2>4. /\ K[p] = "lost" /\ K[d] = "dir" /\ p \notin LostSet(kd)
        /\ DirSet(K) = DirSet(kd) /\ LostSet(K) = Plus(LostSet(kd), p)
    BY <1>1, <2>1, <2>2 DEF DirSet, LostSet, Put, Plus, Minus
  <2>5. InDir(n, K, up, at, d, i) /\ Unused(n, K, p, 0)
    BY <1>1, <2>3, <2>4 DEF InDir, Unused
  <2>6. PICK s : s = insert_at(n, d, p, i, j)
    OBVIOUS
  <2>7. r.panic = FALSE /\ r.mem = s.mem /\ r.pg = p /\ r.mapped = s.ok
    <3>1. p # Null
      BY PmapAssumption
    <3> QED BY <2>1, <2>2, <2>6, <3>1 DEF region_alloc, insert_at
  <2>8. Inserted(n, K, p, s)
    BY <2>5, <2>6, InsertGood
  <2>9. CASE s.ok = FALSE /\ s.mem = n
    <3>1. r.mem = n /\ r.mapped = FALSE
      BY <2>7, <2>9
    <3>2. Good(r.mem, K, up, at)
      BY <2>3, <3>1, Zenon
    <3> QED BY <2>3, <2>4, <2>7, <3>1, <3>2
  <2>10. CASE /\ s.ok = TRUE /\ s.mem.cr3 = n.cr3
              /\ \E K2, U, A : /\ Good(s.mem, K2, U, A) /\ K2[p] = "page"
                               /\ DirSet(K2) = DirSet(K) /\ LostSet(K2) = Minus(LostSet(K), p)
    <3>1. PICK K2, U, A : /\ Good(s.mem, K2, U, A) /\ K2[p] = "page"
                          /\ DirSet(K2) = DirSet(K) /\ LostSet(K2) = Minus(LostSet(K), p)
      BY <2>10
    <3>2. Good(r.mem, K2, U, A) /\ r.mem.cr3 = m.cr3 /\ r.mapped = TRUE /\ K2[r.pg] = "page"
      BY <2>3, <2>7, <2>10, <3>1, Zenon
    <3>3. DirSet(K2) = DirSet(kd) /\ LostSet(K2) = LostSet(kd)
      BY <2>4, <3>1 DEF Plus, Minus
    <3> QED BY <2>7, <3>2, <3>3
  <2> QED BY <2>8, <2>9, <2>10 DEF Inserted
<1> QED
  BY <1>2, <1>3

----------------------------------------------------------------------------
(* What a walk in user mode comes to *)

\* Under a directory in use, an address that a program may write leads through
\* a table of the directory to a page of that table, and one that it may read
\* leads there, to the directory's own tables and itself (at UVPT), or through
\* a table of the kernel's.
LEMMA Reached ==
  ASSUME NEW m, NEW kd, NEW up, NEW at, Good(m, kd, up, at),
         NEW d \in Frame, kd[d] = "dir", NEW i \in Ix, NEW j \in Ix,
         NEW x, x = translate(m, d, Addr(i, j)), x # Null
  PROVE  LET t == m.tab[d][i].pg
         IN  /\ m.tab[d][i] # Null /\ t \in Frame /\ x.pg \in Frame
             /\ \/ /\ i \in UIx /\ kd[t] = "table" /\ up[t] = d
                   /\ m.tab[t][j] # Null /\ m.tab[t][j].pg = x.pg
                   /\ kd[x.pg] = "page" /\ up[x.pg] = t
                \/ /\ "W" \notin x.perm
                   /\ x.pg = d \/ (kd[x.pg] = "table" /\ up[x.pg] = d /\ at[x.pg] \in UIx)
                      \/ x.pg \in KTables
                \/ i \in DOMAIN KernTab /\ x.perm # Perm
<1> DEFINE t == m.tab[d][i].pg
<1>1. m \in Mem /\ m.tab \in [Frame -> Table]
  BY DEF Good, WellTyped, Mem
<1>2. PICK a, b : a = m.tab[d][i] /\ b = m.tab[t][j]
  OBVIOUS
<1>3. a # Null /\ b # Null /\ x = [b EXCEPT !.perm = b.perm \cap a.perm]
  BY <1>2 DEF translate, Addr
<1>4. a \in Entry /\ a.pg = t /\ t \in Frame
  BY <1>1, <1>2, <1>3, EntryFrames
<1>5. b \in Entry /\ b.pg \in Frame
  BY <1>1, <1>2, <1>3, <1>4, EntryFrames
<1>6. x.pg = b.pg /\ x.perm = b.perm \cap a.perm /\ b.perm \subseteq Perm
  BY <1>3, <1>5 DEF Entry
<1>7. /\ m.tab[d][i] # Null /\ t \in Frame /\ m.tab[t][j] # Null
      /\ x.pg \in Frame /\ m.tab[t][j].pg = x.pg
  BY <1>2, <1>3, <1>4, <1>5, <1>6
<1> HIDE DEF t
<1>8. \/ t = d
      \/ kd[t] = "table" /\ up[t] = d /\ at[t] = i /\ i \in UIx
      \/ t \in KTables /\ i \in DOMAIN KernTab
  BY <1>7, Walked DEF t
<1>9. d # kern_pgdir /\ d \notin KTables /\ KTables \subseteq Frame
  BY KernelFrames DEF Good, KernelKept
<1>10. CASE t = d
  <2>1. i \notin UIx
    BY <1>7, <1>10 DEF Good, DirNames, t
  <2>2. a = IF i = UVPT THEN [pg |-> d, perm |-> {"U"}] ELSE kernel_entries[i]
    BY <1>2, <2>1 DEF Good, Upper
  <2>3. i = UVPT
    <3> SUFFICES ASSUME i # UVPT PROVE FALSE
      OBVIOUS
    <3>1. a = kernel_entries[i]
      BY <2>2
    <3>2. a.pg \in KTables
      BY <1>3, <3>1, KernelFrames
    <3> QED BY <1>4, <1>9, <1>10, <3>2
  <2>4. a.perm = {"U"}
    BY <2>2, <2>3
  <2>5. "W" \notin x.perm
    BY <1>6, <2>4
  <2>6. PICK q \in Frame : q = x.pg
    BY <1>7
  <2>7. m.tab[d][j] # Null /\ m.tab[d][j].pg = q
    BY <1>7, <1>10, <2>6
  <2>8. \/ q = d
        \/ kd[q] = "table" /\ up[q] = d /\ at[q] \in UIx
        \/ q \in KTables
    BY <2>7, Walked
  <2> QED BY <1>7, <2>5, <2>6, <2>8 DEF t
<1>11. CASE kd[t] = "table" /\ up[t] = d /\ at[t] = i /\ i \in UIx
  <2>1. kd[x.pg] = "page" /\ up[x.pg] = t
    BY <1>7, <1>11 DEF Good, TableNames
  <2> QED BY <1>7, <1>11, <2>1 DEF t
<1>12. CASE t \in KTables /\ i \in DOMAIN KernTab
  <2>1. b = KernMap[t][j]
    BY <1>2, <1>12 DEF Good, KernelKept, t
  <2>2. b.perm # Perm
    BY <1>3, <1>12, <2>1, EnvAssumption
  <2>3. x.perm # Perm
    BY <1>6, <2>2
  <2> QED BY <1>7, <1>12, <2>3 DEF t
<1> QED
  BY <1>8, <1>10, <1>11, <1>12

----------------------------------------------------------------------------
(* The invariant of the environments *)

\* The frames of D are the directories in use, and those of L in nobody's use.
Held(m, D, L) ==
  \E kd, up, at : Good(m, kd, up, at) /\ DirSet(kd) = D /\ LostSet(kd) = L

\* The directories of the environments.
Dirs == {Pgdir(e) : e \in Live}

\* The processor is on the directory of the environment that runs.
Switched ==
  IF curenv = Null THEN mem.cr3 = kern_pgdir
  ELSE curenv \in Live /\ envs[curenv].env_status = "RUNNING" /\ mem.cr3 = Pgdir(curenv)

\* Where the processor is in each state of the kernel: load_icode works on the
\* new directory before anything has run, and env_free has left the one it frees.
OnDirectory ==
  /\ call.fn \in {"kernel", "user"} => Switched
  /\ call.fn = "user" => curenv # Null
  /\ call.fn = "load_icode" => curenv = Null /\ mem.cr3 = Pgdir(call.e)
  /\ call.fn = "env_free" =>
       IF call.e = curenv THEN call.destroy = TRUE /\ mem.cr3 = kern_pgdir ELSE Switched

CallOK ==
  /\ call.fn \in {"kernel", "user", "load_icode", "env_free", "monitor", "panic"}
  /\ call.e \in EnvSlot \cup {Null} /\ call.destroy \in BOOLEAN
  /\ call.todo \in Seq(ImagePage)

\* The directories are each one environment's.
OneEach == \A e, f \in Live : Pgdir(e) = Pgdir(f) => e = f

\* What EnvInv adds to SlotInv.
MemInv == CallOK /\ OnDirectory /\ OneEach /\ Held(mem, Dirs, lost)

EnvInv == SlotInv /\ MemInv

----------------------------------------------------------------------------
(* The steps of kern/env.c on memory, between states in which every page has
   its use.                                                                *)

\* What Held says of the directories, %cr3 and the lost pages.
LEMMA HeldTypes ==
  ASSUME NEW m, NEW D, NEW L, Held(m, D, L)
  PROVE  /\ m \in Mem /\ D \subseteq Frame /\ kern_pgdir \notin D
         /\ m.cr3 = kern_pgdir \/ m.cr3 \in D
         /\ L \subseteq Page
<1>1. PICK kd, up, at : Good(m, kd, up, at) /\ DirSet(kd) = D /\ LostSet(kd) = L
  BY DEF Held
<1>2. m \in Mem /\ m.cr3 \in Frame /\ D \subseteq Frame
  BY <1>1 DEF Good, WellTyped, Mem, DirSet
<1>3. kern_pgdir \notin D
  BY <1>1, KernelFrames DEF Good, KernelKept, DirSet
<1>4. m.cr3 = kern_pgdir \/ m.cr3 \in D
  BY <1>1, <1>2 DEF Good, Cached, DirSet
<1>5. L \subseteq Page
  BY <1>1 DEF LostSet, Page, Good, KernelKept
<1> QED
  BY <1>2, <1>3, <1>4, <1>5

\* Loading %cr3.
LEMMA HeldSwitch ==
  ASSUME NEW m, NEW D, NEW L, Held(m, D, L), NEW c, c = kern_pgdir \/ c \in D
  PROVE  Held(lcr3(m, c), D, L) /\ lcr3(m, c).cr3 = c
<1>1. PICK kd, up, at : Good(m, kd, up, at) /\ DirSet(kd) = D /\ LostSet(kd) = L
  BY DEF Held
<1>2. c \in Frame /\ (c = kern_pgdir \/ kd[c] = "dir")
  BY <1>1, KernelFrames DEF DirSet
<1>3. Good(lcr3(m, c), kd, up, at) /\ lcr3(m, c).cr3 = c
  BY <1>1, <1>2, SwitchGood
<1> QED
  BY <1>1, <1>3 DEF Held

\* The processor caching a translation.
LEMMA HeldFill ==
  ASSUME NEW m, NEW D, NEW L, Held(m, D, L), NEW va \in Va
  PROVE  Held(tlb_fill(m, va), D, L) /\ tlb_fill(m, va).cr3 = m.cr3
<1>1. PICK kd, up, at : Good(m, kd, up, at) /\ DirSet(kd) = D /\ LostSet(kd) = L
  BY DEF Held
<1>2. Good(tlb_fill(m, va), kd, up, at) /\ tlb_fill(m, va).cr3 = m.cr3
  BY <1>1, FillGood
<1> QED
  BY <1>1, <1>2 DEF Held

\* page_alloc(ALLOC_ZERO)
zeroed(m) == page_alloc(m, TRUE)

\* env_alloc: a new page becomes one more directory.
LEMMA HeldAlloc ==
  ASSUME NEW m, NEW D, NEW L, Held(m, D, L),
         NEW a, a = zeroed(m), a.pg # Null,
         NEW n, n = env_setup_vm(a.mem, a.pg)
  PROVE  a.pg \in Frame \ D /\ Held(n, Plus(D, a.pg), L) /\ n.cr3 = m.cr3
<1> USE DEF zeroed
<1>1. PICK kd, up, at : Good(m, kd, up, at) /\ DirSet(kd) = D /\ LostSet(kd) = L
  BY DEF Held
<1>2. m.page_free_list # Null
  BY DEF page_alloc
<1>3. PICK p \in Frame : p = m.page_free_list /\ kd[p] = "free" /\ a.pg = p
  BY <1>1, <1>2, AllocGood
<1>4. PICK b, K : b = a.mem /\ K = Put(kd, p, "lost")
  OBVIOUS
<1>5. Good(b, K, up, at) /\ b.pp_ref[p] = 0 /\ b.cr3 = m.cr3
  BY <1>1, <1>2, <1>3, <1>4, AllocGood
<1>6. kd \in [Frame -> Kind]
  BY <1>1 DEF Good, WellTyped
<1>7. K[p] = "lost"
  BY <1>3, <1>4, <1>6 DEF Put
<1>8. PICK K2 : K2 = Put(K, p, "dir")
  OBVIOUS
<1>9. n = env_setup_vm(b, p)
  BY <1>3, <1>4
<1>10. Good(n, K2, up, at) /\ n.cr3 = b.cr3
  BY ZenonT(30), <1>3, <1>5, <1>7, <1>8, <1>9, InstallGood
<1>11. DirSet(K2) = Plus(D, p) /\ LostSet(K2) = L /\ p \notin D
  BY <1>1, <1>3, <1>4, <1>6, <1>8 DEF DirSet, LostSet, Put, Plus
<1> QED
  BY <1>3, <1>5, <1>10, <1>11 DEF Held

\* The memory m after a write of c to frame p.
Written(m, p, c) == [m EXCEPT !.tab[p] = c]

\* What an iteration of region_alloc did to memory, for a result r: the page is
\* mapped and can be filled, there was none, or nobody has it.
Loaded(m, D, L, r) ==
  /\ r.mem.cr3 = m.cr3
  /\ \/ /\ r.mapped = TRUE /\ Held(r.mem, D, L)
        /\ \A c \in Table : Held(Written(r.mem, r.pg, c), D, L)
     \/ r.mapped = FALSE /\ r.panic = TRUE /\ Held(r.mem, D, L)
     \/ r.mapped = FALSE /\ r.panic = FALSE /\ Held(r.mem, D, Plus(L, r.pg))

\* load_icode: a page for an address below UTOP, with what it is filled with.
LEMMA HeldLoad ==
  ASSUME NEW m, NEW D, NEW L, Held(m, D, L), NEW d \in D, NEW i \in UIx, NEW j \in Ix,
         NEW r, r = region_alloc(m, d, Addr(i, j))
  PROVE  Loaded(m, D, L, r)
<1> USE DEF Loaded
<1>1. PICK kd, up, at : Good(m, kd, up, at) /\ DirSet(kd) = D /\ LostSet(kd) = L
  BY DEF Held
<1>2. InDir(m, kd, up, at, d, i)
  BY <1>1 DEF InDir, DirSet
<1>3. Allocated(m, kd, r)
  BY <1>2, RegionGood
<1>4. CASE r.panic = TRUE /\ r.mapped = FALSE /\ r.mem = m
  BY <1>1, <1>4 DEF Held
<1>5. ASSUME /\ r.panic = FALSE /\ r.mem.cr3 = m.cr3 /\ r.pg \in Frame,
             NEW K, NEW U, NEW A, Good(r.mem, K, U, A), DirSet(K) = DirSet(kd),
             r.mapped = FALSE, LostSet(K) = Plus(LostSet(kd), r.pg)
      PROVE  r.mapped = FALSE /\ r.panic = FALSE /\ Held(r.mem, D, Plus(L, r.pg))
  BY <1>1, <1>5 DEF Held
<1>6. ASSUME /\ r.panic = FALSE /\ r.mem.cr3 = m.cr3 /\ r.pg \in Frame,
             NEW K, NEW U, NEW A, Good(r.mem, K, U, A), DirSet(K) = DirSet(kd),
             r.mapped = TRUE, LostSet(K) = LostSet(kd), K[r.pg] = "page"
      PROVE  /\ r.mapped = TRUE /\ Held(r.mem, D, L)
             /\ \A c \in Table : Held(Written(r.mem, r.pg, c), D, L)
  <2>1. Held(r.mem, D, L)
    BY <1>1, <1>6 DEF Held
  <2>2. ASSUME NEW c \in Table PROVE Held(Written(r.mem, r.pg, c), D, L)
    <3>1. PICK s, p : s = r.mem /\ p = r.pg
      OBVIOUS
    <3>2. Good(s, K, U, A) /\ p \in Frame /\ K[p] = "page"
      BY <1>6, <3>1, Zenon
    <3>3. Good(Written(s, p, c), K, U, A)
      BY <3>2, WriteGood DEF Written
    <3>4. Held(Written(s, p, c), D, L)
      BY <1>1, <1>6, <3>3 DEF Held
    <3> QED BY <3>1, <3>4
  <2> QED BY <1>6, <2>1, <2>2
<1>7. r.mem.cr3 = m.cr3
  BY <1>3 DEF Allocated
<1> QED
  BY <1>3, <1>4, <1>5, <1>6, <1>7 DEF Allocated

\* What a write puts in a page is a table's worth of entries.
LEMMA ContentType ==
  ASSUME NEW word \in Root \cup {Null}
  PROVE  Content(word) \in Table
<1>1. Blank \in Table
  BY DEF Blank, Table
<1>2. ASSUME NEW q \in Root PROVE Junk(q) \in Table
  <2>1. q \in Frame
    OBVIOUS
  <2>2. [pg |-> q, perm |-> Perm] \in Entry
    BY <2>1 DEF Entry
  <2> QED BY <2>2 DEF Junk, Table
<1> QED
  BY <1>1, <1>2 DEF Content

\* A program writes through what the processor has cached, or through the
\* tables.
LEMMA HeldWrite ==
  ASSUME NEW m, NEW D, NEW L, Held(m, D, L), m.cr3 \in D,
         NEW va \in Va, NEW x, x = m.tlb[va] \/ x = translate(m, m.cr3, va),
         x # Null, x.perm = Perm, NEW c \in Table
  PROVE  Held(Written(m, x.pg, c), D, L) /\ Written(m, x.pg, c).cr3 = m.cr3
<1>1. PICK kd, up, at : Good(m, kd, up, at) /\ DirSet(kd) = D /\ LostSet(kd) = L
  BY DEF Held
<1>2. PICK d \in Frame : d = m.cr3 /\ kd[d] = "dir"
  BY <1>1 DEF DirSet
<1>3. PICK i \in Ix, j \in Ix : va = Addr(i, j)
  BY DEF Va, Addr
<1>4. x = translate(m, d, Addr(i, j))
  BY <1>1, <1>2, <1>3 DEF Good, Cached
<1>5. PICK t : t = m.tab[d][i].pg
  OBVIOUS
<1>6. /\ x.pg \in Frame
      /\ \/ kd[x.pg] = "page"
         \/ "W" \notin x.perm
         \/ x.perm # Perm
  BY <1>1, <1>2, <1>4, Reached
<1>7. PICK p \in Frame : p = x.pg /\ kd[p] = "page"
  BY <1>6 DEF Perm
<1>8. Good(Written(m, p, c), kd, up, at)
  BY <1>1, <1>7, WriteGood DEF Written
<1>9. Written(m, p, c).cr3 = m.cr3
  BY <1>1 DEF Written, Good, WellTyped, Mem
<1> QED
  BY <1>1, <1>7, <1>8, <1>9 DEF Held

\* env_free: a page of an environment.
LEMMA HeldFreePage ==
  ASSUME NEW m, NEW D, NEW L, Held(m, D, L), NEW d \in D, NEW i \in UIx, NEW j \in Ix,
         m.tab[d][i] # Null, NEW t, t = m.tab[d][i].pg, m.tab[t][j] # Null
  PROVE  Held(remove_at(m, d, i, j), D, L) /\ remove_at(m, d, i, j).cr3 = m.cr3
<1>1. PICK kd, up, at : Good(m, kd, up, at) /\ DirSet(kd) = D /\ LostSet(kd) = L
  BY DEF Held
<1>2. InDir(m, kd, up, at, d, i) /\ i \in Ix
  BY <1>1 DEF InDir, DirSet, UIx
<1>3. m \in Mem /\ d \in Frame /\ kd \in [Frame -> Kind]
  BY <1>1, <1>2 DEF InDir, Good, WellTyped
<1>4. HasTable(m, d, i, t)
  BY <1>2, <1>3, EntryFrames DEF HasTable
<1>5. PICK p, n : p = m.tab[t][j].pg /\ n = remove_at(m, d, i, j)
  OBVIOUS
<1>6. /\ p \in Frame /\ kd[p] = "page" /\ Good(n, Put(kd, p, "free"), up, at)
      /\ n.cr3 = m.cr3
  BY <1>2, <1>4, <1>5, RemoveGood
<1>7. DirSet(Put(kd, p, "free")) = D /\ LostSet(Put(kd, p, "free")) = L
  BY <1>1, <1>3, <1>6 DEF DirSet, LostSet, Put
<1>8. Held(n, D, L)
  BY <1>6, <1>7 DEF Held
<1> QED
  BY <1>5, <1>6, <1>8

\* env_free: an emptied page table, of an environment the processor is not on.
LEMMA HeldFreeTable ==
  ASSUME NEW m, NEW D, NEW L, Held(m, D, L), NEW d \in D, d # m.cr3, NEW i \in UIx,
         m.tab[d][i] # Null, NEW t, t = m.tab[d][i].pg, \A j \in Ix : m.tab[t][j] = Null
  PROVE  Held(Dropped(m, d, i, t), D, L) /\ Dropped(m, d, i, t).cr3 = m.cr3
<1>1. PICK kd, up, at : Good(m, kd, up, at) /\ DirSet(kd) = D /\ LostSet(kd) = L
  BY DEF Held
<1>2. InDir(m, kd, up, at, d, i) /\ i \in Ix
  BY <1>1 DEF InDir, DirSet, UIx
<1>3. m \in Mem /\ d \in Frame /\ kd \in [Frame -> Kind]
  BY <1>1, <1>2 DEF InDir, Good, WellTyped
<1>4. HasTable(m, d, i, t) /\ t \in Frame
  BY <1>2, <1>3, EntryFrames DEF HasTable
<1>5. /\ kd[t] = "table"
      /\ Good(Dropped(m, d, i, t), Put(kd, t, "free"), up, at)
      /\ Dropped(m, d, i, t).cr3 = m.cr3
  BY <1>2, <1>4, DropTableGood
<1>6. DirSet(Put(kd, t, "free")) = D /\ LostSet(Put(kd, t, "free")) = L
  BY <1>1, <1>3, <1>4, <1>5 DEF DirSet, LostSet, Put
<1> QED
  BY <1>5, <1>6 DEF Held

\* env_free: the directory, when nothing is left below UTOP and the processor
\* is not on it.
LEMMA HeldFreeDir ==
  ASSUME NEW m, NEW D, NEW L, Held(m, D, L), NEW d \in D, d # m.cr3,
         \A i \in UIx : m.tab[d][i] = Null
  PROVE  Held(page_decref(m, d), Minus(D, d), L) /\ page_decref(m, d).cr3 = m.cr3
<1>1. PICK kd, up, at : Good(m, kd, up, at) /\ DirSet(kd) = D /\ LostSet(kd) = L
  BY DEF Held
<1>2. d \in Frame /\ kd[d] = "dir" /\ kd \in [Frame -> Kind]
  BY <1>1 DEF DirSet, Good, WellTyped
<1>3. /\ Good(page_decref(m, d), Put(kd, d, "free"), up, at)
      /\ page_decref(m, d).cr3 = m.cr3
  BY <1>1, <1>2, DropDirGood
<1>4. DirSet(Put(kd, d, "free")) = Minus(D, d) /\ LostSet(Put(kd, d, "free")) = L
  BY <1>1, <1>2 DEF DirSet, LostSet, Put, Minus
<1> QED
  BY <1>3, <1>4 DEF Held

----------------------------------------------------------------------------
(* The choice that env_free's loops make: the least index left *)

\* Least finds it.
LEMMA LeastIs ==
  ASSUME NEW S \in SUBSET Nat, S # {}
  PROVE  Least(S) \in S
BY LeastExists DEF Least

----------------------------------------------------------------------------
(* The steps of the specification *)

\* mem_init leaves every frame to the kernel or on the free list.
LEMMA InitEnv ==
  Init => EnvInv
<1> SUFFICES ASSUME Init PROVE EnvInv
  OBVIOUS
<1>1. SlotInv
  BY InitSlots
<1>2. curenv = Null /\ call = Kernel /\ lost = {} /\ mem.cr3 = kern_pgdir
  BY DEF Init
<1>3. CallOK /\ OnDirectory
  BY <1>2 DEF CallOK, OnDirectory, Switched, Kernel, Call
<1>4. Live = {}
  <2>0. NENV \in Nat
    BY Numbers
  <2>1. env_free_list = [i \in 1 .. NENV |-> i - 1]
    BY DEF Init
  <2> SUFFICES ASSUME NEW e \in EnvSlot PROVE Listed(e)
    BY DEF Live
  <2>2. e + 1 \in 1 .. NENV /\ (e + 1) - 1 = e
    BY <2>0 DEF EnvSlot
  <2> QED BY <2>1, <2>2 DEF Listed
<1>5. PICK kd : kd = [f \in Frame |-> IF f \in Root \cup KTables THEN "kernel" ELSE "free"]
  OBVIOUS
<1>6. /\ kd \in [Frame -> Kind]
      /\ \A f \in Frame : kd[f] = IF f \in Root \cup KTables THEN "kernel" ELSE "free"
  BY <1>5 DEF Kind
<1>7. PICK up, at : up = [f \in Frame |-> f] /\ at = [f \in Frame |-> UVPT]
  OBVIOUS
<1>8. up \in [Frame -> Frame] /\ at \in [Frame -> Ix]
  BY <1>7, KernelFrames
<1>9. /\ mem.pp_ref = [f \in Frame |-> IF f \in Root \cup KTables THEN 1 ELSE 0]
      /\ mem.pp_link = page_init(FreeOrder).link
      /\ mem.page_free_list = page_init(FreeOrder).head
      /\ mem.tab = [f \in Frame |-> IF f = kern_pgdir THEN kernel_entries
                                    ELSE IF f \in KTables THEN KernMap[f]
                                    ELSE Junk(Word)]
      /\ mem.tlb = [va \in Va |-> Null]
      /\ mem = [pp_ref |-> mem.pp_ref, pp_link |-> mem.pp_link,
                page_free_list |-> mem.page_free_list, tab |-> mem.tab,
                cr3 |-> mem.cr3, tlb |-> mem.tlb]
  BY DEF Init
<1>10. IsFreeList(mem, FreeSet(kd)) /\ mem.page_free_list \in Frame \cup {Null}
       /\ mem.pp_link \in [Frame -> Frame \cup {Null}]
  <2>1. PICK F, n : F = Page \ KTables /\ n = Len(FreeOrder)
    OBVIOUS
  <2>2. FreeOrder \in Seq(F)
    BY <2>1, EnvAssumption
  <2>3. n \in Nat /\ DOMAIN FreeOrder = 1 .. n /\ FreeOrder \in [1 .. n -> F]
    BY <2>1, <2>2, LenProperties
  <2>4. Enum(FreeOrder, n, F)
    BY <2>1, <2>3, EnvAssumption DEF Enum, Page
  <2>5. PagesPushed(mem, F, n, FreeOrder)
    BY <1>9, <2>4 DEF PagesPushed
  <2>6. FreeSet(kd) = F
    BY <1>6, <2>1 DEF FreeSet, Page
  <2> QED BY <2>5, <2>6, PageInitList
<1>11. mem \in Mem
  <2>1. mem.pp_ref \in [Frame -> 0 .. RefMod - 1]
    BY <1>9
  <2>2. Junk(Word) \in Table
    <3>1. Word \in Root /\ Word # Null
      BY EnvAssumption
    <3>2. Content(Word) \in Table
      BY <3>1, ContentType
    <3> QED BY <3>1, <3>2 DEF Content
  <2>3. mem.tab \in [Frame -> Table]
    BY <1>9, <2>2, KernelFrames, EnvAssumption
  <2>4. mem.cr3 \in Frame /\ mem.tlb \in [Va -> Entry \cup {Null}]
    BY <1>2, <1>9, KernelFrames
  <2> QED BY <1>9, <1>10, <2>1, <2>3, <2>4 DEF Mem
<1>12. KernelKept(mem, kd)
  <2>1. \A t \in KTables : t # kern_pgdir
    BY EnvAssumption DEF Page
  <2>2. mem.tab[kern_pgdir] = kernel_entries
    BY <1>9, KernelFrames
  <2>3. \A t \in KTables : mem.tab[t] = KernMap[t] /\ mem.pp_ref[t] = 1
    BY <1>9, <2>1, KernelFrames
  <2> QED BY <1>6, <2>2, <2>3 DEF KernelKept
<1>13. /\ DirNames(mem, kd, up, at) /\ TableNames(mem, kd, up, at)
       /\ Named(mem, kd, up, at) /\ Upper(mem, kd)
  BY <1>6 DEF DirNames, TableNames, Named, Upper
<1>14. Counted(mem, kd)
  BY <1>6, <1>9 DEF Counted
<1>15. Cached(mem, kd)
  BY <1>2, <1>9 DEF Cached
<1>16. Good(mem, kd, up, at)
  BY <1>6, <1>8, <1>10, <1>11, <1>12, <1>13, <1>14, <1>15 DEF Good, WellTyped
<1>17. DirSet(kd) = {} /\ LostSet(kd) = {} /\ Dirs = {}
  BY <1>4, <1>6 DEF DirSet, LostSet, Dirs
<1>18. Held(mem, Dirs, lost)
  BY <1>2, <1>16, <1>17 DEF Held
<1> QED
  BY <1>1, <1>3, <1>4, <1>18 DEF EnvInv, MemInv, OneEach

\* A step that leaves the slots' directories alone.
LEMMA SameDirs ==
  ASSUME OneEach, Live' = Live, \A e \in Live : envs'[e].env_pgdir = envs[e].env_pgdir
  PROVE  OneEach' /\ Dirs' = Dirs
<1>1. \A e \in Live : Pgdir(e)' = Pgdir(e)
  BY DEF Pgdir
<1>2. Dirs' = {Pgdir(e)' : e \in Live'}
  BY DEF Dirs
<1>3. Dirs' = Dirs
  BY <1>1, <1>2 DEF Dirs
<1>4. OneEach' <=> \A e, f \in Live' : Pgdir(e)' = Pgdir(f)' => e = f
  BY DEF OneEach
<1> QED
  BY <1>1, <1>3, <1>4 DEF OneEach

\* The last assignments of env_alloc, with a directory d that is not in use.
LEMMA CommitDirs ==
  ASSUME SlotInv, OneEach, NEW parent \in 0 .. (IDMOD \div 2) - 1,
         NEW d, d # Null, d \notin Dirs,
         env_free_list # <<>>, NEW e, e = Head(env_free_list), Commit(e, parent, d)
  PROVE  /\ OneEach' /\ Dirs' = Plus(Dirs, d)
         /\ e \in EnvSlot /\ e \notin Live /\ Live' = Live \cup {e}
         /\ envs'[e].env_pgdir = d
         /\ \A x \in Live : envs'[x] = envs[x]
<1>1. e \in EnvSlot /\ e \notin Live /\ Live' = Live \cup {e}
  BY CommitSlots
<1>2. PICK F : envs \in [EnvSlot -> SlotOf(F)]
  BY DEF SlotInv, SlotsGood
<1>3. envs'[e].env_pgdir = d /\ \A x \in EnvSlot : x # e => envs'[x] = envs[x]
  BY <1>1, <1>2 DEF Commit
<1>4. \A x \in Live : x \in EnvSlot /\ envs'[x] = envs[x]
  BY <1>1, <1>3 DEF Live
<1>5. Pgdir(e)' = d /\ \A x \in Live : Pgdir(x)' = Pgdir(x)
  BY <1>3, <1>4 DEF Pgdir
<1>6. Dirs' = {Pgdir(x)' : x \in Live'}
  BY DEF Dirs
<1>7. Dirs' = Plus(Dirs, d)
  BY <1>1, <1>5, <1>6 DEF Dirs, Plus
<1>8. OneEach' <=> \A x, y \in Live' : Pgdir(x)' = Pgdir(y)' => x = y
  BY DEF OneEach
<1>9. \A x \in Live : Pgdir(x) # d
  BY DEF Dirs
<1>10. OneEach'
  BY <1>1, <1>5, <1>8, <1>9 DEF OneEach
<1> QED
  BY <1>1, <1>3, <1>4, <1>7, <1>10

\* The last assignments of env_free.
LEMMA FreeDirs ==
  ASSUME SlotInv, OneEach, NEW e \in Live,
         envs' = [envs EXCEPT ![e].env_pgdir = Null, ![e].env_status = "FREE"],
         env_free_list' = <<e>> \o env_free_list, retired' = retired
  PROVE  /\ OneEach' /\ Dirs' = Minus(Dirs, Pgdir(e))
         /\ Live' = Live \ {e}
         /\ \A x \in Live' : envs'[x] = envs[x]
<1>1. e \in EnvSlot /\ Live' = Live \ {e}
  BY FreeSlots DEF Live
<1>2. PICK F : envs \in [EnvSlot -> SlotOf(F)]
  BY DEF SlotInv, SlotsGood
<1>3. \A x \in EnvSlot : x # e => envs'[x] = envs[x]
  BY <1>1, <1>2
<1>4. \A x \in Live' : x \in Live /\ x # e /\ envs'[x] = envs[x]
  BY <1>1, <1>3 DEF Live
<1>5. \A x \in Live' : Pgdir(x)' = Pgdir(x)
  BY <1>4 DEF Pgdir
<1>6. Dirs' = {Pgdir(x)' : x \in Live'}
  BY DEF Dirs
<1>7. \A x \in Live \ {e} : Pgdir(x) # Pgdir(e)
  BY DEF OneEach
<1>8. Dirs' = Minus(Dirs, Pgdir(e))
  BY <1>1, <1>5, <1>6, <1>7 DEF Dirs, Minus
<1>9. OneEach' <=> \A x, y \in Live' : Pgdir(x)' = Pgdir(y)' => x = y
  BY DEF OneEach
<1>10. OneEach'
  BY <1>4, <1>5, <1>9 DEF OneEach
<1> QED
  BY <1>1, <1>4, <1>8, <1>10

\* A step that moves neither the processor nor the call leaves %cr3 in order.
LEMMA SameRun ==
  ASSUME OnDirectory, Live' = Live, curenv' = curenv, call' = call, mem'.cr3 = mem.cr3,
         \A e \in Live : envs'[e] = envs[e], call.fn \in Loops => call.e \in Live
  PROVE  OnDirectory'
<1>1. Switched => Switched'
  BY DEF Switched, Pgdir
<1>2. call.fn = "load_icode" => Pgdir(call.e)' = Pgdir(call.e)
  BY DEF Loops, Pgdir
<1> QED
  BY <1>1, <1>2 DEF OnDirectory

\* In a loop of the kernel the environment has a directory.
LEMMA LoopDir ==
  ASSUME EnvInv, call.fn \in Loops
  PROVE  call.e \in Live /\ Pgdir(call.e) \in Dirs
BY DEF EnvInv, SlotInv, Dirs

\* env_free has left the directory that it takes apart.
LEMMA OffDirectory ==
  ASSUME EnvInv, call.fn = "env_free"
  PROVE  Pgdir(call.e) # mem.cr3
<1>1. call.e \in Live /\ Pgdir(call.e) \in Dirs
  BY LoopDir DEF Loops
<1>2. kern_pgdir \notin Dirs
  BY HeldTypes DEF EnvInv, MemInv
<1>3. CASE call.e = curenv
  <2>1. mem.cr3 = kern_pgdir
    BY <1>3 DEF EnvInv, MemInv, OnDirectory
  <2> QED BY <1>1, <1>2, <2>1
<1>4. CASE call.e # curenv
  <2>1. Switched
    BY <1>4 DEF EnvInv, MemInv, OnDirectory
  <2>2. CASE curenv = Null
    BY <1>1, <1>2, <2>1, <2>2 DEF Switched
  <2>3. CASE curenv # Null
    <3>1. curenv \in Live /\ mem.cr3 = Pgdir(curenv)
      BY <2>1, <2>3 DEF Switched
    <3>2. OneEach
      BY DEF EnvInv, MemInv
    <3> QED BY <1>1, <1>4, <3>1, <3>2 DEF OneEach
  <2> QED BY <2>2, <2>3
<1> QED
  BY <1>3, <1>4

\* env_alloc: the new directory is one more, and nothing else moves.
LEMMA StepAlloc ==
  ASSUME EnvInv, NEW parent \in Parent, EnvAlloc(parent)
  PROVE  MemInv'
<1>1. PICK r, a, e, d : /\ r = env_alloc(parent) /\ a = zeroed(mem)
                        /\ e = Head(env_free_list) /\ d = a.pg
  OBVIOUS
<1>2. /\ call = Kernel /\ r.e # Null /\ mem' = r.mem /\ Commit(r.e, parent, r.d)
      /\ curenv' = curenv /\ call' = call /\ lost' = lost
  BY <1>1 DEF EnvAlloc
<1>3. /\ env_free_list # <<>> /\ r.e = e /\ d # Null /\ r.d = d
      /\ r.mem = env_setup_vm(a.mem, a.pg)
  BY <1>1, <1>2, AllocGives DEF zeroed
<1>4. Held(mem, Dirs, lost) /\ OneEach /\ SlotInv /\ CallOK /\ OnDirectory
  BY DEF EnvInv, MemInv
<1>5. d \notin Dirs /\ Held(mem', Plus(Dirs, d), lost) /\ mem'.cr3 = mem.cr3
  BY <1>1, <1>2, <1>3, <1>4, HeldAlloc
<1>6. parent \in 0 .. (IDMOD \div 2) - 1
  BY <1>4, ParentType
<1>7. /\ OneEach' /\ Dirs' = Plus(Dirs, d) /\ Live' = Live \cup {e}
      /\ \A x \in Live : envs'[x] = envs[x]
  BY <1>1, <1>2, <1>3, <1>4, <1>5, <1>6, CommitDirs
<1>8. Held(mem', Dirs', lost')
  BY <1>2, <1>5, <1>7
<1>9. CallOK'
  BY <1>2, <1>4 DEF CallOK
<1>10. OnDirectory'
  <2>1. call.fn = "kernel" /\ Switched
    BY <1>2, <1>4 DEF OnDirectory, Kernel, Call
  <2>2. Switched'
    BY <1>2, <1>5, <1>7, <2>1 DEF Switched, Pgdir
  <2> QED BY <1>2, <2>1, <2>2 DEF OnDirectory
<1> QED
  BY <1>7, <1>8, <1>9, <1>10 DEF MemInv

\* env_create: the processor goes to the new directory, or, when env_alloc has
\* failed, to that of an environment that exists.
LEMMA StepCreate ==
  ASSUME EnvInv, NEW prog \in Programs, EnvCreate(prog)
  PROVE  MemInv'
<1>1. PICK r : r = env_alloc(0)
  OBVIOUS
<1>2. call = Kernel /\ curenv = Null /\ curenv' = curenv /\ lost' = lost
  BY DEF EnvCreate
<1>3. Held(mem, Dirs, lost) /\ OneEach /\ SlotInv /\ CallOK /\ OnDirectory
  BY DEF EnvInv, MemInv
<1>4. prog \in Seq(ImagePage) /\ <<>> \in Seq(ImagePage)
  BY EnvAssumption
<1>5. CASE r.e # Null
  <2>1. PICK a, e, d : a = zeroed(mem) /\ e = Head(env_free_list) /\ d = a.pg
    OBVIOUS
  <2>2. /\ mem' = lcr3(r.mem, r.d) /\ Commit(r.e, 0, r.d)
        /\ call' = Call("load_icode", r.e, prog, FALSE)
    BY <1>1, <1>5 DEF EnvCreate
  <2>3. /\ env_free_list # <<>> /\ r.e = e /\ d # Null /\ r.d = d
        /\ r.mem = env_setup_vm(a.mem, a.pg)
    BY <1>1, <1>5, <2>1, AllocGives DEF zeroed
  <2>4. d \notin Dirs /\ Held(r.mem, Plus(Dirs, d), lost)
    BY <1>3, <2>1, <2>3, HeldAlloc
  <2>5. Held(mem', Plus(Dirs, d), lost) /\ mem'.cr3 = d
    <3>1. d \in Plus(Dirs, d)
      BY DEF Plus
    <3> QED BY <2>2, <2>3, <2>4, <3>1, HeldSwitch
  <2>6. 0 \in 0 .. (IDMOD \div 2) - 1
    BY <1>3, ParentType DEF Parent
  <2>7. /\ OneEach' /\ Dirs' = Plus(Dirs, d) /\ e \in EnvSlot /\ envs'[e].env_pgdir = d
    BY <1>3, <2>1, <2>2, <2>3, <2>4, <2>6, CommitDirs
  <2>8. /\ call'.fn = "load_icode" /\ call'.e = e /\ call'.todo = prog /\ call'.destroy = FALSE
    BY <2>2, <2>3 DEF Call
  <2>9. CallOK'
    BY <1>4, <2>7, <2>8 DEF CallOK
  <2>10. OnDirectory'
    <3>1. envs'[call'.e].env_pgdir = d
      BY <2>7, <2>8
    <3> QED BY <1>2, <2>5, <2>8, <3>1 DEF OnDirectory, Pgdir
  <2> QED BY <1>2, <2>5, <2>7, <2>9, <2>10 DEF MemInv
<1>6. CASE r.e = Null
  <2>1. /\ envs' = envs /\ env_free_list' = env_free_list /\ retired' = retired
        /\ \/ call' = Call("panic", Null, <<>>, FALSE) /\ mem' = mem
           \/ \E e \in Live : /\ call' = Call("load_icode", e, prog, FALSE)
                              /\ mem' = lcr3(mem, Pgdir(e))
    BY <1>1, <1>6 DEF EnvCreate
  <2>2. Live' = Live
    BY <1>3, <2>1, SameSlots
  <2>3. OneEach' /\ Dirs' = Dirs
    BY <1>3, <2>1, <2>2, SameDirs
  <2>4. CASE call' = Call("panic", Null, <<>>, FALSE) /\ mem' = mem
    <3>1. CallOK' /\ OnDirectory'
      BY <1>4, <2>4 DEF CallOK, OnDirectory, Call
    <3> QED BY <1>2, <1>3, <2>3, <2>4, <3>1 DEF MemInv
  <2>5. ASSUME NEW e \in Live, call' = Call("load_icode", e, prog, FALSE),
               mem' = lcr3(mem, Pgdir(e))
        PROVE  MemInv'
    <3>1. Held(mem', Dirs, lost) /\ mem'.cr3 = Pgdir(e)
      <4>1. Pgdir(e) \in Dirs
        BY DEF Dirs
      <4> QED BY <1>3, <2>5, <4>1, HeldSwitch
    <3>2. call'.fn = "load_icode" /\ call'.e = e /\ call'.todo = prog /\ call'.destroy = FALSE
      BY <2>5 DEF Call
    <3>3. CallOK'
      BY <1>4, <3>2 DEF CallOK, Live
    <3>4. OnDirectory'
      BY <1>2, <2>1, <3>1, <3>2 DEF OnDirectory, Pgdir
    <3> QED BY <1>2, <2>3, <3>1, <3>3, <3>4 DEF MemInv
  <2> QED BY <2>1, <2>4, <2>5
<1> QED
  BY <1>5, <1>6

\* load_icode: a page of the program, into the new environment.
LEMMA StepLoadPage ==
  ASSUME EnvInv, LoadPage
  PROVE  MemInv'
<1>1. Held(mem, Dirs, lost) /\ OneEach /\ SlotInv /\ CallOK /\ OnDirectory
  BY DEF EnvInv, MemInv
<1>2. /\ call.fn = "load_icode" /\ call.todo # <<>>
      /\ envs' = envs /\ env_free_list' = env_free_list /\ retired' = retired
      /\ curenv' = curenv
  BY DEF LoadPage
<1>3. call.e \in Live /\ Pgdir(call.e) \in Dirs
  BY <1>2, LoopDir DEF Loops
<1>4. Live' = Live
  BY <1>1, <1>2, SameSlots
<1>5. OneEach' /\ Dirs' = Dirs
  BY <1>1, <1>2, <1>4, SameDirs
<1>6. PICK h, t : h = Head(call.todo) /\ t = Tail(call.todo)
  OBVIOUS
<1>7. h \in ImagePage /\ t \in Seq(ImagePage)
  BY <1>1, <1>2, <1>6 DEF CallOK
<1>8. PICK i \in UIx, j \in Ix : h.va = Addr(i, j)
  BY <1>7 DEF ImagePage, Addr
<1>9. PICK c \in Table : c = Content(h.word)
  <2>1. h.word \in Root \cup {Null}
    BY <1>7 DEF ImagePage
  <2> QED BY <2>1, ContentType
<1>10. PICK d, r : d = Pgdir(call.e) /\ r = region_alloc(mem, d, Addr(i, j))
  OBVIOUS
<1>11. /\ \/ /\ r.mapped
             /\ mem' = [r.mem EXCEPT !.tab[r.pg] = c]
             /\ call' = [call EXCEPT !.todo = t]
          \/ /\ ~r.mapped
             /\ mem' = r.mem
             /\ call' = Call("panic", Null, <<>>, FALSE)
       /\ lost' = IF r.panic \/ r.mapped THEN lost ELSE lost \cup {r.pg}
  BY <1>6, <1>8, <1>9, <1>10 DEF LoadPage, Lose
<1>12. /\ r.mem.cr3 = mem.cr3
       /\ \/ /\ r.mapped = TRUE /\ Held(r.mem, Dirs, lost)
             /\ \A x \in Table : Held(Written(r.mem, r.pg, x), Dirs, lost)
          \/ r.mapped = FALSE /\ r.panic = TRUE /\ Held(r.mem, Dirs, lost)
          \/ r.mapped = FALSE /\ r.panic = FALSE /\ Held(r.mem, Dirs, Plus(lost, r.pg))
  <2>1. Loaded(mem, Dirs, lost, r)
    BY <1>1, <1>3, <1>10, HeldLoad
  <2> QED BY <2>1 DEF Loaded
<1>13. CASE r.mapped = TRUE
  <2>1. Held(r.mem, Dirs, lost)
    BY <1>12, <1>13
  <2>2. mem' = Written(r.mem, r.pg, c)
    BY <1>11, <1>13 DEF Written
  <2>3. Held(Written(r.mem, r.pg, c), Dirs, lost)
    BY <1>12, <1>13
  <2>4. Held(mem', Dirs, lost)
    BY <2>2, <2>3, Zenon
  <2>5. lost' = lost /\ call' = [call EXCEPT !.todo = t]
    BY <1>11, <1>13
  <2>6. mem'.cr3 = r.mem.cr3
    <3>1. r.mem \in Mem
      BY <2>1, HeldTypes
    <3> QED BY <2>2, <3>1 DEF Mem, Written
  <2>7. call'.fn = call.fn /\ call'.e = call.e /\ call'.todo = t /\ call'.destroy = call.destroy
    BY <1>1, <2>5 DEF SlotInv, Call
  <2>8. CallOK'
    BY <1>1, <1>7, <2>7 DEF CallOK
  <2>9. OnDirectory'
    <3>1. curenv = Null /\ mem.cr3 = envs[call.e].env_pgdir
      BY <1>1, <1>2 DEF OnDirectory, Pgdir
    <3>2. call'.fn = "load_icode" /\ curenv' = Null /\ mem'.cr3 = envs'[call'.e].env_pgdir
      BY <1>2, <1>12, <2>6, <2>7, <3>1
    <3> QED BY <3>2 DEF OnDirectory, Pgdir
  <2> QED BY <1>5, <2>4, <2>5, <2>8, <2>9 DEF MemInv
<1>14. CASE r.mapped = FALSE
  <2>1. mem' = r.mem /\ call' = Call("panic", Null, <<>>, FALSE)
    BY <1>11, <1>14
  <2>2. CallOK' /\ OnDirectory'
    BY <2>1 DEF CallOK, OnDirectory, Call
  <2>3. Held(mem', Dirs, lost')
    BY <1>11, <1>12, <1>14, <2>1 DEF Plus
  <2> QED BY <1>5, <2>2, <2>3 DEF MemInv
<1> QED
  BY <1>12, <1>13, <1>14

\* load_icode: back to the kernel's directory, and the page of the stack.
LEMMA StepLoadStack ==
  ASSUME EnvInv, LoadStack
  PROVE  MemInv'
<1>1. Held(mem, Dirs, lost) /\ OneEach /\ SlotInv /\ CallOK /\ OnDirectory
  BY DEF EnvInv, MemInv
<1>2. /\ call.fn = "load_icode"
      /\ envs' = envs /\ env_free_list' = env_free_list /\ retired' = retired
      /\ curenv' = curenv
  BY DEF LoadStack
<1>3. call.e \in Live /\ Pgdir(call.e) \in Dirs
  BY <1>2, LoopDir DEF Loops
<1>4. Live' = Live
  BY <1>1, <1>2, SameSlots
<1>5. OneEach' /\ Dirs' = Dirs
  BY <1>1, <1>2, <1>4, SameDirs
<1>6. PICK i \in UIx, j \in Ix : STACK = Addr(i, j)
  <2>1. STACK \in UIx \X Ix
    BY EnvAssumption
  <2> QED BY <2>1 DEF Addr
<1>7. PICK n : n = lcr3(mem, kern_pgdir)
  OBVIOUS
<1>8. Held(n, Dirs, lost) /\ n.cr3 = kern_pgdir
  BY <1>1, <1>7, HeldSwitch
<1>9. PICK d, r : d = Pgdir(call.e) /\ r = region_alloc(n, d, Addr(i, j))
  OBVIOUS
<1>10. /\ mem' = r.mem
       /\ call' = IF r.panic THEN Call("panic", Null, <<>>, FALSE) ELSE Kernel
       /\ lost' = IF r.panic \/ r.mapped THEN lost ELSE lost \cup {r.pg}
  BY <1>6, <1>7, <1>9 DEF LoadStack, Lose
<1>11. /\ r.mem.cr3 = kern_pgdir
       /\ \/ r.mapped = TRUE /\ Held(r.mem, Dirs, lost)
          \/ r.mapped = FALSE /\ r.panic = TRUE /\ Held(r.mem, Dirs, lost)
          \/ r.mapped = FALSE /\ r.panic = FALSE /\ Held(r.mem, Dirs, Plus(lost, r.pg))
  <2>1. Loaded(n, Dirs, lost, r)
    BY <1>3, <1>8, <1>9, HeldLoad
  <2> QED BY <1>8, <2>1 DEF Loaded
<1>12. Held(mem', Dirs, lost') /\ mem'.cr3 = kern_pgdir
  BY <1>10, <1>11 DEF Plus
<1>13. CallOK'
  BY <1>10 DEF CallOK, Kernel, Call
<1>14. OnDirectory'
  <2>1. curenv' = Null
    BY <1>1, <1>2 DEF OnDirectory
  <2>2. Switched'
    BY <1>12, <2>1 DEF Switched
  <2>3. call'.fn \in {"panic", "kernel"}
    BY <1>10 DEF Kernel, Call
  <2> QED BY <2>2, <2>3 DEF OnDirectory
<1> QED
  BY <1>5, <1>12, <1>13, <1>14 DEF MemInv

\* env_run: onto the directory of the environment that is to run.
LEMMA StepRun ==
  ASSUME EnvInv, NEW e \in EnvSlot, EnvRun(e)
  PROVE  MemInv'
<1>1. Held(mem, Dirs, lost) /\ OneEach /\ SlotInv /\ CallOK /\ OnDirectory
  BY DEF EnvInv, MemInv
<1>2. /\ call = Kernel /\ e \in Live /\ env_free_list' = env_free_list /\ lost' = lost
      /\ call' = Call("user", e, <<>>, FALSE)
      /\ \/ /\ curenv' = e
            /\ envs' = [envs EXCEPT ![e].env_status = "RUNNING"]
            /\ mem' = lcr3(mem, Pgdir(e))
         \/ curenv = e /\ curenv' = curenv /\ envs' = envs /\ mem' = mem
  BY DEF EnvRun
<1>3. Live' = Live
  BY <1>2 DEF Live, Listed
<1>4. PICK F : envs \in [EnvSlot -> SlotOf(F)]
  BY <1>1 DEF SlotInv, SlotsGood
<1>5. /\ call'.fn = "user" /\ call'.e = e /\ call'.todo = <<>> /\ call'.destroy = FALSE
      /\ CallOK'
  BY <1>2 DEF CallOK, Call
<1>6. CASE /\ curenv' = e
           /\ envs' = [envs EXCEPT ![e].env_status = "RUNNING"]
           /\ mem' = lcr3(mem, Pgdir(e))
  <2>1. /\ \A x \in EnvSlot : envs'[x].env_pgdir = envs[x].env_pgdir
        /\ envs'[e].env_status = "RUNNING"
    BY <1>4, <1>6 DEF SlotOf
  <2>2. OneEach' /\ Dirs' = Dirs
    BY <1>1, <1>3, <2>1, SameDirs DEF Live
  <2>3. Held(mem', Dirs, lost) /\ mem'.cr3 = Pgdir(e)
    <3>1. Pgdir(e) \in Dirs
      BY <1>2 DEF Dirs
    <3> QED BY <1>1, <1>6, <3>1, HeldSwitch
  <2>4. Switched' /\ curenv' # Null
    <3>1. e # Null
      BY EnvAssumption
    <3> QED BY <1>2, <1>3, <1>6, <2>1, <2>3, <3>1 DEF Switched, Pgdir
  <2> QED BY <1>2, <1>5, <2>2, <2>3, <2>4 DEF MemInv, OnDirectory
<1>7. CASE curenv = e /\ curenv' = curenv /\ envs' = envs /\ mem' = mem
  <2>1. OneEach' /\ Dirs' = Dirs
    BY <1>1, <1>3, <1>7, SameDirs
  <2>2. Switched
    BY <1>1, <1>2 DEF OnDirectory, Kernel, Call
  <2>3. Switched' /\ curenv' # Null
    BY <1>3, <1>7, <2>2, EnvAssumption DEF Switched, Pgdir
  <2> QED BY <1>1, <1>2, <1>5, <1>7, <2>1, <2>3 DEF MemInv, OnDirectory
<1> QED
  BY <1>2, <1>6, <1>7

\* The entry of env_free: off the directory, if it is the current one.
LEMMA StepEnvFree ==
  ASSUME EnvInv, NEW e \in EnvSlot, NEW destroy \in BOOLEAN, env_free(e, destroy)
  PROVE  MemInv'
<1>1. Held(mem, Dirs, lost) /\ OneEach /\ SlotInv /\ CallOK /\ OnDirectory
  BY DEF EnvInv, MemInv
<1>2. /\ call = Kernel /\ e \in Live /\ (e = curenv => destroy)
      /\ envs' = envs /\ env_free_list' = env_free_list /\ retired' = retired
      /\ curenv' = curenv /\ lost' = lost
      /\ call' = Call("env_free", e, <<>>, destroy)
      /\ mem' = IF e = curenv THEN lcr3(mem, kern_pgdir) ELSE mem
  BY DEF env_free
<1>3. Live' = Live
  BY <1>1, <1>2, SameSlots
<1>4. OneEach' /\ Dirs' = Dirs
  BY <1>1, <1>2, <1>3, SameDirs
<1>5. Switched
  BY <1>1, <1>2 DEF OnDirectory, Kernel, Call
<1>6. call'.fn = "env_free" /\ call'.e = e /\ call'.todo = <<>> /\ call'.destroy = destroy
  BY <1>2 DEF Call
<1>7. CallOK'
  BY <1>6 DEF CallOK
<1>8. CASE e = curenv
  <2>1. Held(mem', Dirs, lost) /\ mem'.cr3 = kern_pgdir
    BY <1>1, <1>2, <1>8, HeldSwitch
  <2>2. OnDirectory'
    BY <1>2, <1>6, <1>8, <2>1 DEF OnDirectory
  <2> QED BY <1>2, <1>4, <1>7, <2>1, <2>2 DEF MemInv
<1>9. CASE e # curenv
  <2>1. Switched'
    BY <1>2, <1>3, <1>5, <1>9 DEF Switched, Pgdir
  <2>2. OnDirectory'
    BY <1>2, <1>6, <1>9, <2>1 DEF OnDirectory
  <2> QED BY <1>1, <1>2, <1>4, <1>7, <1>9, <2>2 DEF MemInv
<1> QED
  BY <1>8, <1>9

\* A step that changes memory only.
LEMMA StepMemory ==
  ASSUME EnvInv, envs' = envs, env_free_list' = env_free_list, retired' = retired,
         curenv' = curenv, call' = call, lost' = lost,
         Held(mem', Dirs, lost), mem'.cr3 = mem.cr3
  PROVE  MemInv'
<1>1. OneEach /\ SlotInv /\ CallOK /\ OnDirectory
  BY DEF EnvInv, MemInv
<1>2. Live' = Live
  BY <1>1, SameSlots
<1>3. OneEach' /\ Dirs' = Dirs
  BY <1>1, <1>2, SameDirs
<1>4. CallOK'
  BY <1>1 DEF CallOK
<1>5. OnDirectory'
  BY <1>1, <1>2, SameRun DEF SlotInv
<1> QED
  BY <1>3, <1>4, <1>5 DEF MemInv

\* The indices that env_free's loops choose have entries.
LEMMA Chosen ==
  ASSUME NEW e, NEW i, i = Least(Pdes(e)), Pdes(e) # {}
  PROVE  /\ i \in UIx /\ mem.tab[Pgdir(e)][i] # Null
         /\ Ptes(e, i) # {} => /\ Least(Ptes(e, i)) \in Ix
                               /\ mem.tab[mem.tab[Pgdir(e)][i].pg][Least(Ptes(e, i))] # Null
<1>1. Pdes(e) \in SUBSET Nat /\ Ptes(e, i) \in SUBSET Nat
  BY EnvAssumption DEF Pdes, Ptes, UIx
<1>2. i \in Pdes(e)
  BY <1>1, LeastIs
<1>3. Ptes(e, i) # {} => Least(Ptes(e, i)) \in Ptes(e, i)
  BY <1>1, LeastIs
<1> QED
  BY <1>2, <1>3 DEF Pdes, Ptes

\* env_free: the next page.
LEMMA StepFreePage ==
  ASSUME EnvInv, FreePage
  PROVE  MemInv'
<1>1. /\ call.fn = "env_free" /\ Pdes(call.e) # {}
      /\ envs' = envs /\ env_free_list' = env_free_list /\ retired' = retired
      /\ curenv' = curenv /\ call' = call /\ lost' = lost
  BY DEF FreePage
<1>2. PICK e, d, i, j : /\ e = call.e /\ d = Pgdir(e) /\ i = Least(Pdes(e))
                        /\ j = Least(Ptes(e, i))
  OBVIOUS
<1>3. Ptes(e, i) # {} /\ mem' = page_remove(mem, d, <<i, j>>)
  BY <1>2 DEF FreePage
<1>4. d \in Dirs
  BY <1>1, <1>2, LoopDir DEF Loops
<1>5. i \in UIx /\ mem.tab[d][i] # Null
  BY <1>1, <1>2, Chosen
<1>6. PICK t : t = mem.tab[d][i].pg
  OBVIOUS
<1>7. j \in Ix /\ mem.tab[t][j] # Null
  BY <1>1, <1>2, <1>3, <1>6, Chosen
<1>8. mem' = remove_at(mem, d, i, j)
  BY <1>3 DEF remove_at, Addr
<1>9. Held(mem, Dirs, lost)
  BY DEF EnvInv, MemInv
<1>10. Held(mem', Dirs, lost) /\ mem'.cr3 = mem.cr3
  BY <1>4, <1>5, <1>6, <1>7, <1>8, <1>9, HeldFreePage
<1> QED
  BY <1>1, <1>10, StepMemory

\* env_free: the next page table, when it is empty.
LEMMA StepFreeTable ==
  ASSUME EnvInv, FreeTable
  PROVE  MemInv'
<1>1. /\ call.fn = "env_free" /\ Pdes(call.e) # {}
      /\ envs' = envs /\ env_free_list' = env_free_list /\ retired' = retired
      /\ curenv' = curenv /\ call' = call /\ lost' = lost
  BY DEF FreeTable
<1>2. PICK e, d, i : e = call.e /\ d = Pgdir(e) /\ i = Least(Pdes(e))
  OBVIOUS
<1>3. PICK t : t = mem.tab[d][i].pg
  OBVIOUS
<1>4. Ptes(e, i) = {} /\ mem' = Dropped(mem, d, i, t)
  BY <1>2, <1>3 DEF FreeTable, Dropped
<1>5. d \in Dirs /\ d # mem.cr3
  BY <1>1, <1>2, LoopDir, OffDirectory DEF Loops
<1>6. i \in UIx /\ mem.tab[d][i] # Null
  BY <1>1, <1>2, Chosen
<1>7. \A j \in Ix : mem.tab[t][j] = Null
  BY <1>2, <1>3, <1>4 DEF Ptes
<1>8. Held(mem, Dirs, lost)
  BY DEF EnvInv, MemInv
<1>9. Held(mem', Dirs, lost) /\ mem'.cr3 = mem.cr3
  BY <1>3, <1>4, <1>5, <1>6, <1>7, <1>8, HeldFreeTable
<1> QED
  BY <1>1, <1>9, StepMemory

\* env_free: the directory, and the slot.
LEMMA StepFreeDirectory ==
  ASSUME EnvInv, FreeDirectory
  PROVE  MemInv'
<1>1. Held(mem, Dirs, lost) /\ OneEach /\ SlotInv /\ CallOK /\ OnDirectory
  BY DEF EnvInv, MemInv
<1>2. PICK e, d : e = call.e /\ d = Pgdir(e)
  OBVIOUS
<1>3. /\ call.fn = "env_free" /\ Pdes(e) = {}
      /\ mem' = page_decref(mem, d)
      /\ envs' = [envs EXCEPT ![e].env_pgdir = Null, ![e].env_status = "FREE"]
      /\ env_free_list' = <<e>> \o env_free_list
      /\ call' = IF call.destroy THEN Call("monitor", Null, <<>>, FALSE) ELSE Kernel
      /\ curenv' = curenv /\ lost' = lost /\ retired' = retired
  BY <1>2 DEF FreeDirectory
<1>4. e \in Live /\ d \in Dirs /\ d # mem.cr3
  BY <1>2, <1>3, LoopDir, OffDirectory DEF Loops
<1>5. \A i \in UIx : mem.tab[d][i] = Null
  BY <1>2, <1>3 DEF Pdes
<1>6. Held(mem', Minus(Dirs, d), lost) /\ mem'.cr3 = mem.cr3
  BY <1>1, <1>3, <1>4, <1>5, HeldFreeDir
<1>7. /\ OneEach' /\ Dirs' = Minus(Dirs, d) /\ Live' = Live \ {e}
      /\ \A x \in Live' : envs'[x] = envs[x]
  BY <1>1, <1>2, <1>3, <1>4, FreeDirs
<1>8. CallOK'
  BY <1>3 DEF CallOK, Kernel, Call
<1>9. OnDirectory'
  <2>1. CASE call.destroy = TRUE
    <3>1. call'.fn = "monitor"
      BY <1>3, <2>1 DEF Call
    <3> QED BY <3>1 DEF OnDirectory
  <2>2. CASE call.destroy # TRUE
    <3>1. call'.fn = "kernel"
      BY <1>1, <1>3, <2>2 DEF CallOK, Kernel, Call
    <3>2. Switched /\ e # curenv
      BY <1>1, <1>2, <1>3, <2>2 DEF OnDirectory
    <3>3. Switched'
      BY <1>3, <1>6, <1>7, <3>2 DEF Switched, Pgdir
    <3> QED BY <3>1, <3>3 DEF OnDirectory
  <2> QED BY <2>1, <2>2
<1> QED
  BY <1>3, <1>6, <1>7, <1>8, <1>9 DEF MemInv

\* A trap: from user mode back to the kernel, on the same directory.
LEMMA StepTrap ==
  ASSUME EnvInv, Trap
  PROVE  MemInv'
<1>1. Held(mem, Dirs, lost) /\ OneEach /\ SlotInv /\ CallOK /\ OnDirectory
  BY DEF EnvInv, MemInv
<1>2. /\ call.fn = "user" /\ call' = Kernel /\ mem' = mem /\ lost' = lost
      /\ envs' = envs /\ env_free_list' = env_free_list /\ retired' = retired
      /\ curenv' = curenv
  BY DEF Trap
<1>3. Live' = Live
  BY <1>1, <1>2, SameSlots
<1>4. OneEach' /\ Dirs' = Dirs
  BY <1>1, <1>2, <1>3, SameDirs
<1>5. CallOK'
  BY <1>2 DEF CallOK, Kernel, Call
<1>6. Switched'
  BY <1>1, <1>2, <1>3 DEF OnDirectory, Switched, Pgdir
<1>7. OnDirectory'
  BY <1>2, <1>6 DEF OnDirectory, Kernel, Call
<1> QED
  BY <1>1, <1>2, <1>4, <1>5, <1>7 DEF MemInv

\* A program writes to its memory.
LEMMA StepUserWrite ==
  ASSUME EnvInv, NEW va \in Va, UserWrite(va, Word)
  PROVE  MemInv'
<1>1. Held(mem, Dirs, lost) /\ OneEach /\ SlotInv /\ CallOK /\ OnDirectory
  BY DEF EnvInv, MemInv
<1>2. /\ call.fn = "user"
      /\ envs' = envs /\ env_free_list' = env_free_list /\ retired' = retired
      /\ curenv' = curenv /\ call' = call /\ lost' = lost
  BY DEF UserWrite
<1>3. PICK c \in Table : c = Content(Word)
  BY ContentType, EnvAssumption
<1>4. PICK x : /\ x = mem.tlb[va] \/ x = translate(mem, mem.cr3, va)
               /\ x # Null /\ x.perm = Perm
               /\ mem' = Written(mem, x.pg, c)
  BY <1>3 DEF UserWrite, Written
<1>5. mem.cr3 \in Dirs
  BY <1>1, <1>2 DEF OnDirectory, Switched, Dirs
<1>6. Held(mem', Dirs, lost) /\ mem'.cr3 = mem.cr3
  BY <1>1, <1>4, <1>5, HeldWrite
<1> QED
  BY <1>2, <1>6, StepMemory

\* Every step keeps the invariant.
LEMMA NextEnv ==
  EnvInv /\ [Next]_vars => EnvInv'
<1> SUFFICES ASSUME EnvInv, [Next]_vars PROVE EnvInv'
  OBVIOUS
<1>1. SlotInv'
  BY NextSlots DEF EnvInv
<1>2. Held(mem, Dirs, lost)
  BY DEF EnvInv, MemInv
<1>3. ASSUME NEW va \in TlbVa, TlbFill(va) PROVE MemInv'
  <2>1. va \in Va
    BY EnvAssumption
  <2>2. /\ mem' = tlb_fill(mem, va)
        /\ envs' = envs /\ env_free_list' = env_free_list /\ retired' = retired
        /\ curenv' = curenv /\ call' = call /\ lost' = lost
    BY <1>3 DEF TlbFill
  <2>3. Held(mem', Dirs, lost) /\ mem'.cr3 = mem.cr3
    BY <1>2, <2>1, <2>2, HeldFill
  <2> QED BY <2>2, <2>3, StepMemory
<1>4. ASSUME UNCHANGED vars PROVE MemInv'
  <2>1. /\ mem' = mem /\ curenv' = curenv /\ call' = call /\ lost' = lost
        /\ envs' = envs /\ env_free_list' = env_free_list /\ retired' = retired
    BY <1>4 DEF vars
  <2>2. Held(mem', Dirs, lost) /\ mem'.cr3 = mem.cr3
    BY <1>2, <2>1
  <2> QED BY <2>1, <2>2, StepMemory
<1>5. ASSUME NEW e \in EnvSlot, EnvFree(e) \/ EnvDestroy(e) PROVE MemInv'
  <2>1. PICK destroy \in BOOLEAN : env_free(e, destroy)
    BY <1>5 DEF EnvFree, EnvDestroy
  <2> QED BY <2>1, StepEnvFree
<1>6. ASSUME NEW parent \in Parent, EnvAlloc(parent) PROVE MemInv'
  BY <1>6, StepAlloc
<1>7. ASSUME NEW prog \in Programs, EnvCreate(prog) PROVE MemInv'
  BY <1>7, StepCreate
<1>8. ASSUME NEW e \in EnvSlot, EnvRun(e) PROVE MemInv'
  BY <1>8, StepRun
<1>9. ASSUME LoadPage \/ LoadStack PROVE MemInv'
  BY <1>9, StepLoadPage, StepLoadStack
<1>10. ASSUME FreePage \/ FreeTable \/ FreeDirectory PROVE MemInv'
  BY <1>10, StepFreePage, StepFreeTable, StepFreeDirectory
<1>11. ASSUME NEW va \in Va, UserWrite(va, Word) PROVE MemInv'
  BY <1>11, StepUserWrite
<1>12. ASSUME Trap PROVE MemInv'
  BY <1>12, StepTrap
<1>13. MemInv'
  BY <1>3, <1>4, <1>5, <1>6, <1>7, <1>8, <1>9, <1>10, <1>11, <1>12 DEF Next, InKernel
<1> QED
  BY <1>1, <1>13 DEF EnvInv

\* The invariant holds of the specification.
LEMMA EnvInvariance ==
  Spec => []EnvInv
BY InitEnv, NextEnv, PTL DEF Spec

----------------------------------------------------------------------------
(* What the invariant says of programs and of the kernel *)

\* The uses of the frames that the invariant speaks of.
Uses(kd, up, at) == Good(mem, kd, up, at) /\ DirSet(kd) = Dirs /\ LostSet(kd) = lost

\* The pages of an environment are those whose use leads up to its directory.
LEMMA OwnedAre ==
  ASSUME NEW kd, NEW up, NEW at, Uses(kd, up, at), NEW e \in Live
  PROVE  /\ Pgdir(e) \in Frame /\ kd[Pgdir(e)] = "dir"
         /\ UserTables(e) = {f \in Frame : kd[f] = "table" /\ up[f] = Pgdir(e)}
         /\ UserPages(e)  = {f \in Frame : /\ kd[f] = "page" /\ kd[up[f]] = "table"
                                           /\ up[up[f]] = Pgdir(e)}
<1>1. Good(mem, kd, up, at) /\ up \in [Frame -> Frame] /\ at \in [Frame -> Ix]
  BY DEF Uses, Good, WellTyped
<1>2. PICK d \in Frame : d = Pgdir(e) /\ kd[d] = "dir"
  BY DEF Uses, DirSet, Dirs
<1>3. \A i \in UIx : mem.tab[d][i] # Null =>
        kd[mem.tab[d][i].pg] = "table" /\ up[mem.tab[d][i].pg] = d
  BY <1>1, <1>2 DEF Good, DirNames
<1>4. \A f \in Frame : kd[f] = "table" =>
        /\ at[f] \in UIx /\ kd[up[f]] = "dir"
        /\ mem.tab[up[f]][at[f]] # Null /\ mem.tab[up[f]][at[f]].pg = f
  BY <1>1 DEF Good, Named
<1>5. UserTables(e) = {f \in Frame : kd[f] = "table" /\ up[f] = d}
  BY <1>2, <1>3, <1>4 DEF UserTables
<1>6. \A t \in Frame, j \in Ix : kd[t] = "table" /\ mem.tab[t][j] # Null =>
        kd[mem.tab[t][j].pg] = "page" /\ up[mem.tab[t][j].pg] = t
  BY <1>1 DEF Good, TableNames
<1>7. \A f \in Frame : kd[f] = "page" =>
        /\ kd[up[f]] = "table" /\ up[f] \in Frame /\ at[f] \in Ix
        /\ mem.tab[up[f]][at[f]] # Null /\ mem.tab[up[f]][at[f]].pg = f
  BY <1>1 DEF Good, Named
<1>8. UserPages(e) = {f \in Frame : kd[f] = "page" /\ kd[up[f]] = "table" /\ up[up[f]] = d}
  <2>1. ASSUME NEW f \in Frame, NEW t \in UserTables(e), NEW j \in Ix,
               mem.tab[t][j] # Null, mem.tab[t][j].pg = f
        PROVE  kd[f] = "page" /\ kd[up[f]] = "table" /\ up[up[f]] = d
    BY <1>5, <1>6, <2>1
  <2>2. ASSUME NEW f \in Frame, kd[f] = "page", kd[up[f]] = "table", up[up[f]] = d
        PROVE  \E t \in UserTables(e), j \in Ix : mem.tab[t][j] # Null /\ mem.tab[t][j].pg = f
    <3>1. up[f] \in UserTables(e)
      BY <1>5, <1>7, <2>2
    <3> QED BY <1>7, <2>2, <3>1
  <2> QED BY <2>1, <2>2 DEF UserPages
<1> QED
  BY <1>2, <1>5, <1>8

\* Environments share no page.
LEMMA InvPrivate ==
  EnvInv => Private
<1> SUFFICES ASSUME EnvInv, NEW e \in Live
             PROVE  /\ Owned(e) \subseteq Page \ KTables
                    /\ Pgdir(e) \notin UserTables(e) \cup UserPages(e)
                    /\ UserTables(e) \cap UserPages(e) = {}
                    /\ \A f \in Owned(e) : mem.pp_ref[f] = 1
                    /\ \A f \in Live \ {e} : Owned(e) \cap Owned(f) = {}
  BY DEF Private
<1>1. PICK kd, up, at : Uses(kd, up, at)
  BY DEF EnvInv, MemInv, Held, Uses
<1>2. \A f \in Frame : /\ kd[f] = "kernel" <=> f \in Root \cup KTables
                       /\ kd[f] \in {"dir", "table", "page"} => mem.pp_ref[f] = 1
  BY <1>1 DEF Uses, Good, KernelKept, Counted
<1>3. ASSUME NEW x \in Live
      PROVE  /\ \A f \in Owned(x) : f \in Frame /\ kd[f] \in {"dir", "table", "page"}
             /\ \A f \in Owned(x) : kd[f] = "dir" => f = Pgdir(x)
             /\ \A f \in Owned(x) : kd[f] = "table" => up[f] = Pgdir(x)
             /\ \A f \in Owned(x) : kd[f] = "page" => up[up[f]] = Pgdir(x)
  BY <1>1, <1>3, OwnedAre DEF Owned
<1>4. Owned(e) \subseteq Page \ KTables /\ \A f \in Owned(e) : mem.pp_ref[f] = 1
  BY <1>2, <1>3 DEF Page
<1>5. Pgdir(e) \notin UserTables(e) \cup UserPages(e) /\ UserTables(e) \cap UserPages(e) = {}
  BY <1>1, OwnedAre
<1>6. ASSUME NEW f \in Live \ {e} PROVE Owned(e) \cap Owned(f) = {}
  <2>1. Pgdir(e) # Pgdir(f)
    BY <1>6 DEF EnvInv, MemInv, OneEach
  <2> SUFFICES ASSUME NEW x, x \in Owned(e), x \in Owned(f) PROVE FALSE
    OBVIOUS
  <2> QED BY <1>3, <2>1
<1> QED
  BY <1>4, <1>5, <1>6

\* The kernel's part of the address space is the same for all.
LEMMA InvShared ==
  EnvInv => KernelShared
<1> SUFFICES ASSUME EnvInv PROVE KernelShared
  OBVIOUS
<1>1. PICK kd, up, at : Uses(kd, up, at)
  BY DEF EnvInv, MemInv, Held, Uses
<1>2. mem.tab[kern_pgdir] = kernel_entries /\ \A t \in KTables : mem.tab[t] = KernMap[t] /\ mem.pp_ref[t] = 1
  BY <1>1 DEF Uses, Good, KernelKept
<1>3. ASSUME NEW e \in Live, NEW i \in Ix \ UIx
      PROVE  mem.tab[Pgdir(e)][i] = IF i = UVPT THEN [pg |-> Pgdir(e), perm |-> {"U"}]
                                    ELSE mem.tab[kern_pgdir][i]
  <2>1. PICK d \in Frame : d = Pgdir(e) /\ kd[d] = "dir"
    BY <1>1, OwnedAre
  <2>2. mem.tab[d][i] = IF i = UVPT THEN [pg |-> d, perm |-> {"U"}] ELSE kernel_entries[i]
    BY <1>1, <2>1 DEF Uses, Good, Upper
  <2> QED BY <1>2, <2>1, <2>2
<1> QED
  BY <1>2, <1>3 DEF KernelShared

\* The processor is never on a directory that is gone.
LEMMA InvCr3 ==
  EnvInv => Cr3Live
BY HeldTypes DEF EnvInv, MemInv, Cr3Live, Dirs

\* A program reaches only pages of its own or what the kernel shows everyone,
\* and can write only its own.
LEMMA InvIsolation ==
  EnvInv => Isolation
<1> SUFFICES ASSUME EnvInv, call.fn = "user"
             PROVE  /\ curenv \in Live /\ envs[curenv].env_status = "RUNNING"
                    /\ mem.cr3 = Pgdir(curenv)
                    /\ \A va \in Va : \A x \in {mem.tlb[va], translate(mem, mem.cr3, va)} \ {Null} :
                         "U" \in x.perm =>
                           /\ "W" \in x.perm => x.pg \in UserPages(curenv)
                           /\ x.pg \in Owned(curenv) \cup KTables \/ va[1] \in DOMAIN KernTab
  BY DEF Isolation
<1>1. curenv \in Live /\ envs[curenv].env_status = "RUNNING" /\ mem.cr3 = Pgdir(curenv)
  BY DEF EnvInv, MemInv, OnDirectory, Switched
<1>2. PICK kd, up, at : Uses(kd, up, at)
  BY DEF EnvInv, MemInv, Held, Uses
<1>3. Good(mem, kd, up, at) /\ mem \in Mem
  BY <1>2 DEF Uses, Good, WellTyped
<1>4. PICK d \in Frame : d = Pgdir(curenv) /\ kd[d] = "dir"
  BY <1>1, <1>2, OwnedAre
<1>5. ASSUME NEW va \in Va, NEW x, x = mem.tlb[va] \/ x = translate(mem, mem.cr3, va),
             x # Null, "U" \in x.perm
      PROVE  /\ "W" \in x.perm => x.pg \in UserPages(curenv)
             /\ x.pg \in Owned(curenv) \cup KTables \/ va[1] \in DOMAIN KernTab
  <2>1. x = translate(mem, d, va)
    BY <1>1, <1>3, <1>4, <1>5 DEF Good, Cached
  <2>2. PICK i \in Ix, j \in Ix : va = Addr(i, j) /\ i = va[1]
    BY DEF Va, Addr
  <2>3. x.perm \subseteq Perm
    <3>1. x \in Entry
      BY <1>1, <1>3, <1>4, <1>5, <2>1, TranslateType
    <3> QED BY <3>1 DEF Entry
  <2>4. PICK t : t = mem.tab[d][i].pg
    OBVIOUS
  <2>5. /\ x.pg \in Frame
        /\ \/ /\ i \in UIx /\ kd[t] = "table" /\ up[t] = d
              /\ kd[x.pg] = "page" /\ up[x.pg] = t
           \/ /\ "W" \notin x.perm
              /\ x.pg = d \/ (kd[x.pg] = "table" /\ up[x.pg] = d) \/ x.pg \in KTables
           \/ i \in DOMAIN KernTab /\ x.perm # Perm
    BY <1>3, <1>4, <1>5, <2>1, <2>2, <2>4, Reached
  <2>6. /\ \A f \in Frame : kd[f] = "page" /\ kd[up[f]] = "table" /\ up[up[f]] = d => f \in UserPages(curenv)
        /\ \A f \in Frame : kd[f] = "table" /\ up[f] = d => f \in UserTables(curenv)
    BY <1>1, <1>2, <1>4, OwnedAre
  <2> QED BY <1>4, <1>5, <2>2, <2>3, <2>5, <2>6 DEF Owned, Perm
<1> QED
  BY <1>1, <1>5

\* The types.
LEMMA InvType ==
  EnvInv => TypeOK
<1> SUFFICES ASSUME EnvInv PROVE TypeOK
  OBVIOUS
<1>1. SlotInv /\ CallOK /\ Held(mem, Dirs, lost)
  BY DEF EnvInv, MemInv
<1>2. mem \in Mem /\ lost \subseteq Page /\ Dirs \subseteq Frame
  BY <1>1, HeldTypes
<1>3. PICK D : envs \in [EnvSlot -> SlotOf(D)]
  BY <1>1 DEF SlotInv, SlotsGood
<1>4. ASSUME NEW e \in EnvSlot PROVE envs[e].env_pgdir \in Frame \cup {Null}
  <2>1. SlotGood(envs[e], e, retired[e], e \in Live)
    BY <1>1, LiveIs DEF SlotInv, SlotsGood
  <2>2. e \in Live => envs[e].env_pgdir \in Frame
    BY <1>2 DEF Dirs, Pgdir
  <2> QED BY <2>1, <2>2 DEF SlotGood
<1>5. \A e \in EnvSlot : envs[e] \in Slot
  BY <1>3, <1>4 DEF SlotOf, Slot
<1>6. envs \in [EnvSlot -> Slot]
  BY <1>3, <1>5
<1>7. /\ env_free_list \in Seq(EnvSlot) /\ curenv \in EnvSlot \cup {Null}
      /\ retired \in [EnvSlot -> Seq(1 .. (IDMOD \div 2) - 1)]
  BY <1>1 DEF SlotInv, SlotsGood, IdRange
<1>8. call \in [fn      : {"kernel", "user", "load_icode", "env_free", "monitor", "panic"},
                e       : EnvSlot \cup {Null},
                todo    : Seq(ImagePage),
                destroy : BOOLEAN]
  BY <1>1 DEF SlotInv, CallOK, Call
<1> QED
  BY <1>2, <1>6, <1>7, <1>8 DEF TypeOK

\* The frames on the free list are those that nobody has.
LEMMA InvAccounted ==
  EnvInv => PagesAccounted
<1> SUFFICES ASSUME EnvInv PROVE PagesAccounted
  OBVIOUS
<1>1. PICK kd, up, at : Uses(kd, up, at)
  BY DEF EnvInv, MemInv, Held, Uses
<1>2. /\ kd \in [Frame -> Kind] /\ up \in [Frame -> Frame] /\ IsFreeList(mem, FreeSet(kd))
      /\ DirSet(kd) = Dirs /\ LostSet(kd) = lost
  BY <1>1 DEF Uses, Good, WellTyped
<1>3. PICK O : O = UNION {Owned(e) : e \in Live}
  OBVIOUS
<1>4. \A f \in Frame : /\ kd[f] = "kernel" <=> f \in Root \cup KTables
                       /\ kd[f] = "table" => kd[up[f]] = "dir"
                       /\ kd[f] = "page" => kd[up[f]] = "table"
  BY <1>1 DEF Uses, Good, KernelKept, Named
<1>5. ASSUME NEW f \in O PROVE f \in Frame /\ kd[f] \in {"dir", "table", "page"}
  <2>1. PICK e \in Live : f \in Owned(e)
    BY <1>3
  <2> QED BY <1>1, <2>1, OwnedAre DEF Owned
<1>6. ASSUME NEW d \in Frame, kd[d] = "dir"
      PROVE  \E e \in Live : Pgdir(e) = d
  BY <1>2, <1>6 DEF DirSet, Dirs
<1>7. ASSUME NEW f \in Frame, kd[f] \in {"dir", "table", "page"} PROVE f \in O
  <2>1. PICK d \in Frame : /\ kd[d] = "dir"
                           /\ kd[f] = "dir" => d = f
                           /\ kd[f] = "table" => d = up[f]
                           /\ kd[f] = "page" => kd[up[f]] = "table" /\ d = up[up[f]]
    BY <1>2, <1>4, <1>7
  <2>2. PICK e \in Live : Pgdir(e) = d
    BY <1>6, <2>1
  <2>3. f \in Owned(e)
    BY <1>1, <1>7, <2>1, <2>2, OwnedAre DEF Owned
  <2> QED BY <1>3, <2>3
<1>8. \A f \in Frame : f \in lost <=> kd[f] = "lost"
  BY <1>2 DEF LostSet
<1>9. FreeSet(kd) = Page \ (KTables \cup lost \cup O)
  BY <1>2, <1>4, <1>5, <1>7, <1>8 DEF FreeSet, Page, Kind
<1>10. IsFreeChain(mem, FreeSet(kd))
  <2>1. FreeSet(kd) \in SUBSET Frame
    BY DEF FreeSet
  <2> QED BY <1>2, <2>1, ListIsChain
<1> QED
  BY <1>3, <1>9, <1>10 DEF PagesAccounted

----------------------------------------------------------------------------
(* The loops of load_icode and env_free come closer to their end *)

\* What env_free still has to clear of the directory d: its entries below UTOP
\* and the entries of their tables.
Entries(m, d) == {i \in UIx : m.tab[d][i] # Null}
Leaves(m, d)  == {va \in Va : /\ va[1] \in Entries(m, d)
                              /\ m.tab[m.tab[d][va[1]].pg][va[2]] # Null}
Size(m, d)    == Cardinality(Entries(m, d)) + Cardinality(Leaves(m, d))

\* There are finitely many of either.
LEMMA SizeFinite ==
  ASSUME NEW m, NEW d
  PROVE  /\ IsFiniteSet(Entries(m, d)) /\ IsFiniteSet(Leaves(m, d))
         /\ Cardinality(Entries(m, d)) \in Nat /\ Cardinality(Leaves(m, d)) \in Nat
<1>1. IsFiniteSet(Ix)
  OBVIOUS
<1>2. IsFiniteSet(Va)
  BY <1>1, FS_Product DEF Va
<1>3. Entries(m, d) \in SUBSET Ix /\ Leaves(m, d) \in SUBSET Va
  BY DEF Entries, Leaves, UIx
<1>4. IsFiniteSet(Entries(m, d)) /\ IsFiniteSet(Leaves(m, d))
  BY <1>1, <1>2, <1>3, FS_Subset
<1> QED
  BY <1>4, FS_CardinalityType

\* The tables of a directory are none of its frames: two entries have two
\* tables, and neither is the directory.
LEMMA TablesApart ==
  ASSUME NEW m, NEW kd, NEW up, NEW at, NEW d, NEW i, InDir(m, kd, up, at, d, i),
         NEW t, HasTable(m, d, i, t)
  PROVE  /\ t # d
         /\ \A x \in UIx : m.tab[d][x] # Null =>
              m.tab[d][x].pg \in Frame /\ m.tab[d][x].pg # d /\ (x # i => m.tab[d][x].pg # t)
<1>1. Good(m, kd, up, at) /\ d \in Frame /\ kd[d] = "dir" /\ i \in UIx /\ m \in Mem
  BY DEF InDir, Good, WellTyped
<1>2. \A x \in UIx : m.tab[d][x] # Null =>
        kd[m.tab[d][x].pg] = "table" /\ at[m.tab[d][x].pg] = x
  BY <1>1 DEF Good, DirNames
<1>3. \A x \in UIx : m.tab[d][x] # Null => m.tab[d][x].pg \in Frame
  BY <1>1, EntryFrames DEF UIx
<1> QED
  BY <1>1, <1>2, <1>3 DEF HasTable

\* One page less.
LEMMA PageLess ==
  ASSUME NEW m, NEW kd, NEW up, NEW at, NEW d, NEW i, InDir(m, kd, up, at, d, i),
         NEW t, HasTable(m, d, i, t), NEW j \in Ix, m.tab[t][j] # Null
  PROVE  Size(remove_at(m, d, i, j), d) < Size(m, d)
<1>1. PICK n : n = remove_at(m, d, i, j)
  OBVIOUS
<1>2. /\ n.tab[t][j] = Null /\ n.tab[d] = m.tab[d]
      /\ \A x \in Ix : x # j => n.tab[t][x] = m.tab[t][x]
      /\ \A f \in Frame : f # t => n.tab[f] = m.tab[f]
  BY <1>1, RemoveGood
<1>3. Entries(n, d) = Entries(m, d)
  BY <1>2 DEF Entries
<1>4. /\ i \in UIx /\ i \in Ix /\ t \in Frame /\ m.tab[d][i] # Null /\ m.tab[d][i].pg = t
  BY DEF InDir, HasTable, UIx
<1>5. PICK v \in Va : v[1] = i /\ v[2] = j /\ v = <<i, j>>
  BY <1>4 DEF Va
<1>6. v \in Leaves(m, d)
  BY <1>4, <1>5 DEF Leaves, Entries
<1>7. ASSUME NEW w \in Va
      PROVE  w \in Leaves(n, d) <=> w \in Leaves(m, d) /\ w # v
  <2>1. w[1] \in Ix /\ w[2] \in Ix /\ (w = v <=> w[1] = i /\ w[2] = j)
    BY <1>5 DEF Va
  <2>2. CASE w[1] \notin Entries(m, d)
    BY <1>3, <2>2 DEF Leaves
  <2>3. CASE w[1] \in Entries(m, d)
    <3>1. w[1] \in UIx /\ m.tab[d][w[1]] # Null
      BY <2>3 DEF Entries
    <3>2. PICK x, y, u : x \in UIx /\ y \in Ix /\ x = w[1] /\ y = w[2] /\ u = m.tab[d][x].pg
      BY <2>1, <3>1
    <3>3. u \in Frame /\ (x # i => u # t) /\ (x = i => u = t)
      BY <1>4, <3>1, <3>2, TablesApart
    <3>4. w \in Leaves(n, d) <=> n.tab[u][y] # Null
      BY <1>2, <1>3, <2>3, <3>2 DEF Leaves
    <3>5. w \in Leaves(m, d) <=> m.tab[u][y] # Null
      BY <2>3, <3>2 DEF Leaves
    <3> QED BY <1>2, <2>1, <3>2, <3>3, <3>4, <3>5
  <2> QED BY <2>2, <2>3
<1>8. Leaves(n, d) = Leaves(m, d) \ {v}
  BY <1>7 DEF Leaves
<1>9. Cardinality(Leaves(n, d)) = Cardinality(Leaves(m, d)) - 1
  BY ZenonT(30), <1>6, <1>8, SizeFinite, FS_RemoveElement
<1> QED
  BY <1>1, <1>3, <1>9, SizeFinite DEF Size

\* One table less, and no page more.
LEMMA TableLess ==
  ASSUME NEW m, NEW kd, NEW up, NEW at, NEW d, NEW i, InDir(m, kd, up, at, d, i),
         d # m.cr3, NEW t, HasTable(m, d, i, t), \A j \in Ix : m.tab[t][j] = Null
  PROVE  Size(Dropped(m, d, i, t), d) < Size(m, d)
<1>1. PICK n : n = Dropped(m, d, i, t)
  OBVIOUS
<1>2. /\ n.tab[d][i] = Null
      /\ \A x \in Ix : x # i => n.tab[d][x] = m.tab[d][x]
      /\ \A f \in Frame : f # d => n.tab[f] = m.tab[f]
  BY <1>1, DropTableGood
<1>3. /\ i \in UIx /\ UIx \subseteq Ix /\ t \in Frame /\ m.tab[d][i] # Null /\ m.tab[d][i].pg = t
  BY DEF InDir, HasTable, UIx
<1>4. Entries(n, d) = Entries(m, d) \ {i} /\ i \in Entries(m, d)
  BY <1>2, <1>3 DEF Entries
<1>5. ASSUME NEW w \in Va
      PROVE  w \in Leaves(n, d) <=> w \in Leaves(m, d)
  <2>1. w[1] \in Ix /\ w[2] \in Ix
    BY DEF Va
  <2>2. CASE w[1] \notin Entries(m, d)
    BY <1>4, <2>2 DEF Leaves
  <2>3. CASE w[1] \in Entries(m, d)
    <3>1. w[1] \in UIx /\ m.tab[d][w[1]] # Null
      BY <2>3 DEF Entries
    <3>2. PICK x, y, u : x \in UIx /\ y \in Ix /\ x = w[1] /\ y = w[2] /\ u = m.tab[d][x].pg
      BY <2>1, <3>1
    <3>3. u \in Frame /\ u # d /\ (x = i => u = t)
      BY <1>3, <3>1, <3>2, TablesApart
    <3>4. w \in Leaves(m, d) <=> m.tab[u][y] # Null
      BY <2>3, <3>2 DEF Leaves
    <3>5. CASE x = i
      BY <1>4, <3>2, <3>3, <3>4, <3>5 DEF Leaves
    <3>6. CASE x # i
      <4>1. n.tab[d][x] = m.tab[d][x] /\ x \in Entries(n, d) /\ n.tab[u] = m.tab[u]
        BY <1>2, <1>3, <1>4, <2>3, <3>2, <3>3, <3>6
      <4> QED BY <3>2, <3>4, <4>1 DEF Leaves
    <3> QED BY <3>5, <3>6
  <2> QED BY <2>2, <2>3
<1>6. Leaves(n, d) = Leaves(m, d)
  BY <1>5 DEF Leaves
<1>7. Cardinality(Entries(n, d)) = Cardinality(Entries(m, d)) - 1
  BY <1>4, SizeFinite, FS_RemoveElement
<1> QED
  BY <1>1, <1>6, <1>7, SizeFinite DEF Size

\* What Work counts in env_free.
LEMMA WorkIs ==
  ASSUME NEW e, e = call.e, call.fn = "env_free"
  PROVE  Work = Size(mem, Pgdir(e)) /\ Pdes(e) = Entries(mem, Pgdir(e))
<1>1. Pdes(e) = Entries(mem, Pgdir(e))
  BY DEF Pdes, Entries
<1>2. {va \in Va : va[1] \in Pdes(e) /\ va[2] \in Ptes(e, va[1])} = Leaves(mem, Pgdir(e))
  BY <1>1 DEF Leaves, Ptes, Va
<1> QED
  BY <1>1, <1>2 DEF Work, Size

\* The same after a step that leaves the call and the slots alone.
LEMMA WorkNext ==
  ASSUME NEW e, e = call.e, call.fn = "env_free", envs' = envs, call' = call,
         NEW d, d = Pgdir(e)
  PROVE  Work' = Size(mem', d)
<1>1. call'.fn = "env_free" /\ call'.e = e /\ envs'[e].env_pgdir = d
  BY DEF Pgdir
<1>2. Pdes(call.e)' = Entries(mem', d)
  BY <1>1 DEF Pdes, Entries, Pgdir
<1>3. {va \in Va : va[1] \in Pdes(call.e) /\ va[2] \in Ptes(call.e, va[1])}' = Leaves(mem', d)
  BY <1>1, <1>2 DEF Leaves, Ptes, Va, Pgdir
<1> QED
  BY <1>1, <1>2, <1>3 DEF Work, Size

\* A step of a loop comes nearer its end, or is none of the loop's.
Nearer == Work' < Work \/ ([mem EXCEPT !.tlb = mem'.tlb] = mem' /\ call' = call)

\* env_free clears a page of the first table ...
LEMMA PageNearer ==
  ASSUME EnvInv, FreePage
  PROVE  Nearer
<1>1. /\ call.fn = "env_free" /\ Pdes(call.e) # {}
      /\ envs' = envs /\ call' = call
  BY DEF FreePage
<1>2. PICK e, d, i, j : /\ e = call.e /\ d = Pgdir(e) /\ i = Least(Pdes(e))
                        /\ j = Least(Ptes(e, i))
  OBVIOUS
<1>3. Ptes(e, i) # {} /\ mem' = page_remove(mem, d, <<i, j>>)
  BY <1>2 DEF FreePage
<1>4. d \in Dirs
  BY <1>1, <1>2, LoopDir DEF Loops
<1>5. i \in UIx /\ i \in Ix /\ mem.tab[d][i] # Null
  BY <1>1, <1>2, Chosen DEF UIx
<1>6. PICK t : t = mem.tab[d][i].pg
  OBVIOUS
<1>7. j \in Ix /\ mem.tab[t][j] # Null
  BY <1>1, <1>2, <1>3, <1>6, Chosen
<1>8. mem' = remove_at(mem, d, i, j)
  BY <1>3 DEF remove_at, Addr
<1>9. PICK kd, up, at : Good(mem, kd, up, at) /\ DirSet(kd) = Dirs
  BY DEF EnvInv, MemInv, Held
<1>10. InDir(mem, kd, up, at, d, i) /\ mem \in Mem /\ d \in Frame
  BY <1>4, <1>5, <1>9 DEF InDir, DirSet, Good, WellTyped
<1>11. HasTable(mem, d, i, t)
  BY <1>5, <1>6, <1>10, EntryFrames DEF HasTable
<1>12. Size(remove_at(mem, d, i, j), d) < Size(mem, d)
  BY <1>7, <1>10, <1>11, PageLess
<1>13. Work = Size(mem, d) /\ Work' = Size(mem', d)
  BY <1>1, <1>2, WorkIs, WorkNext
<1> QED
  BY <1>8, <1>12, <1>13 DEF Nearer

\* ... or drops the table when it is empty.
LEMMA TableNearer ==
  ASSUME EnvInv, FreeTable
  PROVE  Nearer
<1>1. /\ call.fn = "env_free" /\ Pdes(call.e) # {}
      /\ envs' = envs /\ call' = call
  BY DEF FreeTable
<1>2. PICK e, d, i : e = call.e /\ d = Pgdir(e) /\ i = Least(Pdes(e))
  OBVIOUS
<1>3. PICK t : t = mem.tab[d][i].pg
  OBVIOUS
<1>4. Ptes(e, i) = {} /\ mem' = Dropped(mem, d, i, t)
  BY <1>2, <1>3 DEF FreeTable, Dropped
<1>5. d \in Dirs /\ d # mem.cr3
  BY <1>1, <1>2, LoopDir, OffDirectory DEF Loops
<1>6. i \in UIx /\ i \in Ix /\ mem.tab[d][i] # Null
  BY <1>1, <1>2, Chosen DEF UIx
<1>7. \A j \in Ix : mem.tab[t][j] = Null
  BY <1>2, <1>3, <1>4 DEF Ptes
<1>8. PICK kd, up, at : Good(mem, kd, up, at) /\ DirSet(kd) = Dirs
  BY DEF EnvInv, MemInv, Held
<1>9. InDir(mem, kd, up, at, d, i) /\ mem \in Mem /\ d \in Frame
  BY <1>5, <1>6, <1>8 DEF InDir, DirSet, Good, WellTyped
<1>10. HasTable(mem, d, i, t)
  BY <1>3, <1>6, <1>9, EntryFrames DEF HasTable
<1>11. Size(Dropped(mem, d, i, t), d) < Size(mem, d)
  BY <1>5, <1>7, <1>9, <1>10, TableLess
<1>12. Work = Size(mem, d) /\ Work' = Size(mem', d)
  BY <1>1, <1>2, WorkIs, WorkNext
<1> QED
  BY <1>4, <1>11, <1>12 DEF Nearer

\* load_icode has a page less to map, unless it panics.
LEMMA LoadNearer ==
  ASSUME EnvInv, LoadPage, call'.fn = call.fn
  PROVE  Nearer
<1>1. CallOK /\ call.fn = "load_icode" /\ call.todo # <<>>
  BY DEF EnvInv, MemInv, LoadPage
<1>2. \/ call' = [call EXCEPT !.todo = Tail(@)]
      \/ call' = Call("panic", Null, <<>>, FALSE)
  BY DEF LoadPage
<1>3. call' = [call EXCEPT !.todo = Tail(@)]
  BY <1>1, <1>2 DEF Call
<1>4. call.todo \in Seq(ImagePage) /\ Len(Tail(call.todo)) < Len(call.todo)
  BY <1>1 DEF CallOK
<1>5. call'.todo = Tail(call.todo) /\ call'.fn = "load_icode"
  BY <1>1, <1>3 DEF EnvInv, SlotInv, Call
<1>6. Work = Len(call.todo) /\ Work' = Len(call'.todo)
  BY <1>1, <1>5 DEF Work
<1> QED
  BY <1>4, <1>5, <1>6 DEF Nearer

\* Only the TLB moves in between.
LEMMA FillNearer ==
  ASSUME EnvInv, call' = call, NEW va \in Va, mem' = tlb_fill(mem, va) \/ mem' = mem
  PROVE  Nearer
<1>1. mem \in Mem
  BY HeldTypes DEF EnvInv, MemInv
<1>2. [mem EXCEPT !.tlb = mem'.tlb] = mem'
  BY <1>1 DEF Mem, tlb_fill
<1> QED
  BY <1>2 DEF Nearer

\* Every step of either loop.
LEMMA NextNearer ==
  ASSUME EnvInv, [Next]_vars, call.fn \in {"load_icode", "env_free"}, call'.fn = call.fn
  PROVE  Nearer
<1>1. CASE LoadPage \/ FreePage \/ FreeTable
  BY <1>1, LoadNearer, PageNearer, TableNearer
<1>2. CASE LoadStack
  <2>1. /\ call.fn = "load_icode"
        /\ call' = Call("panic", Null, <<>>, FALSE) \/ call' = Kernel
    BY <1>2 DEF LoadStack
  <2> QED BY <2>1 DEF Kernel, Call
<1>3. CASE FreeDirectory
  <2>1. /\ call.fn = "env_free"
        /\ call' = Call("monitor", Null, <<>>, FALSE) \/ call' = Kernel
    BY <1>3 DEF FreeDirectory
  <2> QED BY <2>1 DEF Kernel, Call
<1>4. ASSUME NEW va \in TlbVa, TlbFill(va) PROVE Nearer
  <2>1. va \in Va
    BY EnvAssumption
  <2> QED BY <1>4, <2>1, FillNearer DEF TlbFill
<1>5. CASE UNCHANGED vars
  <2>1. mem' = mem /\ call' = call
    BY <1>5 DEF vars
  <2>2. PICK va : va \in Va
    BY EnvAssumption DEF Va, UIx
  <2> QED BY <2>1, <2>2, FillNearer
<1>6. ASSUME NEW e \in EnvSlot, EnvRun(e) \/ EnvFree(e) \/ EnvDestroy(e) PROVE Nearer
  BY <1>6 DEF EnvRun, EnvFree, EnvDestroy, env_free, Kernel, Call
<1>7. ASSUME NEW parent \in Parent, EnvAlloc(parent) PROVE Nearer
  BY <1>7 DEF EnvAlloc, Kernel, Call
<1>8. ASSUME NEW prog \in Programs, EnvCreate(prog) PROVE Nearer
  BY <1>8 DEF EnvCreate, Kernel, Call
<1>9. CASE Trap \/ \E va \in Va : UserWrite(va, Word)
  BY <1>9 DEF Trap, UserWrite
<1> QED
  BY <1>1, <1>2, <1>3, <1>4, <1>5, <1>6, <1>7, <1>8, <1>9 DEF Next, InKernel

\* Every variable keeps its type, through every interleaving of creations,
\* teardowns, runs and writes.
THEOREM TypesCorrect ==
  Spec => []TypeOK
BY EnvInvariance, InvType, PTL

\* No two environments share a page, none has a page of the kernel's, and each
\* page is counted once: at any point of load_icode and env_free.
THEOREM EnvironmentsPrivate ==
  Spec => []Private
BY EnvInvariance, InvPrivate, PTL

\* Above UTOP all address spaces are the kernel's, which env_setup_vm copies and
\* nothing writes afterwards.
THEOREM KernelPartShared ==
  Spec => []KernelShared
BY EnvInvariance, InvShared, PTL

\* The processor never runs on a directory that env_free has given back.
THEOREM DirectoryLive ==
  Spec => []Cr3Live
BY EnvInvariance, InvCr3, PTL

\* In user mode, through the tables or through what is cached, a program reaches
\* only its own pages and what the kernel shows everyone, and writes only its
\* own pages: never a page table.
THEOREM ProgramsIsolated ==
  Spec => []Isolation
BY EnvInvariance, InvIsolation, PTL

\* No page is lost but for those that region_alloc drops, and none that is in
\* use is on the free list, at any point of load_icode and env_free.
THEOREM NoPageLost ==
  Spec => []PagesAccounted
BY EnvInvariance, InvAccounted, PTL

\* load_icode and env_free come to an end: each step of their loops leaves less
\* to do, or changes no more than what the processor has cached.
THEOREM LoopsProgress ==
  Spec => LoopsEnd
<1>1. EnvInv /\ [Next]_vars =>
        [call.fn \in {"load_icode", "env_free"} /\ call'.fn = call.fn =>
           \/ Work' < Work
           \/ [mem EXCEPT !.tlb = mem'.tlb] = mem' /\ call' = call]_vars
  BY NextNearer DEF Nearer
<1> QED
  BY <1>1, EnvInvariance, PTL DEF Spec, LoopsEnd

=============================================================================
