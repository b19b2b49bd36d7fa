----------------------------- MODULE PmapLemmas -----------------------------
(***************************************************************************)
(* Lemmas about the operators of PmapOps, for any number of pages and      *)
(* entries.  They are shared by the proofs about the modules that compose  *)
(* those operators.                                                        *)
(***************************************************************************)
EXTENDS PmapOps, FiniteSetTheorems, FunctionTheorems, SequenceTheorems, NaturalsInduction,
        WellFoundedInduction, TLAPS

USE PmapAssumption

----------------------------------------------------------------------------
(* The free list *)

\* Pushing a page that is not on the list, as page_free does, adds it.
LEMMA FreeListPush ==
  ASSUME NEW m, NEW m2, NEW F \in SUBSET Frame, NEW p \in Frame \ F,
         m.pp_link \in [Frame -> Frame \cup {Null}],
         IsFreeList(m, F),
         m2.page_free_list = p,
         m2.pp_link = [m.pp_link EXCEPT ![p] = m.page_free_list]
  PROVE  IsFreeList(m2, F \cup {p})
<1> DEFINE n == Cardinality(F)
           G == F \cup {p}
<1>1. IsFiniteSet(F) /\ n \in Nat
  BY FS_Subset, FS_CardinalityType
<1>2. Cardinality(G) = n + 1
  BY <1>1, FS_AddElement
<1>3. PICK s \in [1 .. n -> F] :
        /\ \A i, j \in 1 .. n : s[i] = s[j] => i = j
        /\ F = {s[i] : i \in 1 .. n}
        /\ m.page_free_list = IF n = 0 THEN Null ELSE s[1]
        /\ \A i \in 1 .. n : m.pp_link[s[i]] = IF i = n THEN Null ELSE s[i + 1]
  BY DEF IsFreeList
<1> DEFINE t == [i \in 1 .. n + 1 |-> IF i = 1 THEN p ELSE s[i - 1]]
<1> HIDE DEF n
<1>4. \A i \in 1 .. n : s[i] \in F /\ t[i + 1] = s[i]
  BY <1>1, <1>3
<1>5. t \in [1 .. n + 1 -> G] /\ t[1] = p
  BY <1>1, <1>3
<1>6. \A i \in 1 .. n + 1 : i = 1 \/ (i - 1 \in 1 .. n /\ t[i] = s[i - 1])
  BY <1>1
<1>7. \A i, j \in 1 .. n + 1 : t[i] = t[j] => i = j
  BY <1>1, <1>3, <1>5, <1>6
<1>8. G = {t[i] : i \in 1 .. n + 1}
  <2>1. G \subseteq {t[i] : i \in 1 .. n + 1}
    <3>1. 1 \in 1 .. n + 1 /\ p = t[1]
      BY <1>1, <1>5
    <3>2. \A i \in 1 .. n : i + 1 \in 1 .. n + 1 /\ t[i + 1] = s[i]
      BY <1>1, <1>4
    <3> HIDE DEF t
    <3> QED BY <1>3, <3>1, <3>2
  <2>2. {t[i] : i \in 1 .. n + 1} \subseteq G
    BY <1>5
  <2> QED BY <2>1, <2>2
<1>9. m2.page_free_list = t[1]
  BY <1>5
<1>10. \A i \in 1 .. n + 1 :
         m2.pp_link[t[i]] = IF i = n + 1 THEN Null ELSE t[i + 1]
  <2> SUFFICES ASSUME NEW i \in 1 .. n + 1
               PROVE  m2.pp_link[t[i]] = IF i = n + 1 THEN Null ELSE t[i + 1]
    OBVIOUS
  <2>1. CASE i = 1
    <3>1. m2.pp_link[t[i]] = m.page_free_list
      BY <2>1, <1>5
    <3>2. n # 0 => t[2] = s[1]
      BY <1>1, <1>4
    <3> HIDE DEF t
    <3> QED BY <1>1, <1>3, <2>1, <3>1, <3>2
  <2>2. CASE i # 1
    <3>1. i - 1 \in 1 .. n /\ t[i] = s[i - 1]
      BY <1>1, <2>2
    <3>2. m2.pp_link[t[i]] = m.pp_link[s[i - 1]]
      BY <1>4, <3>1
    <3>3. i # n + 1 => t[i + 1] = s[(i - 1) + 1]
      BY <1>1, <2>2
    <3> HIDE DEF t
    <3> QED BY <1>1, <1>3, <3>1, <3>2, <3>3
  <2> QED BY <2>1, <2>2
<1> HIDE DEF t
<1> DEFINE k == Cardinality(G)
<1> HIDE DEF k
<1>11. k = n + 1
  BY <1>2 DEF k
<1>12. \E u \in [1 .. k -> G] :
         /\ \A i, j \in 1 .. k : u[i] = u[j] => i = j
         /\ G = {u[i] : i \in 1 .. k}
         /\ m2.page_free_list = IF k = 0 THEN Null ELSE u[1]
         /\ \A i \in 1 .. k : m2.pp_link[u[i]] = IF i = k THEN Null ELSE u[i + 1]
  <2> HIDE DEF G
  <2> USE <1>5, <1>11
  <2> WITNESS t \in [1 .. k -> G]
  <2> QED BY <1>1, <1>7, <1>8, <1>9, <1>10
<1> QED
  BY <1>12 DEF IsFreeList, k

\* Taking the head off the list, as page_alloc does, removes just that page.
LEMMA FreeListPop ==
  ASSUME NEW m, NEW m2, NEW F \in SUBSET Frame,
         m.pp_link \in [Frame -> Frame \cup {Null}],
         IsFreeList(m, F),
         m.page_free_list # Null,
         m2.page_free_list = m.pp_link[m.page_free_list],
         m2.pp_link = [m.pp_link EXCEPT ![m.page_free_list] = Null]
  PROVE  /\ m.page_free_list \in F
         /\ IsFreeList(m2, F \ {m.page_free_list})
<1> DEFINE n == Cardinality(F)
           p == m.page_free_list
           G == F \ {p}
           k == Cardinality(G)
<1>1. IsFiniteSet(F) /\ n \in Nat
  BY FS_Subset, FS_CardinalityType
<1>2. PICK s \in [1 .. n -> F] :
        /\ \A i, j \in 1 .. n : s[i] = s[j] => i = j
        /\ F = {s[i] : i \in 1 .. n}
        /\ m.page_free_list = IF n = 0 THEN Null ELSE s[1]
        /\ \A i \in 1 .. n : m.pp_link[s[i]] = IF i = n THEN Null ELSE s[i + 1]
  BY DEF IsFreeList
<1> HIDE DEF n
<1>3. n > 0 /\ p = s[1] /\ p \in F
  BY <1>1, <1>2
<1>4. k = n - 1
  BY <1>1, <1>3, FS_RemoveElement DEF n
<1> HIDE DEF k, p
<1> DEFINE t == [i \in 1 .. k |-> s[i + 1]]
<1>5. \A i \in 1 .. k : i + 1 \in 1 .. n /\ i + 1 # 1 /\ t[i] = s[i + 1]
  BY <1>1, <1>4
<1>6. \A i \in 2 .. n : i - 1 \in 1 .. k /\ t[i - 1] = s[i]
  BY <1>1, <1>4
<1>7. \A i \in 1 .. n : i = 1 \/ i \in 2 .. n
  BY <1>1
<1>8. \A i \in 2 .. n : s[i] # p
  BY <1>1, <1>2, <1>3
<1>9. t \in [1 .. k -> G]
  <2>1. \A i \in 1 .. k : s[i + 1] \in G
    BY <1>1, <1>2, <1>4, <1>8
  <2> QED BY <2>1
<1> HIDE DEF t
<1>10. \A i, j \in 1 .. k : t[i] = t[j] => i = j
  BY <1>1, <1>2, <1>4, <1>5
<1>11. G = {t[i] : i \in 1 .. k}
  <2>1. G \subseteq {t[i] : i \in 1 .. k}
    BY <1>2, <1>3, <1>6, <1>7
  <2>2. {t[i] : i \in 1 .. k} \subseteq G
    BY <1>9
  <2> QED BY <2>1, <2>2
<1>12. m2.page_free_list = IF k = 0 THEN Null ELSE t[1]
  BY <1>1, <1>2, <1>3, <1>4, <1>5 DEF p
<1>13. \A i \in 1 .. k : m2.pp_link[t[i]] = IF i = k THEN Null ELSE t[i + 1]
  <2> SUFFICES ASSUME NEW i \in 1 .. k
               PROVE  m2.pp_link[t[i]] = IF i = k THEN Null ELSE t[i + 1]
    OBVIOUS
  <2>1. m2.pp_link[t[i]] = m.pp_link[s[i + 1]]
    BY <1>1, <1>4, <1>5, <1>9 DEF p
  <2>2. i # k => t[i + 1] = s[(i + 1) + 1]
    BY <1>1, <1>4, <1>5
  <2> QED BY <1>1, <1>2, <1>4, <1>5, <2>1, <2>2
<1>14. \E u \in [1 .. k -> G] :
         /\ \A i, j \in 1 .. k : u[i] = u[j] => i = j
         /\ G = {u[i] : i \in 1 .. k}
         /\ m2.page_free_list = IF k = 0 THEN Null ELSE u[1]
         /\ \A i \in 1 .. k : m2.pp_link[u[i]] = IF i = k THEN Null ELSE u[i + 1]
  <2> HIDE DEF G
  <2> USE <1>9
  <2> WITNESS t \in [1 .. k -> G]
  <2> QED BY <1>10, <1>11, <1>12, <1>13
<1> QED
  BY <1>3, <1>14 DEF IsFreeList, k, p

\* Whether a list is a free list depends on its head and its links only.
LEMMA FreeListSame ==
  ASSUME NEW m, NEW m2, NEW F,
         IsFreeList(m, F),
         m2.page_free_list = m.page_free_list,
         m2.pp_link = m.pp_link
  PROVE  IsFreeList(m2, F)
<1> DEFINE n == Cardinality(F)
<1>1. PICK s \in [1 .. n -> F] :
        /\ \A i, j \in 1 .. n : s[i] = s[j] => i = j
        /\ F = {s[i] : i \in 1 .. n}
        /\ m.page_free_list = IF n = 0 THEN Null ELSE s[1]
        /\ \A i \in 1 .. n : m.pp_link[s[i]] = IF i = n THEN Null ELSE s[i + 1]
  BY DEF IsFreeList
<1> HIDE DEF n
<1>2. \E u \in [1 .. n -> F] :
        /\ \A i, j \in 1 .. n : u[i] = u[j] => i = j
        /\ F = {u[i] : i \in 1 .. n}
        /\ m2.page_free_list = IF n = 0 THEN Null ELSE u[1]
        /\ \A i \in 1 .. n : m2.pp_link[u[i]] = IF i = n THEN Null ELSE u[i + 1]
  <2> WITNESS s \in [1 .. n -> F]
  <2> QED BY <1>1
<1> QED
  BY <1>2 DEF IsFreeList, n

NatLess == {p \in Nat \X Nat : p[1] < p[2]}

\* A set of numbers that has a member has a least one.
LEMMA LeastExists ==
  ASSUME NEW S \in SUBSET Nat, S # {}
  PROVE  \E x \in S : \A y \in S : x <= y
<1>1. IsWellFoundedOn(OpToRel(<, Nat), Nat)
  BY NatLessThanWellFounded
<1>2. OpToRel(<, Nat) = NatLess
  BY DEF OpToRel, NatLess
<1>3. IsWellFoundedOn(NatLess, Nat)
  BY <1>1, <1>2
<1>4. PICK x \in S : \A y \in S : ~ (<<y, x>> \in NatLess)
  BY <1>3, WFMin
<1>5. \A y \in S : x <= y
  <2> SUFFICES ASSUME NEW y \in S, ~ (x <= y) PROVE FALSE
    OBVIOUS
  <2>1. <<y, x>> \in NatLess
    BY DEF NatLess
  <2> QED BY <1>4, <2>1
<1> QED
  BY <1>5

\* s names each of the pages F once.
Enum(s, n, F) ==
  /\ F \subseteq Frame /\ n \in Nat /\ s \in [1 .. n -> F]
  /\ \A p \in F : \E i \in 1 .. n : s[i] = p
  /\ \A i, j \in 1 .. n : s[i] = s[j] => i = j

\* What N steps along the list find are the pages s, and then nothing.
Followed(m, F, N, n, s) ==
  /\ Enum(s, n, F) /\ n = Cardinality(F)
  /\ \A i \in 0 .. N : FollowFreeList(m, N)[i] = IF i < n THEN s[i + 1] ELSE Null

\* A list in the sense of IsFreeList can be followed for as many steps as it
\* has pages, or more.
LEMMA ListFollowed ==
  ASSUME NEW m, NEW F \in SUBSET Frame, IsFreeList(m, F),
         NEW N \in Nat, Cardinality(F) <= N
  PROVE  \E n, s : Followed(m, F, N, n, s)
<1>1. PICK n \in Nat : n = Cardinality(F)
  BY FS_Subset, FS_CardinalityType
<1>2. PICK s \in [1 .. n -> F] :
        /\ \A i, j \in 1 .. n : s[i] = s[j] => i = j
        /\ F = {s[i] : i \in 1 .. n}
        /\ m.page_free_list = IF n = 0 THEN Null ELSE s[1]
        /\ \A i \in 1 .. n : m.pp_link[s[i]] = IF i = n THEN Null ELSE s[i + 1]
  BY <1>1 DEF IsFreeList
<1> DEFINE Step(g) == [i \in 0 .. N |-> IF i = 0 THEN m.page_free_list
                                        ELSE LET p == g[i - 1]
                                             IN  IF p = Null THEN Null ELSE m.pp_link[p]]
           h == [i \in 0 .. N |-> IF i < n THEN s[i + 1] ELSE Null]
           page == CHOOSE g : g = Step(g)
<1>3. n <= N
  BY <1>1
<1>4. \A i \in 1 .. n : s[i] \in F /\ s[i] # Null
  OBVIOUS
<1>5. ASSUME NEW i \in 0 .. N
      PROVE  h[i] = Step(h)[i]
  <2>1. CASE i = 0
    BY <1>2, <2>1
  <2>2. CASE i # 0 /\ i - 1 < n
    <3>1. i \in 1 .. n /\ i - 1 \in 0 .. N /\ (i - 1) + 1 = i
      BY <2>2
    <3>2. h[i - 1] = s[i] /\ s[i] # Null
      BY <1>4, <2>2, <3>1
    <3>3. Step(h)[i] = m.pp_link[s[i]]
      BY <2>2, <3>2
    <3> QED BY <1>2, <3>1, <3>3
  <2>3. CASE i # 0 /\ ~ (i - 1 < n)
    <3>1. i - 1 \in 0 .. N /\ ~ (i < n)
      BY <2>3
    <3>2. h[i - 1] = Null /\ h[i] = Null
      BY <2>3, <3>1
    <3> QED BY <2>3, <3>2
  <2> QED BY <2>1, <2>2, <2>3
<1>6. h = Step(h)
  BY <1>5
<1>7. page = Step(page)
  BY <1>6
<1>8. FollowFreeList(m, N) = page
  BY DEF FollowFreeList
<1>9. \A i \in 0 .. N : page[i] = h[i]
  <2> DEFINE Bad == {i \in 0 .. N : page[i] # h[i]}
  <2> SUFFICES ASSUME Bad # {} PROVE FALSE
    OBVIOUS
  <2>1. PICK x \in Bad : \A y \in Bad : x <= y
    <3>1. Bad \in SUBSET Nat
      OBVIOUS
    <3> HIDE DEF Bad
    <3> QED BY <3>1, LeastExists
  <2>2. x \in 0 .. N /\ page[x] = Step(page)[x] /\ h[x] = Step(h)[x]
    BY <1>5, <1>7
  <2>3. x # 0
    <3>1. x = 0 => page[x] = m.page_free_list /\ h[x] = m.page_free_list
      BY <2>2
    <3> QED BY <2>1, <3>1
  <2>4. x - 1 \in 0 .. N /\ x - 1 \notin Bad
    BY <2>1, <2>2, <2>3
  <2>5. page[x - 1] = h[x - 1]
    BY <2>4
  <2>6. Step(page)[x] = Step(h)[x]
    BY <2>2, <2>3, <2>5
  <2> QED BY <2>1, <2>2, <2>6
<1> HIDE DEF page
<1>10. \A i \in 0 .. N : FollowFreeList(m, N)[i] = IF i < n THEN s[i + 1] ELSE Null
  BY <1>8, <1>9
<1>11. \A p \in F : \E i \in 1 .. n : s[i] = p
  BY <1>2
<1>12. Enum(s, n, F)
  BY <1>2, <1>11 DEF Enum
<1>13. Followed(m, F, N, n, s)
  BY <1>1, <1>10, <1>12 DEF Followed
<1> QED
  BY <1>13

\* A list in the sense of IsFreeList is one that following it finds.
LEMMA ListIsChain ==
  ASSUME NEW m, NEW F \in SUBSET Frame, IsFreeList(m, F)
  PROVE  IsFreeChain(m, F)
<1>1. PICK N \in Nat : N = Cardinality(F)
  BY FS_Subset, FS_CardinalityType
<1>2. PICK n, s : Followed(m, F, N, n, s)
  BY <1>1, ListFollowed
<1> n \in Nat /\ s \in [1 .. n -> F]
  BY <1>2 DEF Followed, Enum
<1>3. n = Cardinality(F) /\ \A p \in F : \E i \in 1 .. n : s[i] = p
  BY <1>2 DEF Followed, Enum
<1> DEFINE page == FollowFreeList(m, n)
<1>4. \A i \in 0 .. n : page[i] = IF i < n THEN s[i + 1] ELSE Null
  BY <1>1, <1>2 DEF Followed
<1> HIDE DEF page
<1>5. page[n] = Null
  BY <1>4
<1>6. F = {page[i] : i \in 0 .. n - 1}
  <2>1. ASSUME NEW i \in 0 .. n - 1 PROVE page[i] \in F
    <3>1. i \in 0 .. n /\ i < n /\ i + 1 \in 1 .. n
      OBVIOUS
    <3> QED BY <1>4, <3>1
  <2>2. ASSUME NEW f \in F PROVE \E i \in 0 .. n - 1 : page[i] = f
    <3>1. PICK i \in 1 .. n : f = s[i]
      BY <1>3
    <3>2. i - 1 \in 0 .. n /\ i - 1 \in 0 .. n - 1 /\ i - 1 < n /\ (i - 1) + 1 = i
      OBVIOUS
    <3>3. page[i - 1] = f
      BY <1>4, <3>1, <3>2
    <3> QED BY <3>2, <3>3
  <2> QED BY <2>1, <2>2
<1>7. n = Cardinality(F)
  BY <1>3
<1> QED
  BY <1>5, <1>6, <1>7 DEF IsFreeChain, page

\* A list stays one when only the links of other pages change.
LEMMA FreeListElsewhere ==
  ASSUME NEW m, NEW m2, NEW F,
         IsFreeList(m, F),
         m2.page_free_list = m.page_free_list,
         \A f \in F : m2.pp_link[f] = m.pp_link[f]
  PROVE  IsFreeList(m2, F)
<1> DEFINE n == Cardinality(F)
<1>1. PICK s \in [1 .. n -> F] :
        /\ \A i, j \in 1 .. n : s[i] = s[j] => i = j
        /\ F = {s[i] : i \in 1 .. n}
        /\ m.page_free_list = IF n = 0 THEN Null ELSE s[1]
        /\ \A i \in 1 .. n : m.pp_link[s[i]] = IF i = n THEN Null ELSE s[i + 1]
  BY DEF IsFreeList
<1> HIDE DEF n
<1>2. \A i \in 1 .. n : m2.pp_link[s[i]] = m.pp_link[s[i]]
  OBVIOUS
<1>3. \E u \in [1 .. n -> F] :
        /\ \A i, j \in 1 .. n : u[i] = u[j] => i = j
        /\ F = {u[i] : i \in 1 .. n}
        /\ m2.page_free_list = IF n = 0 THEN Null ELSE u[1]
        /\ \A i \in 1 .. n : m2.pp_link[u[i]] = IF i = n THEN Null ELSE u[i + 1]
  <2> WITNESS s \in [1 .. n -> F]
  <2> QED BY <1>1, <1>2
<1> QED
  BY <1>3 DEF IsFreeList, n

\* No list is an empty list.
LEMMA FreeListEmpty ==
  ASSUME NEW m, NEW F, m.page_free_list = Null
  PROVE  /\ F = {} => IsFreeList(m, F)
         /\ IsFreeList(m, F) /\ F \subseteq Frame => F = {}
<1>1. ASSUME F = {} PROVE IsFreeList(m, F)
  <2> DEFINE n == Cardinality(F)
             s == [i \in 1 .. n |-> Null]
  <2>1. n = 0
    BY <1>1, FS_EmptySet
  <2> HIDE DEF n
  <2>2. s \in [1 .. n -> F]
    BY <2>1
  <2> HIDE DEF s
  <2>3. \E u \in [1 .. n -> F] :
          /\ \A i, j \in 1 .. n : u[i] = u[j] => i = j
          /\ F = {u[i] : i \in 1 .. n}
          /\ m.page_free_list = IF n = 0 THEN Null ELSE u[1]
          /\ \A i \in 1 .. n : m.pp_link[u[i]] = IF i = n THEN Null ELSE u[i + 1]
    <3> USE <2>2
    <3> WITNESS s \in [1 .. n -> F]
    <3> QED BY <1>1, <2>1
  <2> QED BY <2>3 DEF IsFreeList, n
<1>2. ASSUME IsFreeList(m, F), F \subseteq Frame PROVE F = {}
  <2> DEFINE n == Cardinality(F)
  <2>1. n \in Nat
    BY <1>2, FS_Subset, FS_CardinalityType
  <2>2. PICK s \in [1 .. n -> F] :
          /\ F = {s[i] : i \in 1 .. n}
          /\ m.page_free_list = IF n = 0 THEN Null ELSE s[1]
    BY <1>2 DEF IsFreeList
  <2> HIDE DEF n
  <2>3. n = 0
    <3>1. n # 0 => s[1] \in Frame
      BY <1>2, <2>1, <2>2
    <3> QED BY <2>2, <3>1
  <2> QED BY <2>2, <2>3
<1> QED
  BY <1>1, <1>2

\* page_init has pushed the n pages of F in that order.
PagesPushed(m, F, n, order) ==
  /\ Enum(order, n, F)
  /\ m.page_free_list = page_init(order).head
  /\ m.pp_link = page_init(order).link

\* page_init leaves the pages it pushes on the list, the last one first.
LEMMA PageInitList ==
  ASSUME NEW m, NEW F, NEW n, NEW order, PagesPushed(m, F, n, order)
  PROVE  /\ IsFreeList(m, F)
         /\ m.page_free_list \in Frame \cup {Null}
         /\ m.pp_link \in [Frame -> Frame \cup {Null}]
<1>0. /\ F \in SUBSET Frame /\ n \in Nat /\ order \in [1 .. n -> F]
      /\ \A p \in F : \E i \in 1 .. n : order[i] = p
      /\ \A i, j \in 1 .. n : order[i] = order[j] => i = j
      /\ m.page_free_list = page_init(order).head
      /\ m.pp_link = page_init(order).link
  BY DEF PagesPushed, Enum
<1> USE <1>0
<1> DEFINE link == page_init(order).link
<1>1. Len(order) = n
  OBVIOUS
<1>2. F = {order[i] : i \in 1 .. n}
  OBVIOUS
<1>3. /\ m.page_free_list = IF n = 0 THEN Null ELSE order[n]
      /\ m.pp_link = link
      /\ link = [f \in Frame |->
                   IF f \notin F \/ f = order[1] THEN Null
                   ELSE order[(CHOOSE i \in 1 .. n : order[i] = f) - 1]]
  BY <1>1, <1>2 DEF page_init
<1> HIDE DEF link
<1>4. \A i \in 1 .. n : link[order[i]] = IF i = 1 THEN Null ELSE order[i - 1]
  <2> SUFFICES ASSUME NEW i \in 1 .. n
               PROVE  link[order[i]] = IF i = 1 THEN Null ELSE order[i - 1]
    OBVIOUS
  <2>1. order[i] \in F /\ order[i] \in Frame
    OBVIOUS
  <2>2. (CHOOSE k \in 1 .. n : order[k] = order[i]) = i
    OBVIOUS
  <2>3. 1 \in 1 .. n
    OBVIOUS
  <2>4. order[i] = order[1] <=> i = 1
    BY <2>3
  <2> QED BY <1>3, <2>1, <2>2, <2>4
<1>5. link \in [Frame -> Frame \cup {Null}]
  <2> SUFFICES ASSUME NEW f \in Frame, f \in F, f # order[1]
               PROVE  link[f] \in Frame
    BY <1>3
  <2>1. PICK i \in 1 .. n : order[i] = f
    OBVIOUS
  <2>2. link[f] = order[i - 1] /\ i - 1 \in 1 .. n
    BY <1>4, <2>1
  <2> QED BY <2>2
<1>6. n = Cardinality(F)
  <2>1. PICK D : D = 1 .. n
    OBVIOUS
  <2>2. order \in [D -> F] /\ \A p \in F : \E i \in D : order[i] = p
    BY <2>1
  <2>3. \A i, j \in D : order[i] = order[j] => i = j
    BY <2>1
  <2>4. order \in Bijection(D, F)
    BY <2>2, <2>3 DEF Bijection, Injection, Surjection, IsInjective
  <2>5. ExistsBijection(1 .. n, F)
    BY <2>1, <2>4 DEF ExistsBijection
  <2> QED BY <2>5, FS_CountingElements
<1> DEFINE s == [i \in 1 .. n |-> order[n + 1 - i]]
<1>7. \A i \in 1 .. n : n + 1 - i \in 1 .. n /\ s[i] = order[n + 1 - i]
  OBVIOUS
<1>8. s \in [1 .. n -> F]
  BY <1>7
<1> HIDE DEF s
<1>9. \A i, j \in 1 .. n : s[i] = s[j] => i = j
  BY <1>7
<1>10. F = {s[i] : i \in 1 .. n}
  <2>1. ASSUME NEW p \in F PROVE \E i \in 1 .. n : p = s[i]
    <3>1. PICK k \in 1 .. n : order[k] = p
      OBVIOUS
    <3>2. n + 1 - k \in 1 .. n /\ n + 1 - (n + 1 - k) = k
      OBVIOUS
    <3> QED BY <1>7, <3>1, <3>2
  <2> QED BY <1>8, <2>1
<1>11. m.page_free_list = IF n = 0 THEN Null ELSE s[1]
  BY <1>3, <1>7
<1>12. \A i \in 1 .. n : m.pp_link[s[i]] = IF i = n THEN Null ELSE s[i + 1]
  <2> SUFFICES ASSUME NEW i \in 1 .. n
               PROVE  m.pp_link[s[i]] = IF i = n THEN Null ELSE s[i + 1]
    OBVIOUS
  <2>1. PICK k \in 1 .. n : k = n + 1 - i
    BY <1>7
  <2>2. m.pp_link[s[i]] = IF k = 1 THEN Null ELSE order[k - 1]
    BY <1>3, <1>4, <1>7, <2>1
  <2>3. i # n => s[i + 1] = order[k - 1]
    <3> SUFFICES ASSUME i # n PROVE s[i + 1] = order[k - 1]
      OBVIOUS
    <3>1. i + 1 \in 1 .. n /\ n + 1 - (i + 1) = k - 1
      BY <2>1
    <3> QED BY <1>7, <3>1
  <2>4. k = 1 <=> i = n
    BY <2>1
  <2> QED BY <2>2, <2>3, <2>4
<1> DEFINE k == Cardinality(F)
<1> HIDE DEF k
<1>13. \E u \in [1 .. k -> F] :
        /\ \A i, j \in 1 .. k : u[i] = u[j] => i = j
        /\ F = {u[i] : i \in 1 .. k}
        /\ m.page_free_list = IF k = 0 THEN Null ELSE u[1]
        /\ \A i \in 1 .. k : m.pp_link[u[i]] = IF i = k THEN Null ELSE u[i + 1]
  <2>1. k = n
    BY <1>6 DEF k
  <2> USE <1>8, <2>1
  <2> WITNESS s \in [1 .. k -> F]
  <2> QED BY <1>9, <1>10, <1>11, <1>12
<1>14. m.page_free_list \in Frame \cup {Null}
  BY <1>3
<1>15. IsFreeList(m, F)
  BY <1>13 DEF IsFreeList, k
<1> QED
  BY <1>3, <1>5, <1>14, <1>15

----------------------------------------------------------------------------
(* The counts *)

\* Raising the 16-bit count of a page below its maximum adds one.
LEMMA Increment ==
  ASSUME NEW m \in Mem, NEW p \in Frame, m.pp_ref[p] + 1 < RefMod
  PROVE  /\ pp_ref_incr(m, p) \in Mem
         /\ pp_ref_incr(m, p) = [m EXCEPT !.pp_ref[p] = m.pp_ref[p] + 1]
         /\ pp_ref_incr(m, p).pp_ref = [m.pp_ref EXCEPT ![p] = m.pp_ref[p] + 1]
         /\ pp_ref_incr(m, p).pp_link = m.pp_link
         /\ pp_ref_incr(m, p).page_free_list = m.page_free_list
         /\ pp_ref_incr(m, p).tab = m.tab
         /\ pp_ref_incr(m, p).cr3 = m.cr3
         /\ pp_ref_incr(m, p).tlb = m.tlb
<1>1. m.pp_ref \in [Frame -> 0 .. RefMod - 1] /\ m.pp_ref[p] \in 0 .. RefMod - 1
  BY DEF Mem
<1>2. (m.pp_ref[p] + 1) % RefMod = m.pp_ref[p] + 1
  BY <1>1
<1>3. m.pp_ref[p] + 1 \in 0 .. RefMod - 1
  BY <1>1
<1>4. pp_ref_incr(m, p) = [m EXCEPT !.pp_ref[p] = m.pp_ref[p] + 1]
  BY <1>2 DEF pp_ref_incr
<1>5. pp_ref_incr(m, p).pp_ref = [m.pp_ref EXCEPT ![p] = m.pp_ref[p] + 1]
  BY <1>4 DEF Mem
<1>6. pp_ref_incr(m, p).pp_ref \in [Frame -> 0 .. RefMod - 1]
  BY <1>1, <1>3, <1>5
<1> QED
  BY <1>4, <1>5, <1>6 DEF Mem

\* page_decref lowers a positive count by one, and frees the page when that
\* leaves none.
LEMMA Decrement ==
  ASSUME NEW m \in Mem, NEW p \in Frame, m.pp_ref[p] > 0
  PROVE  LET n == page_decref(m, p)
         IN  /\ n \in Mem
             /\ n.pp_ref = [m.pp_ref EXCEPT ![p] = m.pp_ref[p] - 1]
             /\ n.tab = m.tab /\ n.cr3 = m.cr3 /\ n.tlb = m.tlb
             /\ m.pp_ref[p] = 1 =>
                  /\ n.page_free_list = p
                  /\ n.pp_link = [m.pp_link EXCEPT ![p] = m.page_free_list]
             /\ m.pp_ref[p] # 1 =>
                  /\ n.page_free_list = m.page_free_list
                  /\ n.pp_link = m.pp_link
<1> DEFINE n == [m EXCEPT !.pp_ref[p] = m.pp_ref[p] - 1]
<1>1. /\ m.pp_ref \in [Frame -> 0 .. RefMod - 1]
      /\ m.pp_ref[p] \in 0 .. RefMod - 1
      /\ m.pp_link \in [Frame -> Frame \cup {Null}]
      /\ m.page_free_list \in Frame \cup {Null}
  BY DEF Mem
<1>2. (m.pp_ref[p] + RefMod - 1) % RefMod = m.pp_ref[p] - 1
  <2>1. \A r \in 1 .. RefMod - 1 : (r + RefMod - 1) % RefMod = r - 1
    OBVIOUS
  <2> QED BY <1>1, <2>1
<1>3. n.pp_ref = [m.pp_ref EXCEPT ![p] = m.pp_ref[p] - 1]
  BY DEF Mem
<1>4. m.pp_ref[p] - 1 \in 0 .. RefMod - 1
  BY <1>1
<1>5. n.pp_ref \in [Frame -> 0 .. RefMod - 1] /\ n.pp_ref[p] = m.pp_ref[p] - 1
  BY <1>1, <1>3, <1>4
<1>6. n \in Mem
  BY <1>5 DEF Mem
<1>7. page_decref(m, p) = IF m.pp_ref[p] - 1 = 0 THEN page_free(n, p) ELSE n
  BY <1>2, <1>5 DEF page_decref
<1>8. CASE m.pp_ref[p] = 1
  <2>1. page_decref(m, p) = [n EXCEPT !.pp_link[p] = n.page_free_list, !.page_free_list = p]
    BY <1>1, <1>7, <1>8 DEF page_free
  <2>2. [m.pp_link EXCEPT ![p] = m.page_free_list] \in [Frame -> Frame \cup {Null}]
    BY <1>1
  <2> QED BY <1>3, <1>6, <1>8, <2>1, <2>2 DEF Mem
<1>9. CASE m.pp_ref[p] # 1
  <2>1. page_decref(m, p) = n
    BY <1>1, <1>7, <1>9
  <2> QED BY <1>3, <1>6, <1>9, <2>1 DEF Mem
<1> QED
  BY <1>8, <1>9

----------------------------------------------------------------------------
(* The processor *)

\* What the processor can cache has the type of an entry.
LEMMA TranslateType ==
  ASSUME NEW m \in Mem, NEW va \in Va
  PROVE  translate(m, m.cr3, va) \in Entry \cup {Null}
<1> DEFINE pde == m.tab[m.cr3][va[1]]
<1>1. m.tab \in [Frame -> Table] /\ m.cr3 \in Frame /\ va[1] \in Ix /\ va[2] \in Ix
  BY DEF Mem, Va
<1>2. pde \in Entry \cup {Null}
  BY <1>1 DEF Table
<1>3. CASE pde = Null
  BY <1>3 DEF translate
<1>4. CASE pde # Null
  <2>1. pde.pg \in Frame
    BY <1>2, <1>4 DEF Entry
  <2>2. PICK pte : pte = m.tab[pde.pg][va[2]]
    OBVIOUS
  <2>3. pte \in Entry \cup {Null}
    BY <1>1, <2>1, <2>2 DEF Table
  <2>4. translate(m, m.cr3, va) = IF pte = Null THEN Null
                                  ELSE [pte EXCEPT !.perm = @ \cap pde.perm]
    BY <1>4, <2>2 DEF translate
  <2>5. pte # Null => [pte EXCEPT !.perm = @ \cap pde.perm] \in Entry
    BY <2>3 DEF Entry
  <2> QED BY <2>4, <2>5
<1> QED
  BY <1>3, <1>4

=============================================================================
