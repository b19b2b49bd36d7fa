----------------------------- MODULE PmapProofs -----------------------------
(***************************************************************************)
(* Proofs about kern/pmap.c, for any number of pages, directories and      *)
(* entries: the frames, who holds them and how they are counted; then the  *)
(* address spaces that the page tables stand for, in which the processor   *)
(* never uses a translation that is gone and every call is one operation   *)
(* of VSpace or changes no mapping.                                        *)
(***************************************************************************)
EXTENDS Pmap, PmapLemmas

USE PmapAssumption, DirAssumption

----------------------------------------------------------------------------
(* Which slots name which frames *)

\* Slots are compared by their two parts; the proofs below need nothing else
\* about them.
Slot(f, i) == <<f, i>>
AllSlots   == Frame \X Ix

\* Two slots are one if they are the same entry of the same frame.
LEMMA SlotEqual ==
  ASSUME NEW f, NEW g, NEW i, NEW k
  PROVE  Slot(f, i) = Slot(g, k) <=> f = g /\ i = k
BY DEF Slot

\* An entry of a frame is a slot.
LEMMA SlotType ==
  ASSUME NEW f \in Frame, NEW i \in Ix
  PROVE  Slot(f, i) \in AllSlots
BY DEF Slot, AllSlots

\* There are finitely many references to a page.
LEMMA RefsFinite ==
  ASSUME NEW m, NEW p
  PROVE  /\ IsFiniteSet(Refs(m, p))
         /\ Cardinality(Refs(m, p)) \in Nat
<1>1. IsFiniteSet(AllSlots)
  BY FS_Product DEF AllSlots
<1>2. Refs(m, p) \subseteq AllSlots
  BY DEF Refs, Slots, Tables, AllSlots
<1> QED
  BY <1>1, <1>2, FS_Subset, FS_CardinalityType

\* Membership of a slot, by its two parts.
LEMMA InRefs ==
  ASSUME NEW m, NEW q
  PROVE  /\ Refs(m, q) \subseteq AllSlots
         /\ \A g \in Frame, k \in Ix :
              Slot(g, k) \in Refs(m, q) <=> /\ g \in Dir \cup Tables(m)
                                          /\ m.tab[g][k] # Null
                                          /\ m.tab[g][k].pg = q
<1>1. Refs(m, q) \subseteq AllSlots
  BY DEF Refs, Slots, Tables, AllSlots
<1>2. ASSUME NEW g \in Frame, NEW k \in Ix
      PROVE  Slot(g, k) \in Refs(m, q) <=> /\ g \in Dir \cup Tables(m)
                                          /\ m.tab[g][k] # Null
                                          /\ m.tab[g][k].pg = q
  BY DEF Refs, Slots, Slot
<1> QED
  BY <1>1, <1>2

\* Sets of slots are compared slot by slot.
SameSlots(A, B) ==
  /\ A \subseteq AllSlots /\ B \subseteq AllSlots
  /\ \A g \in Frame, k \in Ix : Slot(g, k) \in A <=> Slot(g, k) \in B

\* Sets that agree on every slot are equal.
LEMMA SlotSets ==
  ASSUME NEW A, NEW B, SameSlots(A, B)
  PROVE  A = B
<1>1. \A s \in AllSlots : s = Slot(s[1], s[2]) /\ s[1] \in Frame /\ s[2] \in Ix
  BY DEF Slot, AllSlots
<1>2. A \subseteq B /\ B \subseteq A
  BY <1>1 DEF SameSlots
<1> QED
  BY <1>2

\* What is written into a page that is neither a directory nor a table in use
\* changes no reference.
LEMMA RefsContent ==
  ASSUME NEW m, NEW m2,
         \A f \in Dir \cup Tables(m) : m2.tab[f] = m.tab[f]
  PROVE  /\ Tables(m2) = Tables(m)
         /\ \A p \in Frame : Refs(m2, p) = Refs(m, p)
<1>1. Tables(m2) = Tables(m)
  BY DEF Tables
<1> QED
  BY <1>1 DEF Refs, Slots

\* m2 is m with page t, blank, entered in the empty entry j of directory d.
EntersTable(m, m2, d, j, t) ==
  /\ m.tab \in [Frame -> Table] /\ d \in Dir /\ j \in Ix /\ t \in Page \ Tables(m)
  /\ m.tab[d][j] = Null /\ m.tab[t] = Blank
  /\ m2.tab[d][j] # Null /\ m2.tab[d][j].pg = t
  /\ \A f \in Frame, i \in Ix : f # d \/ i # j => m2.tab[f][i] = m.tab[f][i]

\* Entering a blank page as the table of an empty directory entry adds that
\* one reference, to the new table.
LEMMA RefsNewTable ==
  ASSUME NEW m, NEW m2, NEW d, NEW j, NEW t, EntersTable(m, m2, d, j, t)
  PROVE  /\ Tables(m2) = Tables(m) \cup {t}
         /\ Refs(m2, t) = Refs(m, t) \cup {Slot(d, j)}
         /\ Slot(d, j) \notin Refs(m, t)
         /\ \A p \in Frame : p # t => Refs(m2, p) = Refs(m, p)
<1> USE DEF EntersTable
<1>1. Tables(m2) = Tables(m) \cup {t}
  BY DEF Tables, Page
<1>2. /\ \A i \in Ix : m.tab[t][i] = Null /\ m2.tab[t][i] = Null
      /\ t \in Frame /\ d \in Frame /\ t # d
  BY DEF Page, Blank
<1>3. ASSUME NEW p \in Frame, NEW g \in Frame, NEW k \in Ix
      PROVE  Slot(g, k) \in Refs(m2, p) <=>
               Slot(g, k) \in Refs(m, p) \/ (p = t /\ g = d /\ k = j)
  <2>1. CASE g = t
    BY <1>2, <2>1, InRefs
  <2>2. CASE g = d /\ k = j
    BY <1>1, <1>2, <2>2, InRefs
  <2>3. CASE g # t /\ ~(g = d /\ k = j)
    <3>1. m2.tab[g][k] = m.tab[g][k] /\ (g \in Dir \cup Tables(m2) <=> g \in Dir \cup Tables(m))
      BY <1>1, <2>3
    <3> QED BY <2>3, <3>1, InRefs
  <2> QED BY <2>1, <2>2, <2>3
<1>4. Slot(d, j) \notin Refs(m, t)
  BY <1>2, InRefs
<1>5. \A p \in Frame : p # t => Refs(m2, p) = Refs(m, p)
  <2> SUFFICES ASSUME NEW p \in Frame, p # t PROVE Refs(m2, p) = Refs(m, p)
    OBVIOUS
  <2>1. Refs(m2, p) \in SUBSET AllSlots /\ Refs(m, p) \in SUBSET AllSlots
    BY InRefs
  <2>2. \A g \in Frame, k \in Ix : Slot(g, k) \in Refs(m2, p) <=> Slot(g, k) \in Refs(m, p)
    BY <1>3
  <2>4. SameSlots(Refs(m2, p), Refs(m, p))
    BY <2>1, <2>2 DEF SameSlots
  <2> QED BY <2>4, SlotSets
<1>6. Refs(m2, t) = Refs(m, t) \cup {Slot(d, j)}
  <2>1. Refs(m2, t) \in SUBSET AllSlots /\ Refs(m, t) \cup {Slot(d, j)} \in SUBSET AllSlots
    BY <1>2, InRefs, SlotType
  <2>2. \A g \in Frame, k \in Ix :
          Slot(g, k) \in Refs(m2, t) <=> Slot(g, k) \in Refs(m, t) \cup {Slot(d, j)}
    BY <1>2, <1>3, SlotEqual
  <2>4. SameSlots(Refs(m2, t), Refs(m, t) \cup {Slot(d, j)})
    BY <2>1, <2>2 DEF SameSlots
  <2> QED BY <2>4, SlotSets
<1> QED
  BY <1>1, <1>4, <1>5, <1>6

\* m2 is m without the entry j of directory d, the only one to name the blank
\* table t.
DropsTable(m, m2, d, j, t) ==
  /\ m.tab \in [Frame -> Table] /\ d \in Dir /\ j \in Ix /\ t \in Page
  /\ m.tab[d][j] # Null /\ m.tab[d][j].pg = t /\ m.tab[t] = Blank
  /\ Refs(m, t) = {Slot(d, j)}
  /\ m2.tab[d][j] = Null
  /\ \A f \in Frame, i \in Ix : f # d \/ i # j => m2.tab[f][i] = m.tab[f][i]

\* Clearing the directory entry that alone names a blank table takes away that
\* one reference and no other.
LEMMA RefsDropTable ==
  ASSUME NEW m, NEW m2, NEW d, NEW j, NEW t, DropsTable(m, m2, d, j, t)
  PROVE  /\ Tables(m2) = Tables(m) \ {t}
         /\ Refs(m2, t) = {}
         /\ \A p \in Frame : p # t => Refs(m2, p) = Refs(m, p)
<1> USE DEF DropsTable
<1>1. \A f \in Dir, i \in Ix : m.tab[f][i] # Null /\ m.tab[f][i].pg = t
                               => f = d /\ i = j
  <2> SUFFICES ASSUME NEW f \in Dir, NEW i \in Ix,
                      m.tab[f][i] # Null, m.tab[f][i].pg = t
               PROVE  f = d /\ i = j
    OBVIOUS
  <2>1. Slot(f, i) \in Refs(m, t)
    BY InRefs
  <2> QED BY <2>1, SlotEqual
<1>2. Tables(m2) = Tables(m) \ {t}
  BY <1>1 DEF Tables, Page
<1>3. \A i \in Ix : m.tab[t][i] = Null
  BY DEF Blank
<1>4. t \notin Dir
  BY DEF Page
<1>5. ASSUME NEW p \in Frame, NEW g \in Frame, NEW k \in Ix
      PROVE  Slot(g, k) \in Refs(m2, p) <=> Slot(g, k) \in Refs(m, p) /\ ~(g = d /\ k = j)
  <2>1. CASE g = t
    BY <1>3, <1>4, <2>1, InRefs
  <2>2. CASE g = d /\ k = j
    BY <2>2, InRefs
  <2>3. CASE g # t /\ ~(g = d /\ k = j)
    <3>1. m2.tab[g][k] = m.tab[g][k] /\ (g \in Dir \cup Tables(m2) <=> g \in Dir \cup Tables(m))
      BY <1>2, <2>3
    <3> QED BY <2>3, <3>1, InRefs
  <2> QED BY <2>1, <2>2, <2>3
<1>6. \A p \in Frame : p # t => Refs(m2, p) = Refs(m, p)
  <2> SUFFICES ASSUME NEW p \in Frame, p # t PROVE Refs(m2, p) = Refs(m, p)
    OBVIOUS
  <2>1. d \in Frame /\ Slot(d, j) \notin Refs(m, p)
    BY InRefs
  <2>2. \A g \in Frame, k \in Ix : Slot(g, k) \in Refs(m2, p) <=> Slot(g, k) \in Refs(m, p)
    BY <1>5, <2>1
  <2>3. Refs(m2, p) \in SUBSET AllSlots /\ Refs(m, p) \in SUBSET AllSlots
    BY InRefs
  <2>4. SameSlots(Refs(m2, p), Refs(m, p))
    BY <2>2, <2>3 DEF SameSlots
  <2> QED BY <2>4, SlotSets
<1>7. Refs(m2, t) = {}
  <2>1. \A g \in Frame, k \in Ix : Slot(g, k) \in Refs(m2, t) <=> Slot(g, k) \in {}
    BY <1>5, SlotEqual DEF Page
  <2>2. Refs(m2, t) \subseteq AllSlots
    BY InRefs
  <2>3. SameSlots(Refs(m2, t), {})
    BY <2>1, <2>2 DEF SameSlots
  <2> QED BY <2>3, SlotSets
<1> QED
  BY <1>2, <1>6, <1>7

\* m2 is m without the entry i of the page table f.
ClearsSlot(m, m2, f, i) ==
  /\ m.tab \in [Frame -> Table] /\ f \in Tables(m) \ Dir /\ i \in Ix
  /\ m.tab[f][i] # Null /\ m2.tab[f][i] = Null
  /\ \A g \in Frame, k \in Ix : g # f \/ k # i => m2.tab[g][k] = m.tab[g][k]

\* Clearing an entry of a page table takes away that one reference.
LEMMA RefsClear ==
  ASSUME NEW m, NEW m2, NEW f, NEW i, ClearsSlot(m, m2, f, i)
  PROVE  /\ Tables(m2) = Tables(m)
         /\ \A p \in Frame : Refs(m2, p) = Refs(m, p) \ {Slot(f, i)}
         /\ Slot(f, i) \in Refs(m, m.tab[f][i].pg)
<1> USE DEF ClearsSlot
<1>1. Tables(m2) = Tables(m)
  BY DEF Tables
<1>2. f \in Frame /\ Slot(f, i) \in Refs(m, m.tab[f][i].pg)
  BY InRefs DEF Tables
<1>3. ASSUME NEW p \in Frame
      PROVE  Refs(m2, p) = Refs(m, p) \ {Slot(f, i)}
  <2>1. /\ Refs(m2, p) \in SUBSET AllSlots
        /\ Refs(m, p) \ {Slot(f, i)} \in SUBSET AllSlots
    BY InRefs
  <2>2. ASSUME NEW g \in Frame, NEW k \in Ix
        PROVE  Slot(g, k) \in Refs(m2, p) <=> Slot(g, k) \in Refs(m, p) \ {Slot(f, i)}
    <3>1. CASE g = f /\ k = i
      BY <3>1, InRefs
    <3>2. CASE g # f \/ k # i
      BY <1>1, <3>2, InRefs, SlotEqual
    <3> QED BY <3>1, <3>2
  <2>4. SameSlots(Refs(m2, p), Refs(m, p) \ {Slot(f, i)})
    BY <2>1, <2>2 DEF SameSlots
  <2> QED BY <2>4, SlotSets
<1> QED
  BY <1>1, <1>2, <1>3

\* m2 is m with page p in the empty entry i of the page table f, and with other
\* permissions, if any, in the entry j of directory d.
SetsSlot(m, m2, d, j, f, i, p) ==
  /\ m.tab \in [Frame -> Table] /\ d \in Dir /\ j \in Ix
  /\ f \in Tables(m) \ Dir /\ i \in Ix /\ p \in Page
  /\ m.tab[f][i] = Null /\ m2.tab[f][i] # Null /\ m2.tab[f][i].pg = p
  /\ m.tab[d][j] # Null /\ m2.tab[d][j] # Null /\ m2.tab[d][j].pg = m.tab[d][j].pg
  /\ \A g \in Frame, k \in Ix : (g # f \/ k # i) /\ (g # d \/ k # j)
                               => m2.tab[g][k] = m.tab[g][k]

\* Filling an empty entry of a page table adds that one reference, whatever
\* becomes of the permissions of the directory entry above it.
LEMMA RefsSet ==
  ASSUME NEW m, NEW m2, NEW d, NEW j, NEW f, NEW i, NEW p,
         SetsSlot(m, m2, d, j, f, i, p)
  PROVE  /\ Tables(m2) = Tables(m)
         /\ Refs(m2, p) = Refs(m, p) \cup {Slot(f, i)}
         /\ \A q \in Frame : q # p => Refs(m2, q) = Refs(m, q)
         /\ Slot(f, i) \notin Refs(m, p)
<1> USE DEF SetsSlot
<1>1. d # f /\ f \in Frame /\ d \in Frame
  BY DEF Tables
<1>2. \A g \in Frame, k \in Ix, q \in Frame :
        m2.tab[g][k] # Null /\ m2.tab[g][k].pg = q
        <=> \/ m.tab[g][k] # Null /\ m.tab[g][k].pg = q
            \/ g = f /\ k = i /\ q = p
  <2> SUFFICES ASSUME NEW g \in Frame, NEW k \in Ix, NEW q \in Frame
               PROVE  m2.tab[g][k] # Null /\ m2.tab[g][k].pg = q
                      <=> \/ m.tab[g][k] # Null /\ m.tab[g][k].pg = q
                          \/ g = f /\ k = i /\ q = p
    OBVIOUS
  <2>1. CASE g = f
    BY <2>1, <1>1
  <2>2. CASE g = d
    BY <2>2, <1>1
  <2>3. CASE g # f /\ g # d
    BY <2>3
  <2> QED BY <2>1, <2>2, <2>3
<1>3. Tables(m2) = Tables(m)
  <2>1. \A g \in Dir, k \in Ix :
          /\ m2.tab[g][k] # Null <=> m.tab[g][k] # Null
          /\ m.tab[g][k] # Null => m2.tab[g][k].pg = m.tab[g][k].pg
    BY <1>1
  <2> QED BY <2>1 DEF Tables
<1>4. ASSUME NEW q \in Frame, NEW g \in Frame, NEW k \in Ix
      PROVE  Slot(g, k) \in Refs(m2, q) <=>
               Slot(g, k) \in Refs(m, q) \/ (q = p /\ g = f /\ k = i)
  BY <1>2, <1>3, InRefs
<1>5. ASSUME NEW q \in Frame, q # p
      PROVE  Refs(m2, q) = Refs(m, q)
  <2>1. Refs(m2, q) \in SUBSET AllSlots /\ Refs(m, q) \in SUBSET AllSlots
    BY InRefs
  <2>2. \A g \in Frame, k \in Ix : Slot(g, k) \in Refs(m2, q) <=> Slot(g, k) \in Refs(m, q)
    BY <1>4, <1>5
  <2>4. SameSlots(Refs(m2, q), Refs(m, q))
    BY <2>1, <2>2 DEF SameSlots
  <2> QED BY <2>4, SlotSets
<1>6. Refs(m2, p) = Refs(m, p) \cup {Slot(f, i)}
  <2>1. Refs(m2, p) \in SUBSET AllSlots /\ Refs(m, p) \cup {Slot(f, i)} \in SUBSET AllSlots
    BY <1>1, InRefs, SlotType
  <2>2. \A g \in Frame, k \in Ix :
          Slot(g, k) \in Refs(m2, p) <=> Slot(g, k) \in Refs(m, p) \cup {Slot(f, i)}
    BY <1>4, SlotEqual DEF Page
  <2>4. SameSlots(Refs(m2, p), Refs(m, p) \cup {Slot(f, i)})
    BY <2>1, <2>2 DEF SameSlots
  <2> QED BY <2>4, SlotSets
<1>7. Slot(f, i) \notin Refs(m, p)
  BY <1>1, InRefs
<1> QED
  BY <1>3, <1>5, <1>6, <1>7

----------------------------------------------------------------------------
(* The operations preserve consistency *)

\* What consistency says of the frames that entries in use name.
LEMMA ConsistentFrames ==
  ASSUME NEW m, NEW h, NEW x, Consistent(m, h, x)
  PROVE  /\ Tables(m) \subseteq Page
         /\ Tables(m) \cap Dir = {}
         /\ \A f \in Dir \cup Tables(m), i \in Ix : m.tab[f][i] # Null =>
              /\ m.tab[f][i] \in Entry
              /\ m.tab[f][i].pg \in Page
              /\ Slot(f, i) \in Refs(m, m.tab[f][i].pg)
         /\ \A d \in Dir, i \in Ix : m.tab[d][i] # Null => m.tab[d][i].pg \in Tables(m)
<1>1. m.tab \in [Frame -> Table] /\ Dir \cup Tables(m) \subseteq Frame
  BY DEF Consistent, Mem, Tables
<1>2. \A f \in Dir \cup Tables(m), i \in Ix : m.tab[f][i] # Null =>
        m.tab[f][i] \in Entry /\ m.tab[f][i].pg \in Frame
  BY <1>1 DEF Table, Entry
<1>3. \A f \in Dir \cup Tables(m), i \in Ix : m.tab[f][i] # Null =>
        Slot(f, i) \in Refs(m, m.tab[f][i].pg)
  BY <1>1, InRefs
<1>4. \A f \in Dir \cup Tables(m), i \in Ix : m.tab[f][i] # Null =>
        m.tab[f][i].pg \in Page
  BY <1>2, <1>3 DEF Consistent, Page
<1>5. \A d \in Dir, i \in Ix : m.tab[d][i] # Null => m.tab[d][i].pg \in Tables(m)
  BY <1>2 DEF Tables
<1>6. Tables(m) \subseteq Page
  BY <1>4 DEF Tables
<1> QED
  BY <1>2, <1>3, <1>4, <1>5, <1>6 DEF Page

\* A page with no reference is no table, and no slot names it.
LEMMA Unreferenced ==
  ASSUME NEW m, NEW h, NEW x, Consistent(m, h, x), NEW p \in Page, m.pp_ref[p] = 0
  PROVE  Refs(m, p) = {} /\ p \notin Tables(m) /\ p \notin Dir
<1>1. Cardinality(Refs(m, p)) \in Nat /\ IsFiniteSet(Refs(m, p))
  BY RefsFinite
<1>2. Cardinality(Refs(m, p)) = 0
  BY <1>1 DEF Consistent
<1>3. Refs(m, p) = {}
  BY <1>1, <1>2, FS_EmptySet
<1>4. p \notin Tables(m)
  <2> SUFFICES ASSUME p \in Tables(m) PROVE FALSE
    OBVIOUS
  <2>1. PICK d \in Dir, i \in Ix : m.tab[d][i] # Null /\ m.tab[d][i].pg = p
    BY DEF Tables
  <2>2. Slot(d, i) \in Refs(m, p)
    BY <2>1, ConsistentFrames
  <2> QED BY <1>3, <2>2
<1> QED
  BY <1>3, <1>4 DEF Page

\* page_alloc takes a page nobody uses and gives it to the caller; with
\* ALLOC_ZERO the page is blank.
LEMMA AllocConsistent ==
  ASSUME NEW m, NEW h, Consistent(m, h, Null), NEW zero \in BOOLEAN,
         m.page_free_list # Null
  PROVE  LET a == page_alloc(m, zero)
         IN  /\ a.pg \in Page /\ a.pg \notin h /\ a.pg \notin Tables(m)
             /\ Consistent(a.mem, h \cup {a.pg}, Null)
             /\ zero => a.mem.tab[a.pg] = Blank
             /\ \A f \in Frame \ {a.pg} : a.mem.tab[f] = m.tab[f]
             /\ Tables(a.mem) = Tables(m)
<1> DEFINE p  == m.page_free_list
           m2 == page_alloc(m, zero).mem
<1>1. /\ page_alloc(m, zero).pg = p
      /\ m.pp_link \in [Frame -> Frame \cup {Null}]
      /\ m.tab \in [Frame -> Table]
      /\ p \in Frame
  BY DEF page_alloc, Consistent, Mem
<1>2. m2 = [m EXCEPT !.page_free_list = m.pp_link[p],
                     !.pp_link[p] = Null,
                     !.tab[p] = IF zero THEN Blank ELSE @]
  BY DEF page_alloc
<1>3. /\ m2.pp_ref = m.pp_ref
      /\ m2.page_free_list = m.pp_link[p]
      /\ m2.pp_link = [m.pp_link EXCEPT ![p] = Null]
      /\ m2.tab = [m.tab EXCEPT ![p] = IF zero THEN Blank ELSE @]
  BY <1>2 DEF Consistent, Mem
<1>4. m2 \in Mem
  <2>1. Blank \in Table
    BY DEF Blank, Table
  <2>2. m.pp_link[p] \in Frame \cup {Null}
    BY <1>1
  <2>3. m2.tab \in [Frame -> Table] /\ m2.pp_link \in [Frame -> Frame \cup {Null}]
    BY <1>1, <1>3, <2>1
  <2>4. m \in Mem
    BY DEF Consistent
  <2> QED BY <1>2, <1>3, <2>2, <2>3, <2>4 DEF Mem
<1> HIDE DEF m2
<1>5. FreePages(m, h) \in SUBSET Frame
  BY DEF FreePages, Page
<1>6. p \in FreePages(m, h) /\ IsFreeList(m2, FreePages(m, h) \ {p})
  BY <1>1, <1>3, <1>5, FreeListPop DEF Consistent
<1>7. p \in Page /\ p \notin h /\ m.pp_ref[p] = 0
  BY <1>6 DEF FreePages
<1>8. p \notin Tables(m) /\ p \notin Dir
  BY <1>7, Unreferenced
<1>9. \A f \in Frame \ {p} : m2.tab[f] = m.tab[f]
  BY <1>1, <1>3
<1>10. Tables(m2) = Tables(m) /\ \A q \in Frame : Refs(m2, q) = Refs(m, q)
  <2>1. \A f \in Dir \cup Tables(m) : m2.tab[f] = m.tab[f]
    BY <1>8, <1>9 DEF Tables
  <2> QED BY <2>1, RefsContent
<1>11. FreePages(m2, h \cup {p}) = FreePages(m, h) \ {p}
  BY <1>3 DEF FreePages
<1>12. Consistent(m2, h \cup {p}, Null)
  <2>1. IsFreeList(m2, FreePages(m2, h \cup {p}))
    BY <1>6, <1>11
  <2>2. \A f \in Root : Refs(m2, f) = {}
    BY <1>10 DEF Consistent
  <2>3. \A q \in Page : m2.pp_ref[q] = Cardinality(Refs(m2, q)) + (IF q = Null THEN 1 ELSE 0)
    BY <1>3, <1>10 DEF Consistent, Page
  <2>4. \A q \in Tables(m2) : \A s, t \in Refs(m2, q) : s = t
    BY <1>10 DEF Consistent, Tables
  <2>5. \A q \in h \cup {p} : m2.pp_ref[q] = 0
    BY <1>3, <1>7 DEF Consistent
  <2>6. h \cup {p} \in SUBSET Page
    BY <1>7 DEF Consistent
  <2> QED BY <1>4, <2>1, <2>2, <2>3, <2>4, <2>5, <2>6 DEF Consistent
<1>13. zero => m2.tab[p] = Blank
  BY <1>1, <1>3
<1> QED
  BY <1>1, <1>7, <1>8, <1>9, <1>10, <1>12, <1>13 DEF m2

\* page_free puts a page the caller holds back on the list.
LEMMA FreeConsistent ==
  ASSUME NEW m, NEW h, Consistent(m, h, Null), NEW p \in h
  PROVE  Consistent(page_free(m, p), h \ {p}, Null)
<1> DEFINE m2 == page_free(m, p)
<1>1. /\ m \in Mem /\ h \in SUBSET Page /\ p \in Page /\ p \in Frame
      /\ m.pp_ref[p] = 0
      /\ m.pp_link \in [Frame -> Frame \cup {Null}]
  BY DEF Consistent, Mem, Page
<1>2. /\ m2 \in Mem
      /\ m2.pp_ref = m.pp_ref
      /\ m2.tab = m.tab
      /\ m2.page_free_list = p
      /\ m2.pp_link = [m.pp_link EXCEPT ![p] = m.page_free_list]
  BY <1>1 DEF page_free, Mem
<1> HIDE DEF m2
<1>3. FreePages(m2, h \ {p}) = FreePages(m, h) \cup {p}
  BY <1>1, <1>2 DEF FreePages
<1>4. p \notin FreePages(m, h) /\ FreePages(m, h) \in SUBSET Frame
  BY DEF FreePages, Page
<1>5. IsFreeList(m2, FreePages(m2, h \ {p}))
  <2>1. IsFreeList(m, FreePages(m, h))
    BY DEF Consistent
  <2>2. IsFreeList(m2, FreePages(m, h) \cup {p})
    BY <1>1, <1>2, <1>4, <2>1, FreeListPush
  <2> QED BY <1>3, <2>2
<1>6. Tables(m2) = Tables(m) /\ \A q \in Frame : Refs(m2, q) = Refs(m, q)
  BY <1>2, RefsContent
<1>7. \A q \in Page : m2.pp_ref[q] = Cardinality(Refs(m2, q)) + (IF q = Null THEN 1 ELSE 0)
  BY <1>2, <1>6 DEF Consistent, Page
<1>8. \A f \in Root : Refs(m2, f) = {}
  BY <1>6 DEF Consistent
<1>9. \A q \in Tables(m2) : \A s, t \in Refs(m2, q) : s = t
  BY <1>6 DEF Consistent, Tables
<1>10. \A q \in h \ {p} : m2.pp_ref[q] = 0
  BY <1>2 DEF Consistent
<1> QED
  BY <1>1, <1>2, <1>5, <1>7, <1>8, <1>9, <1>10 DEF Consistent, m2

\* page_insert counts the page before it enters it: from then on the caller no
\* longer holds it, and the count is one ahead of the entries.
LEMMA CountConsistent ==
  ASSUME NEW m, NEW h, Consistent(m, h, Null),
         NEW p \in Page, p \notin Tables(m), p \in h \/ m.pp_ref[p] > 0,
         m.pp_ref[p] + 1 < RefMod
  PROVE  Consistent(pp_ref_incr(m, p), h \ {p}, p)
<1> DEFINE m2 == pp_ref_incr(m, p)
<1>1. /\ m \in Mem /\ h \in SUBSET Page /\ p \in Frame /\ p # Null
      /\ m.pp_ref \in [Frame -> 0 .. RefMod - 1]
      /\ m.pp_ref[p] \in Nat
  BY DEF Consistent, Mem, Page
<1>2. /\ m2 \in Mem
      /\ m2.pp_ref = [m.pp_ref EXCEPT ![p] = m.pp_ref[p] + 1]
      /\ m2.pp_link = m.pp_link
      /\ m2.page_free_list = m.page_free_list
      /\ m2.tab = m.tab
  BY <1>1, Increment
<1> HIDE DEF m2
<1>3. FreePages(m2, h \ {p}) = FreePages(m, h)
  BY <1>1, <1>2 DEF FreePages, Page
<1>4. IsFreeList(m2, FreePages(m2, h \ {p}))
  BY <1>2, <1>3, FreeListSame DEF Consistent
<1>5. Tables(m2) = Tables(m) /\ \A q \in Frame : Refs(m2, q) = Refs(m, q)
  BY <1>2, RefsContent
<1>6. \A q \in Page : m2.pp_ref[q] = Cardinality(Refs(m2, q)) + (IF q = p THEN 1 ELSE 0)
  <2> SUFFICES ASSUME NEW q \in Page
               PROVE  m2.pp_ref[q] = Cardinality(Refs(m2, q)) + (IF q = p THEN 1 ELSE 0)
    OBVIOUS
  <2>1. Cardinality(Refs(m, q)) \in Nat /\ q # Null
    BY RefsFinite DEF Page
  <2>2. m.pp_ref[q] = Cardinality(Refs(m, q)) + (IF q = Null THEN 1 ELSE 0)
    BY DEF Consistent
  <2> QED BY <1>1, <1>2, <1>5, <2>1, <2>2 DEF Page
<1>7. \A f \in Root : Refs(m2, f) = {}
  BY <1>5 DEF Consistent
<1>8. \A q \in Tables(m2) : \A s, t \in Refs(m2, q) : s = t
  BY <1>5 DEF Consistent, Tables
<1>9. \A q \in h \ {p} : m2.pp_ref[q] = 0
  BY <1>1, <1>2 DEF Consistent, Page
<1> QED
  BY <1>1, <1>2, <1>4, <1>5, <1>6, <1>7, <1>8, <1>9 DEF Consistent, m2

\* Entering a blank page the caller holds as the table of an empty directory
\* entry, counted once, as pgdir_walk does with the page it allocates.
LEMMA NewTableConsistent ==
  ASSUME NEW m, NEW h, NEW t \in Page \ h, NEW d \in Dir, NEW j \in Ix,
         Consistent(m, h \cup {t}, Null),
         m.tab[t] = Blank, m.tab[d][j] = Null
  PROVE  LET m2 == enter_table(m, d, j, t)
         IN  /\ Consistent(m2, h, Null)
             /\ Tables(m2) = Tables(m) \cup {t}
             /\ m2.tab[d][j] = [pg |-> t, perm |-> Perm]
             /\ \A p \in Page : p # t => m2.pp_ref[p] = m.pp_ref[p]
<1> DEFINE m2 == enter_table(m, d, j, t)
<1>1. /\ m \in Mem /\ t \in Frame /\ m.pp_ref[t] = 0 /\ d \in Frame
      /\ m.tab \in [Frame -> Table]
      /\ m.pp_ref \in [Frame -> 0 .. RefMod - 1]
      /\ h \in SUBSET Page
  BY DEF Consistent, Page, Mem
<1>2. Refs(m, t) = {} /\ t \notin Tables(m)
  BY <1>1, Unreferenced
<1>3. [pg |-> t, perm |-> Perm] \in Entry /\ [pg |-> t, perm |-> Perm] # Null
  BY <1>1 DEF Entry
<1>4. /\ pp_ref_incr(m, t) \in Mem
      /\ pp_ref_incr(m, t).pp_ref = [m.pp_ref EXCEPT ![t] = 1]
      /\ pp_ref_incr(m, t).pp_link = m.pp_link
      /\ pp_ref_incr(m, t).page_free_list = m.page_free_list
      /\ pp_ref_incr(m, t).tab = m.tab
  BY <1>1, Increment
<1>5. [m.tab EXCEPT ![d][j] = [pg |-> t, perm |-> Perm]] \in [Frame -> Table]
  BY <1>1, <1>3 DEF Table
<1>6. /\ m2 \in Mem
      /\ m2.pp_ref = [m.pp_ref EXCEPT ![t] = 1]
      /\ m2.pp_link = m.pp_link
      /\ m2.page_free_list = m.page_free_list
      /\ m2.tab = [m.tab EXCEPT ![d][j] = [pg |-> t, perm |-> Perm]]
  BY <1>4, <1>5 DEF Mem, enter_table
<1> HIDE DEF m2
<1>7. /\ Tables(m2) = Tables(m) \cup {t}
      /\ Refs(m2, t) = Refs(m, t) \cup {Slot(d, j)}
      /\ \A p \in Frame : p # t => Refs(m2, p) = Refs(m, p)
  <2>1. EntersTable(m, m2, d, j, t)
    BY <1>1, <1>2, <1>3, <1>6 DEF EntersTable, Table
  <2> QED BY <2>1, RefsNewTable
<1>8. Refs(m2, t) = {Slot(d, j)} /\ Cardinality(Refs(m2, t)) = 1
  <2>1. Refs(m2, t) = {Slot(d, j)}
    BY <1>2, <1>7
  <2>2. Cardinality({Slot(d, j)}) = 1
    BY FS_Singleton
  <2> QED BY <2>1, <2>2
<1>9. /\ m2.pp_ref[t] = 1
      /\ \A p \in Frame : p # t => m2.pp_ref[p] = m.pp_ref[p]
  BY <1>1, <1>6
<1>10. IsFreeList(m2, FreePages(m2, h))
  <2>1. FreePages(m2, h) = FreePages(m, h \cup {t})
    BY <1>1, <1>9 DEF FreePages, Page
  <2> QED BY <1>6, <2>1, FreeListSame DEF Consistent
<1>11. \A q \in Page : m2.pp_ref[q] = Cardinality(Refs(m2, q)) + (IF q = Null THEN 1 ELSE 0)
  <2> SUFFICES ASSUME NEW q \in Page
               PROVE  m2.pp_ref[q] = Cardinality(Refs(m2, q)) + (IF q = Null THEN 1 ELSE 0)
    OBVIOUS
  <2>1. q # Null /\ q \in Frame
    BY DEF Page
  <2>2. CASE q = t
    <3>1. Cardinality(Refs(m2, q)) = 1 /\ m2.pp_ref[q] = 1
      BY <1>8, <1>9, <2>2
    <3> QED BY <2>1, <3>1
  <2>3. CASE q # t
    BY <1>7, <1>9, <2>1, <2>3 DEF Consistent
  <2> QED BY <2>2, <2>3
<1>12. \A f \in Root : Refs(m2, f) = {}
  BY <1>7 DEF Consistent, Page
<1>13. \A q \in Tables(m2) : \A r, s \in Refs(m2, q) : r = s
  <2> SUFFICES ASSUME NEW q \in Tables(m2), NEW r \in Refs(m2, q), NEW s \in Refs(m2, q)
               PROVE  r = s
    OBVIOUS
  <2>1. CASE q = t
    BY <1>8, <2>1
  <2>2. CASE q # t
    BY <1>7, <2>2 DEF Consistent, Tables
  <2> QED BY <2>1, <2>2
<1>14. \A q \in h : m2.pp_ref[q] = 0
  BY <1>1, <1>9 DEF Consistent, Page
<1>15. m2.tab[d][j] = [pg |-> t, perm |-> Perm]
  BY <1>1, <1>6 DEF Table
<1>16. Consistent(m2, h, Null)
  BY <1>1, <1>6, <1>10, <1>11, <1>12, <1>13, <1>14 DEF Consistent
<1> QED
  BY <1>7, <1>9, <1>15, <1>16 DEF Page, m2

\* From m to n no page that callers use becomes a table or changes its count.
KeepsData(m, n, h) ==
  \A p \in Page \ Tables(m) : p \in h \/ m.pp_ref[p] > 0 =>
    p \notin Tables(n) /\ n.pp_ref[p] = m.pp_ref[p]

\* pgdir_walk with create set either finds the table, or enters a new blank
\* one, or fails and changes nothing.
LEMMA WalkConsistent ==
  ASSUME NEW m, NEW h, Consistent(m, h, Null), NEW d \in Dir, NEW va \in Va
  PROVE  LET w == pgdir_walk(m, d, va, TRUE)
         IN  /\ Consistent(w.mem, h, Null)
             /\ w.pt = Null => w.mem = m
             /\ w.pt # Null => /\ w.mem.tab[d][va[1]] # Null
                               /\ w.pt = w.mem.tab[d][va[1]].pg
             /\ KeepsData(m, w.mem, h)
<1> DEFINE w == pgdir_walk(m, d, va, TRUE)
           j == va[1]
<1>1. m.tab \in [Frame -> Table] /\ d \in Frame /\ j \in Ix
  BY DEF Consistent, Mem, Va
<1>2. CASE m.tab[d][j] # Null
  <2>1. w.pt = m.tab[d][j].pg /\ w.mem = m /\ w.pt # Null
    BY <1>2, ConsistentFrames, <1>1 DEF pgdir_walk, Page
  <2> QED BY <1>2, <2>1 DEF KeepsData
<1>3. CASE m.tab[d][j] = Null /\ m.page_free_list = Null
  <2>1. w.pt = Null /\ w.mem = m
    BY <1>3 DEF pgdir_walk, page_alloc
  <2> QED BY <2>1 DEF KeepsData
<1>4. CASE m.tab[d][j] = Null /\ m.page_free_list # Null
  <2>1. PICK a : a = page_alloc(m, TRUE)
    OBVIOUS
  <2>2. /\ a.pg \in Page /\ a.pg \notin h /\ a.pg \notin Tables(m)
        /\ Consistent(a.mem, h \cup {a.pg}, Null)
        /\ a.mem.tab[a.pg] = Blank
        /\ \A f \in Frame \ {a.pg} : a.mem.tab[f] = m.tab[f]
        /\ Tables(a.mem) = Tables(m)
    BY <1>4, <2>1, AllocConsistent
  <2>3. a.mem.pp_ref = m.pp_ref
    BY <1>4, <2>1 DEF page_alloc, Consistent, Mem
  <2>4. m.pp_ref[a.pg] = 0 /\ a.pg # Null /\ a.mem.tab[d][j] = Null
    BY <1>1, <1>4, <2>2, <2>3 DEF Consistent, Page
  <2>5. w.pt = a.pg /\ w.mem = enter_table(a.mem, d, j, a.pg)
    BY <1>4, <2>1, <2>4 DEF pgdir_walk
  <2> HIDE DEF w, j
  <2>7. /\ Consistent(w.mem, h, Null)
        /\ Tables(w.mem) = Tables(m) \cup {a.pg}
        /\ w.mem.tab[d][j] = [pg |-> a.pg, perm |-> Perm]
        /\ \A p \in Page : p # a.pg => w.mem.pp_ref[p] = m.pp_ref[p]
    BY <1>1, <2>2, <2>3, <2>4, <2>5, NewTableConsistent
  <2>8. w.mem.tab[d][j] # Null
    BY <2>2, <2>7 DEF Entry, Page
  <2>9. KeepsData(m, w.mem, h)
    BY <2>2, <2>4, <2>7 DEF KeepsData
  <2>10. w.pt = w.mem.tab[d][j].pg /\ w.pt # Null
    BY <2>4, <2>5, <2>7
  <2> QED BY <2>7, <2>8, <2>9, <2>10 DEF w, j
<1> QED
  BY <1>2, <1>3, <1>4

\* A page that a page table's entry names is itself no table.
LEMMA MappedNotTable ==
  ASSUME NEW m, NEW h, NEW x, Consistent(m, h, x),
         NEW f \in Tables(m), NEW k \in Ix, m.tab[f][k] # Null
  PROVE  m.tab[f][k].pg \notin Tables(m)
<1> DEFINE p == m.tab[f][k].pg
<1> SUFFICES ASSUME p \in Tables(m) PROVE FALSE
  OBVIOUS
<1>1. PICK d \in Dir, i \in Ix : m.tab[d][i] # Null /\ m.tab[d][i].pg = p
  BY DEF Tables
<1>2. Slot(d, i) \in Refs(m, p) /\ Slot(f, k) \in Refs(m, p)
  BY <1>1, ConsistentFrames
<1>3. Slot(d, i) = Slot(f, k)
  BY <1>2 DEF Consistent
<1>4. d = f
  BY <1>3, SlotEqual
<1> QED
  BY <1>4, ConsistentFrames

\* What page_remove makes of m when entry k of the page table f, which is va's,
\* maps a page.
Unmapped(m, f, k, va) ==
  tlb_invalidate([page_decref(m, m.tab[f][k].pg) EXCEPT !.tab[f][k] = Null], va)

\* page_remove at an entry that maps a page: the page loses one reference and
\* one count, and is freed with its last.
LEMMA UnmapConsistent ==
  ASSUME NEW m, NEW h, NEW x, Consistent(m, h, x),
         NEW f \in Tables(m), NEW k \in Ix, NEW va \in Va, m.tab[f][k] # Null
  PROVE  LET m2 == Unmapped(m, f, k, va)
         IN  /\ Consistent(m2, h, x)
             /\ Tables(m2) = Tables(m)
             /\ m2.tab = [m.tab EXCEPT ![f][k] = Null]
             /\ m2.cr3 = m.cr3 /\ m2.tlb = [m.tlb EXCEPT ![va] = Null]
<1> DEFINE p  == m.tab[f][k].pg
           n  == page_decref(m, p)
           m2 == Unmapped(m, f, k, va)
<1>0. m2 = tlb_invalidate([n EXCEPT !.tab[f][k] = Null], va)
  BY DEF Unmapped
<1> HIDE DEF m2
<1>1. /\ m \in Mem /\ h \in SUBSET Page
      /\ m.pp_ref \in [Frame -> 0 .. RefMod - 1]
      /\ m.pp_link \in [Frame -> Frame \cup {Null}]
      /\ m.tab \in [Frame -> Table]
      /\ f \in Frame
  BY DEF Consistent, Mem, Tables
<1>2. p \in Page /\ p \in Frame /\ f \notin Dir /\ Slot(f, k) \in Refs(m, p)
  BY ConsistentFrames DEF Page
<1>3. p \notin Tables(m)
  BY MappedNotTable
<1> HIDE DEF p
<1>4. /\ IsFiniteSet(Refs(m, p))
      /\ Cardinality(Refs(m, p)) \in Nat
      /\ Cardinality(Refs(m, p)) # 0
  <2>1. IsFiniteSet(Refs(m, p)) /\ Cardinality(Refs(m, p)) \in Nat
    BY RefsFinite
  <2>2. Refs(m, p) # {}
    BY <1>2
  <2> QED BY <2>1, <2>2, FS_EmptySet
<1>5. m.pp_ref[p] = Cardinality(Refs(m, p)) + (IF p = x THEN 1 ELSE 0) /\ m.pp_ref[p] > 0
  BY <1>2, <1>4 DEF Consistent
<1>6. p \notin h
  BY <1>5 DEF Consistent
<1>7. /\ n \in Mem
      /\ n.pp_ref = [m.pp_ref EXCEPT ![p] = m.pp_ref[p] - 1]
      /\ n.tab = m.tab /\ n.cr3 = m.cr3 /\ n.tlb = m.tlb
      /\ m.pp_ref[p] = 1 =>
           /\ n.page_free_list = p
           /\ n.pp_link = [m.pp_link EXCEPT ![p] = m.page_free_list]
      /\ m.pp_ref[p] # 1 =>
           /\ n.page_free_list = m.page_free_list
           /\ n.pp_link = m.pp_link
  BY <1>1, <1>2, <1>5, Decrement
<1> HIDE DEF n
<1>8. [m.tab EXCEPT ![f][k] = Null] \in [Frame -> Table]
  BY <1>1 DEF Table
<1>9. /\ m2 \in Mem
      /\ m2.pp_ref = n.pp_ref /\ m2.pp_link = n.pp_link
      /\ m2.page_free_list = n.page_free_list
      /\ m2.tab = [m.tab EXCEPT ![f][k] = Null]
      /\ m2.cr3 = m.cr3 /\ m2.tlb = [m.tlb EXCEPT ![va] = Null]
  <2>1. [n EXCEPT !.tab[f][k] = Null] \in Mem
    BY <1>7, <1>8 DEF Mem
  <2>2. n.tlb \in [Va -> Entry \cup {Null}] /\ [n.tlb EXCEPT ![va] = Null] \in [Va -> Entry \cup {Null}]
    BY <1>7 DEF Mem
  <2> QED BY <1>0, <1>7, <2>1, <2>2 DEF Mem, tlb_invalidate
<1>10. /\ Tables(m2) = Tables(m)
       /\ \A q \in Frame : Refs(m2, q) = Refs(m, q) \ {Slot(f, k)}
  <2>1. ClearsSlot(m, m2, f, k)
    BY <1>1, <1>2, <1>9 DEF ClearsSlot, Table
  <2> QED BY <2>1, RefsClear
<1>11. Cardinality(Refs(m2, p)) = Cardinality(Refs(m, p)) - 1
  <2>1. Refs(m2, p) = Refs(m, p) \ {Slot(f, k)}
    BY <1>2, <1>10
  <2>2. Cardinality(Refs(m, p) \ {Slot(f, k)}) = Cardinality(Refs(m, p)) - 1
    <3>1. PICK R : R = Refs(m, p)
      OBVIOUS
    <3>2. PICK r : r = Slot(f, k)
      OBVIOUS
    <3>3. r \in R /\ IsFiniteSet(R)
      BY <1>2, <1>4, <3>1, <3>2
    <3>4. Cardinality(R \ {r}) = Cardinality(R) - 1
      BY <3>3, FS_RemoveElement
    <3> QED BY <3>1, <3>2, <3>4
  <2> QED BY <2>1, <2>2
<1>12. \A q \in Frame : q # p => Refs(m2, q) = Refs(m, q)
  <2> SUFFICES ASSUME NEW q \in Frame, q # p PROVE Refs(m2, q) = Refs(m, q)
    OBVIOUS
  <2>1. Refs(m2, q) = Refs(m, q) \ {Slot(f, k)}
    BY <1>10
  <2>2. Slot(f, k) \notin Refs(m, q)
    BY <1>1, InRefs DEF p
  <2> QED BY <2>1, <2>2
<1>13. IsFreeList(m2, FreePages(m2, h))
  <2>1. IsFreeList(m, FreePages(m, h)) /\ FreePages(m, h) \in SUBSET Frame
    BY DEF Consistent, FreePages, Page
  <2>2. CASE m.pp_ref[p] = 1
    <3>1. FreePages(m2, h) = FreePages(m, h) \cup {p}
      BY <1>1, <1>2, <1>6, <1>7, <1>9, <2>2 DEF FreePages, Page
    <3>2. p \in Frame \ FreePages(m, h)
      BY <1>2, <2>2 DEF FreePages
    <3>3. m2.page_free_list = p /\ m2.pp_link = [m.pp_link EXCEPT ![p] = m.page_free_list]
      BY <1>7, <1>9, <2>2
    <3>4. IsFreeList(m2, FreePages(m, h) \cup {p})
      BY <1>1, <2>1, <3>2, <3>3, FreeListPush
    <3> QED BY <3>1, <3>4
  <2>3. CASE m.pp_ref[p] # 1
    <3>1. FreePages(m2, h) = FreePages(m, h)
      BY <1>1, <1>2, <1>5, <1>7, <1>9, <2>3 DEF FreePages, Page
    <3>2. m2.page_free_list = m.page_free_list /\ m2.pp_link = m.pp_link
      BY <1>7, <1>9, <2>3
    <3> QED BY <2>1, <3>1, <3>2, FreeListSame
  <2> QED BY <2>2, <2>3
<1>14. \A q \in Page : m2.pp_ref[q] = Cardinality(Refs(m2, q)) + (IF q = x THEN 1 ELSE 0)
  <2> SUFFICES ASSUME NEW q \in Page
               PROVE  m2.pp_ref[q] = Cardinality(Refs(m2, q)) + (IF q = x THEN 1 ELSE 0)
    OBVIOUS
  <2>1. CASE q = p
    <3>1. m2.pp_ref[p] = m.pp_ref[p] - 1
      BY <1>1, <1>2, <1>7, <1>9
    <3>2. m2.pp_ref[p] = Cardinality(Refs(m2, p)) + (IF p = x THEN 1 ELSE 0)
      BY <1>4, <1>5, <1>11, <3>1
    <3> QED BY <2>1, <3>2
  <2>2. CASE q # p
    <3>1. m2.pp_ref[q] = m.pp_ref[q] /\ Refs(m2, q) = Refs(m, q)
      BY <1>1, <1>7, <1>9, <1>12, <2>2 DEF Page
    <3> QED BY <3>1 DEF Consistent
  <2> QED BY <2>1, <2>2
<1>15. \A q \in Root : Refs(m2, q) = {}
  BY <1>10 DEF Consistent
<1>16. \A q \in Tables(m2) : \A r, s \in Refs(m2, q) : r = s
  BY <1>10 DEF Consistent, Tables
<1>17. \A q \in h : m2.pp_ref[q] = 0
  BY <1>1, <1>6, <1>7, <1>9 DEF Consistent, Page
<1>18. x # Null => x \in Page /\ x \notin h /\ x \notin Tables(m2)
  BY <1>10 DEF Consistent
<1>19. Consistent(m2, h, x)
  BY <1>1, <1>9, <1>13, <1>14, <1>15, <1>16, <1>17, <1>18 DEF Consistent
<1> QED
  BY <1>9, <1>10, <1>19 DEF m2

\* page_remove keeps the tables and leaves nothing mapped at va.
LEMMA RemoveConsistent ==
  ASSUME NEW m, NEW h, NEW x, Consistent(m, h, x), NEW d \in Dir, NEW va \in Va
  PROVE  LET m2 == page_remove(m, d, va)
         IN  /\ Consistent(m2, h, x)
             /\ Tables(m2) = Tables(m)
             /\ \A i \in Ix : m2.tab[d][i] = m.tab[d][i]
             /\ m.tab[d][va[1]] # Null => m2.tab[m.tab[d][va[1]].pg][va[2]] = Null
<1> DEFINE f  == m.tab[d][va[1]].pg
           m2 == page_remove(m, d, va)
<1>1. va[1] \in Ix /\ va[2] \in Ix
  BY DEF Va
<1>2. CASE m.tab[d][va[1]] = Null
  <2>1. m2 = m
    BY <1>2 DEF page_remove, page_lookup, pgdir_walk
  <2> QED BY <1>2, <2>1
<1>3. CASE m.tab[d][va[1]] # Null
  <2>1. f \in Tables(m) /\ f # Null /\ f # d
    BY <1>1, <1>3, ConsistentFrames DEF Page
  <2>2. page_lookup(m, d, va) = IF m.tab[f][va[2]] = Null THEN Null ELSE m.tab[f][va[2]].pg
    BY <1>3, <2>1 DEF page_lookup, pgdir_walk
  <2> HIDE DEF f
  <2>3. CASE m.tab[f][va[2]] = Null
    <3>1. m2 = m
      BY <2>2, <2>3 DEF page_remove
    <3> QED BY <2>3, <3>1 DEF f
  <2>4. CASE m.tab[f][va[2]] # Null
    <3>1. m.tab[f][va[2]].pg # Null
      BY <1>1, <2>1, <2>4, ConsistentFrames DEF Page
    <3>2. m2 = Unmapped(m, f, va[2], va)
      BY <2>2, <2>4, <3>1 DEF page_remove, Unmapped, f
    <3> HIDE DEF m2
    <3>3. /\ Consistent(m2, h, x)
          /\ Tables(m2) = Tables(m)
          /\ m2.tab = [m.tab EXCEPT ![f][va[2]] = Null]
      <4>1. PICK k \in Ix : k = va[2]
        BY <1>1
      <4>2. m.tab[f][k] # Null
        BY <2>4, <4>1
      <4>3. LET n == Unmapped(m, f, k, va)
            IN  /\ Consistent(n, h, x)
                /\ Tables(n) = Tables(m)
                /\ n.tab = [m.tab EXCEPT ![f][k] = Null]
                /\ n.cr3 = m.cr3 /\ n.tlb = [m.tlb EXCEPT ![va] = Null]
        BY <2>1, <4>2, UnmapConsistent
      <4> QED BY <3>2, <4>1, <4>3
    <3>4. m.tab \in [Frame -> Table] /\ f \in Frame
      BY <2>1 DEF Consistent, Mem, Tables
    <3>5. m2.tab[f][va[2]] = Null
      BY <1>1, <3>3, <3>4 DEF Table
    <3>6. \A i \in Ix : m2.tab[d][i] = m.tab[d][i]
      BY <2>1, <3>3, <3>4
    <3> QED BY <3>3, <3>5, <3>6 DEF f, m2
  <2> QED BY <2>3, <2>4
<1> QED
  BY <1>2, <1>3

\* What the last step of page_insert makes of m: p in entry k of the table that
\* entry j of d names, and that entry open for perm.
Placed(m, d, j, k, p, perm) ==
  [m EXCEPT !.tab[m.tab[d][j].pg][k] = [pg |-> p, perm |-> perm],
            !.tab[d][j].perm = @ \cup perm]

\* page_insert's last step, as a change of slots: the empty slot names p and
\* the permissions of the directory entry are widened.
LEMMA PlaceSlots ==
  ASSUME NEW m, NEW h, NEW p \in Page, Consistent(m, h, p),
         NEW d \in Dir, NEW j \in Ix, NEW k \in Ix, NEW perm \in SUBSET Perm,
         m.tab[d][j] # Null, m.tab[m.tab[d][j].pg][k] = Null
  PROVE  LET f  == m.tab[d][j].pg
             e  == [pg |-> p, perm |-> perm]
             m2 == Placed(m, d, j, k, p, perm)
         IN  /\ m2 \in Mem /\ e # Null
             /\ m2.pp_ref = m.pp_ref /\ m2.pp_link = m.pp_link
             /\ m2.page_free_list = m.page_free_list
             /\ m2.cr3 = m.cr3 /\ m2.tlb = m.tlb
             /\ SetsSlot(m, m2, d, j, f, k, p)
             /\ m2.tab[f][k] = e
             /\ m2.tab[d][j] = [m.tab[d][j] EXCEPT !.perm = @ \cup perm]
<1> DEFINE f  == m.tab[d][j].pg
           e  == [pg |-> p, perm |-> perm]
           m2 == Placed(m, d, j, k, p, perm)
<1>0. m2 = [m EXCEPT !.tab[f][k] = e, !.tab[d][j].perm = @ \cup perm]
  BY DEF Placed
<1> HIDE DEF m2
<1>1. /\ m \in Mem /\ h \in SUBSET Page /\ p # Null /\ p \in Frame
      /\ m.tab \in [Frame -> Table]
      /\ d \in Frame
  BY DEF Consistent, Mem, Page
<1>2. f \in Tables(m) /\ f \in Frame /\ f # d /\ f \notin Dir
  BY ConsistentFrames DEF Page
<1>3. m.tab[d][j] \in Entry /\ e \in Entry /\ e # Null
  BY <1>1, ConsistentFrames DEF Entry
<1> DEFINE pde == [m.tab[d][j] EXCEPT !.perm = @ \cup perm]
<1>4. pde \in Entry /\ pde # Null /\ pde.pg = f
  BY <1>3 DEF Entry
<1>5. m2.tab = [m.tab EXCEPT ![f] = [m.tab[f] EXCEPT ![k] = e],
                             ![d] = [m.tab[d] EXCEPT ![j] = pde]]
  BY <1>0, <1>1, <1>2 DEF Mem
<1>6. [m.tab[f] EXCEPT ![k] = e] \in Table /\ [m.tab[d] EXCEPT ![j] = pde] \in Table
  BY <1>1, <1>2, <1>3, <1>4 DEF Table
<1>7. m2.tab \in [Frame -> Table]
  <2>1. PICK tf \in Table : tf = [m.tab[f] EXCEPT ![k] = e]
    BY <1>6
  <2>2. PICK td \in Table : td = [m.tab[d] EXCEPT ![j] = pde]
    BY <1>6
  <2>3. [m.tab EXCEPT ![f] = tf, ![d] = td] \in [Frame -> Table]
    BY <1>1
  <2>4. m2.tab = [m.tab EXCEPT ![f] = tf, ![d] = td]
    BY <1>5, <2>1, <2>2
  <2> QED BY <2>3, <2>4
<1>8. /\ m2 \in Mem
      /\ m2.pp_ref = m.pp_ref /\ m2.pp_link = m.pp_link
      /\ m2.page_free_list = m.page_free_list
      /\ m2.cr3 = m.cr3 /\ m2.tlb = m.tlb
  BY <1>0, <1>1, <1>7 DEF Mem
<1>9. /\ m2.tab[f][k] = e
      /\ m2.tab[d][j] = pde
      /\ \A g \in Frame, i \in Ix : (g # f \/ i # k) /\ (g # d \/ i # j)
                                    => m2.tab[g][i] = m.tab[g][i]
  <2> HIDE DEF f, e, pde, m2
  <2> QED BY <1>1, <1>2, <1>5 DEF Table
<1>10. SetsSlot(m, m2, d, j, f, k, p)
  BY <1>1, <1>2, <1>3, <1>4, <1>9 DEF SetsSlot
<1> QED
  BY <1>3, <1>8, <1>9, <1>10 DEF m2

\* page_insert's last step: the counted page x enters the empty slot, and the
\* permissions of the directory entry are widened.
LEMMA PlaceConsistent ==
  ASSUME NEW m, NEW h, NEW p \in Page, Consistent(m, h, p),
         NEW d \in Dir, NEW j \in Ix, NEW k \in Ix, NEW perm \in SUBSET Perm,
         m.tab[d][j] # Null, m.tab[m.tab[d][j].pg][k] = Null
  PROVE  Consistent(Placed(m, d, j, k, p, perm), h, Null)
<1> DEFINE f  == m.tab[d][j].pg
           e  == [pg |-> p, perm |-> perm]
           m2 == Placed(m, d, j, k, p, perm)
<1>1. /\ m \in Mem /\ h \in SUBSET Page /\ p # Null /\ p \in Frame
  BY DEF Consistent, Page
<1>2. f \in Tables(m) /\ f \in Frame /\ f # d /\ f \notin Dir
  BY ConsistentFrames DEF Page
<1>3. /\ m2 \in Mem /\ e # Null
      /\ m2.pp_ref = m.pp_ref /\ m2.pp_link = m.pp_link
      /\ m2.page_free_list = m.page_free_list
      /\ m2.cr3 = m.cr3 /\ m2.tlb = m.tlb
      /\ SetsSlot(m, m2, d, j, f, k, p)
      /\ m2.tab[f][k] = e
      /\ m2.tab[d][j] = [m.tab[d][j] EXCEPT !.perm = @ \cup perm]
  BY PlaceSlots
<1> HIDE DEF m2
<1>4. /\ Tables(m2) = Tables(m)
      /\ Refs(m2, p) = Refs(m, p) \cup {Slot(f, k)}
      /\ \A q \in Frame : q # p => Refs(m2, q) = Refs(m, q)
      /\ Slot(f, k) \notin Refs(m, p)
  BY <1>3, RefsSet
<1>5. Cardinality(Refs(m2, p)) = Cardinality(Refs(m, p)) + 1
  <2>1. PICK R : R = Refs(m, p)
    OBVIOUS
  <2>2. PICK r : r = Slot(f, k)
    OBVIOUS
  <2>3. IsFiniteSet(R) /\ r \notin R
    BY <1>4, <2>1, <2>2, RefsFinite
  <2>4. Cardinality(R \cup {r}) = Cardinality(R) + 1
    BY <2>3, FS_AddElement
  <2> QED BY <1>4, <2>1, <2>2, <2>4
<1>6. \A q \in Page : m2.pp_ref[q] = Cardinality(Refs(m2, q)) + (IF q = Null THEN 1 ELSE 0)
  <2> SUFFICES ASSUME NEW q \in Page
               PROVE  m2.pp_ref[q] = Cardinality(Refs(m2, q)) + (IF q = Null THEN 1 ELSE 0)
    OBVIOUS
  <2>1. q # Null /\ m.pp_ref[q] = Cardinality(Refs(m, q)) + (IF q = p THEN 1 ELSE 0)
    BY DEF Consistent, Page
  <2>2. Cardinality(Refs(m, q)) \in Nat
    BY RefsFinite
  <2>3. CASE q = p
    BY <1>3, <1>5, <2>1, <2>2, <2>3
  <2>4. CASE q # p
    BY <1>3, <1>4, <2>1, <2>4 DEF Page
  <2> QED BY <2>3, <2>4
<1>7. p \notin Tables(m) /\ p \notin h
  BY <1>1 DEF Consistent
<1>8. \A q \in Root : Refs(m2, q) = {}
  BY <1>4 DEF Consistent, Page
<1>9. \A q \in Tables(m2) : \A r, s \in Refs(m2, q) : r = s
  BY <1>4, <1>7 DEF Consistent, Tables
<1>10. IsFreeList(m2, FreePages(m2, h))
  <2>1. FreePages(m2, h) = FreePages(m, h)
    BY <1>3 DEF FreePages
  <2> QED BY <1>3, <2>1, FreeListSame DEF Consistent
<1>11. \A q \in h : m2.pp_ref[q] = 0
  BY <1>3 DEF Consistent
<1> QED
  BY <1>1, <1>3, <1>6, <1>8, <1>9, <1>10, <1>11 DEF Consistent, m2, e

\* page_insert, on every path: the counts match the entries again when it
\* returns, and a failure has changed nothing.
LEMMA InsertConsistent ==
  ASSUME NEW m, NEW h, Consistent(m, h, Null),
         NEW d \in Dir, NEW p \in Page, NEW va \in Va, NEW perm \in SUBSET Perm,
         p \notin Tables(m), p \in h \/ m.pp_ref[p] > 0, m.pp_ref[p] + 1 < RefMod
  PROVE  LET r == page_insert(m, d, p, va, perm)
         IN  Consistent(r.mem, IF r.ok THEN h \ {p} ELSE h, Null)
<1>1. PICK w : w = pgdir_walk(m, d, va, TRUE)
  OBVIOUS
<1>2. /\ Consistent(w.mem, h, Null)
      /\ w.pt = Null => w.mem = m
      /\ w.pt # Null => /\ w.mem.tab[d][va[1]] # Null
                        /\ w.pt = w.mem.tab[d][va[1]].pg
      /\ p \notin Tables(w.mem) /\ w.mem.pp_ref[p] = m.pp_ref[p]
  <2>1. LET v == pgdir_walk(m, d, va, TRUE)
        IN  /\ Consistent(v.mem, h, Null)
            /\ v.pt = Null => v.mem = m
            /\ v.pt # Null => /\ v.mem.tab[d][va[1]] # Null
                              /\ v.pt = v.mem.tab[d][va[1]].pg
            /\ KeepsData(m, v.mem, h)
    BY WalkConsistent
  <2> QED BY <1>1, <2>1 DEF KeepsData
<1>3. va[1] \in Ix /\ va[2] \in Ix
  BY DEF Va
<1>4. CASE w.pt = Null
  <2>1. page_insert(m, d, p, va, perm) = [ok |-> FALSE, mem |-> m]
    BY <1>1, <1>4 DEF page_insert
  <2> QED BY <2>1
<1>5. CASE w.pt # Null
  <2>1. PICK c : c = pp_ref_incr(w.mem, p)
    OBVIOUS
  <2>2. Consistent(c, h \ {p}, p)
    BY <1>2, <2>1, CountConsistent
  <2>3. c.tab = w.mem.tab
    BY <2>1 DEF pp_ref_incr, Consistent, Mem
  <2>4. PICK r : r = IF c.tab[w.pt][va[2]] = Null THEN c ELSE page_remove(c, d, va)
    OBVIOUS
  <2>5. /\ Consistent(r, h \ {p}, p)
        /\ r.tab[d][va[1]] # Null
        /\ w.pt = r.tab[d][va[1]].pg
        /\ r.tab[w.pt][va[2]] = Null
    <3>1. CASE c.tab[w.pt][va[2]] = Null
      BY <1>2, <1>5, <2>2, <2>3, <2>4, <3>1
    <3>2. CASE c.tab[w.pt][va[2]] # Null
      <4>1. r = page_remove(c, d, va)
        BY <2>4, <3>2
      <4>2. LET n == page_remove(c, d, va)
            IN  /\ Consistent(n, h \ {p}, p)
                /\ Tables(n) = Tables(c)
                /\ \A i \in Ix : n.tab[d][i] = c.tab[d][i]
                /\ c.tab[d][va[1]] # Null => n.tab[c.tab[d][va[1]].pg][va[2]] = Null
        BY SMTT(30), <2>2, RemoveConsistent
      <4> QED BY <1>2, <1>3, <1>5, <2>3, <4>1, <4>2
    <3> QED BY <3>1, <3>2
  <2>6. page_insert(m, d, p, va, perm) =
          [ok |-> TRUE, mem |-> Placed(r, d, va[1], va[2], p, perm)]
    BY <1>1, <1>5, <2>1, <2>4, <2>5 DEF page_insert, Placed
  <2>7. Consistent(Placed(r, d, va[1], va[2], p, perm), h \ {p}, Null)
    BY <1>3, <2>5, PlaceConsistent
  <2> QED BY <2>6, <2>7
<1> QED
  BY <1>4, <1>5

\* check_page takes back a table it has emptied: the page is the caller's.
LEMMA TakeBackConsistent ==
  ASSUME NEW m, NEW h, Consistent(m, h, Null), NEW d \in Dir, NEW j \in Ix,
         m.tab[d][j] # Null, m.tab[m.tab[d][j].pg] = Blank
  PROVE  LET t == m.tab[d][j].pg
         IN  Consistent([m EXCEPT !.tab[d][j] = Null, !.pp_ref[t] = 0], h \cup {t}, Null)
<1> DEFINE t  == m.tab[d][j].pg
           m2 == [m EXCEPT !.tab[d][j] = Null, !.pp_ref[t] = 0]
<1>1. /\ m \in Mem /\ h \in SUBSET Page /\ d \in Frame
      /\ m.tab \in [Frame -> Table]
      /\ m.pp_ref \in [Frame -> 0 .. RefMod - 1]
  BY DEF Consistent, Mem, Page
<1>2. t \in Tables(m) /\ t \in Page /\ t \in Frame /\ Slot(d, j) \in Refs(m, t)
  BY ConsistentFrames DEF Page
<1>3. Refs(m, t) = {Slot(d, j)}
  BY <1>2 DEF Consistent
<1>4. m.pp_ref[t] = 1
  <2>1. Cardinality({Slot(d, j)}) = 1
    BY FS_Singleton
  <2>2. Cardinality(Refs(m, t)) = 1
    BY <1>3, <2>1
  <2>3. t # Null
    BY <1>2
  <2> QED BY <1>2, <2>2, <2>3 DEF Consistent
<1> HIDE DEF t
<1>5. /\ m2.tab = [m.tab EXCEPT ![d][j] = Null]
      /\ m2.pp_ref = [m.pp_ref EXCEPT ![t] = 0]
      /\ m2.pp_link = m.pp_link
      /\ m2.page_free_list = m.page_free_list
  BY <1>1 DEF Mem
<1>6. m2 \in Mem
  <2>1. m2.tab \in [Frame -> Table]
    BY <1>1, <1>5 DEF Table
  <2>2. 0 \in 0 .. RefMod - 1
    OBVIOUS
  <2>3. m2.pp_ref \in [Frame -> 0 .. RefMod - 1]
    <3>1. PICK R \in [Frame -> 0 .. RefMod - 1] : R = m.pp_ref
      BY <1>1
    <3>2. [R EXCEPT ![t] = 0] \in [Frame -> 0 .. RefMod - 1]
      BY <2>2
    <3> QED BY <1>5, <3>1, <3>2
  <2> QED BY <1>1, <2>1, <2>3 DEF Mem
<1> HIDE DEF m2
<1>7. /\ Tables(m2) = Tables(m) \ {t}
      /\ Refs(m2, t) = {}
      /\ \A q \in Frame : q # t => Refs(m2, q) = Refs(m, q)
  <2>1. DropsTable(m, m2, d, j, t)
    BY <1>1, <1>2, <1>3, <1>5 DEF DropsTable, Table, t
  <2> QED BY <2>1, RefsDropTable
<1>8. /\ m2.pp_ref[t] = 0
      /\ \A q \in Frame : q # t => m2.pp_ref[q] = m.pp_ref[q]
  BY <1>1, <1>2, <1>5
<1>9. IsFreeList(m2, FreePages(m2, h \cup {t}))
  <2>1. FreePages(m2, h \cup {t}) = FreePages(m, h)
    BY <1>2, <1>4, <1>8 DEF FreePages, Page
  <2> QED BY <1>5, <2>1, FreeListSame DEF Consistent
<1>10. \A q \in Page : m2.pp_ref[q] = Cardinality(Refs(m2, q)) + (IF q = Null THEN 1 ELSE 0)
  <2> SUFFICES ASSUME NEW q \in Page
               PROVE  m2.pp_ref[q] = Cardinality(Refs(m2, q)) + (IF q = Null THEN 1 ELSE 0)
    OBVIOUS
  <2>1. q # Null /\ q \in Frame
    BY DEF Page
  <2>2. CASE q = t
    <3>1. Cardinality(Refs(m2, q)) = 0
      BY <1>7, <2>2, FS_EmptySet
    <3> QED BY <1>8, <2>1, <2>2, <3>1
  <2>3. CASE q # t
    BY <1>7, <1>8, <2>1, <2>3 DEF Consistent
  <2> QED BY <2>2, <2>3
<1>11. \A q \in Root : Refs(m2, q) = {}
  BY <1>7 DEF Consistent
<1>12. \A q \in Tables(m2) : \A r, s \in Refs(m2, q) : r = s
  BY <1>7 DEF Consistent, Tables
<1>13. h \cup {t} \in SUBSET Page /\ \A q \in h \cup {t} : m2.pp_ref[q] = 0
  BY <1>1, <1>2, <1>8 DEF Consistent, Page
<1> QED
  BY <1>6, <1>9, <1>10, <1>11, <1>12, <1>13 DEF Consistent, m2, t

\* Whatever is written to data pages, %cr3 or the TLB leaves the rest as it is.
LEMMA ContentConsistent ==
  ASSUME NEW m, NEW h, Consistent(m, h, Null), NEW m2 \in Mem,
         m2.pp_ref = m.pp_ref, m2.pp_link = m.pp_link,
         m2.page_free_list = m.page_free_list,
         \A f \in Dir \cup Tables(m) : m2.tab[f] = m.tab[f]
  PROVE  Consistent(m2, h, Null)
<1>1. Tables(m2) = Tables(m) /\ \A p \in Frame : Refs(m2, p) = Refs(m, p)
  BY RefsContent
<1>2. FreePages(m2, h) = FreePages(m, h)
  BY DEF FreePages
<1>3. IsFreeList(m2, FreePages(m2, h))
  BY <1>2, FreeListSame DEF Consistent
<1>4. \A q \in Page : m2.pp_ref[q] = Cardinality(Refs(m2, q)) + (IF q = Null THEN 1 ELSE 0)
  BY <1>1 DEF Consistent, Page
<1>5. \A q \in Root : Refs(m2, q) = {}
  BY <1>1 DEF Consistent
<1>6. \A q \in Tables(m2) : \A r, s \in Refs(m2, q) : r = s
  BY <1>1 DEF Consistent, Tables
<1> QED
  BY <1>3, <1>4, <1>5, <1>6 DEF Consistent

----------------------------------------------------------------------------
(* The specification *)

\* page_init's order exists: it visits each page once.
LEMMA OrderExists ==
  LET n == Cardinality(Page)
  IN  /\ n \in Nat
      /\ Order(Page) \in [1 .. n -> Page]
      /\ \A p \in Page : \E i \in 1 .. n : Order(Page)[i] = p
      /\ \A i, j \in 1 .. n : Order(Page)[i] = Order(Page)[j] => i = j
<1> DEFINE n == Cardinality(Page)
<1>1. IsFiniteSet(Page)
  BY FS_Subset DEF Page
<1>2. n \in Nat /\ ExistsBijection(1 .. n, Page)
  BY <1>1, FS_CardinalityType
<1>3. \E s \in [1 .. n -> Page] :
        /\ \A p \in Page : \E i \in 1 .. n : s[i] = p
        /\ \A i, j \in 1 .. n : s[i] = s[j] => i = j
  <2>1. PICK s : s \in Bijection(1 .. n, Page)
    BY <1>2 DEF ExistsBijection
  <2> HIDE DEF n
  <2>2. /\ s \in [1 .. n -> Page]
        /\ \A i, j \in 1 .. n : s[i] = s[j] => i = j
        /\ \A p \in Page : \E i \in 1 .. n : s[i] = p
    <3>1. PICK D : D = 1 .. n
      OBVIOUS
    <3>2. /\ s \in [D -> Page]
          /\ \A i, j \in D : s[i] = s[j] => i = j
          /\ \A p \in Page : \E i \in D : s[i] = p
      <4>1. s \in Bijection(D, Page)
        BY <2>1, <3>1
      <4>2. s \in [D -> Page]
        BY <4>1, Fun_BijectionProperties
      <4>3. \A i, j \in D : s[i] = s[j] => i = j
        BY <4>1, Fun_BijectionProperties
      <4>4. \A p \in Page : \E i \in D : s[i] = p
        BY <4>1, Fun_BijectionProperties
      <4> QED BY <4>2, <4>3, <4>4
    <3> QED BY <3>1, <3>2
  <2> QED BY <2>2
<1> QED
  BY <1>2, <1>3 DEF Order

\* page_init leaves every page it manages on the list, and no reference to any.
LEMMA InitConsistent ==
  Init => Inv
<1> SUFFICES ASSUME Init PROVE Inv
  OBVIOUS
<1> DEFINE n == Cardinality(Page)
<1>0. PICK order : order = Order(Page)
  OBVIOUS
<1>1. /\ n \in Nat
      /\ order \in [1 .. n -> Page]
      /\ \A p \in Page : \E i \in 1 .. n : order[i] = p
      /\ \A i, j \in 1 .. n : order[i] = order[j] => i = j
  BY <1>0, OrderExists
<1>2. /\ mem.pp_ref = [f \in Frame |-> IF f \in Root THEN 1 ELSE 0]
      /\ mem.pp_link = page_init(order).link
      /\ mem.page_free_list = page_init(order).head
      /\ mem.tab = [f \in Frame |-> IF f \in Root THEN Blank
                                    ELSE Junk(CHOOSE q \in Words : TRUE)]
      /\ mem.cr3 = CHOOSE d \in Dir : TRUE
      /\ mem.tlb = [va \in Va |-> Null]
      /\ mem = [pp_ref |-> mem.pp_ref, pp_link |-> mem.pp_link,
                page_free_list |-> mem.page_free_list,
                tab |-> mem.tab, cr3 |-> mem.cr3, tlb |-> mem.tlb]
      /\ held = {}
  BY <1>0 DEF Init
<1> HIDE DEF n
<1>3. Page \in SUBSET Frame
  BY DEF Page
<1>4. /\ IsFreeList(mem, Page)
      /\ mem.pp_link \in [Frame -> Frame \cup {Null}]
      /\ mem.page_free_list \in Frame \cup {Null}
  <2>1. Enum(order, n, Page)
    BY <1>1, <1>3 DEF Enum
  <2>2. PagesPushed(mem, Page, n, order)
    BY <1>2, <2>1 DEF PagesPushed
  <2> QED BY <2>2, PageInitList
<1>5. mem \in Mem
  <2>1. mem.pp_ref \in [Frame -> 0 .. RefMod - 1]
    BY <1>2
  <2>3. Blank \in Table /\ Junk(CHOOSE q \in Words : TRUE) \in Table
    BY DEF Blank, Junk, Table, Entry
  <2>4. mem.tab \in [Frame -> Table]
    BY <1>2, <2>3
  <2>5. mem.cr3 \in Frame
    BY <1>2
  <2>6. mem.tlb \in [Va -> Entry \cup {Null}]
    BY <1>2
  <2> QED BY <1>2, <1>4, <2>1, <2>4, <2>5, <2>6 DEF Mem
<1>6. Tables(mem) = {}
  BY <1>2 DEF Tables, Blank
<1>7. \A p : Refs(mem, p) = {}
  BY <1>2, <1>6 DEF Refs, Slots, Blank
<1>8. \A p \in Page : mem.pp_ref[p] = 0 /\ p # Null
  BY <1>2 DEF Page
<1>9. \A p \in Page : mem.pp_ref[p] = Cardinality(Refs(mem, p)) + (IF p = Null THEN 1 ELSE 0)
  <2> SUFFICES ASSUME NEW p \in Page
               PROVE  mem.pp_ref[p] = Cardinality(Refs(mem, p)) + (IF p = Null THEN 1 ELSE 0)
    OBVIOUS
  <2>1. Cardinality({}) = 0
    BY FS_EmptySet
  <2>2. Cardinality(Refs(mem, p)) = 0
    BY <1>7, <2>1
  <2> QED BY <1>8, <2>2
<1>10. IsFreeList(mem, FreePages(mem, held))
  <2>1. FreePages(mem, held) = Page
    BY <1>2, <1>8 DEF FreePages
  <2> QED BY <1>4, <2>1
<1> QED
  BY <1>2, <1>5, <1>6, <1>7, <1>9, <1>10 DEF Inv, Consistent

\* Every call, and every whim of the processor, preserves consistency, as long
\* as the bound on mappings is within what pp_ref can count.
LEMMA NextConsistent ==
  ASSUME MaxMap < RefMod
  PROVE  Inv /\ [Next]_vars => Inv'
<1> SUFFICES ASSUME Inv, [Next]_vars PROVE Consistent(mem', held', Null)
  BY DEF Inv
<1> USE DEF Inv
<1>1. mem \in Mem /\ held \in SUBSET Page /\ mem.pp_ref \in [Frame -> 0 .. RefMod - 1]
  BY DEF Consistent, Mem
<1>2. ASSUME NEW zero \in BOOLEAN, Alloc(zero)
      PROVE  Consistent(mem', held', Null)
  <2>1. mem.page_free_list # Null
    BY <1>2 DEF Alloc, page_alloc
  <2>2. Consistent(page_alloc(mem, zero).mem, held \cup {page_alloc(mem, zero).pg}, Null)
    BY <2>1, AllocConsistent
  <2> QED BY <1>2, <2>2 DEF Alloc
<1>3. ASSUME NEW p \in Page, Free(p)
      PROVE  Consistent(mem', held', Null)
  BY <1>3, FreeConsistent DEF Free
<1>4. ASSUME NEW p \in Page, NEW q \in Words, Write(p, q)
      PROVE  Consistent(mem', held', Null)
  <2>1. Junk(q) \in Table
    BY DEF Junk, Table, Entry
  <2>2. p \in Frame /\ p \notin Dir \cup Tables(mem) /\ held' = held
    BY <1>4 DEF Write, DataPage, Page
  <2>3. /\ mem' \in Mem
        /\ mem'.pp_ref = mem.pp_ref /\ mem'.pp_link = mem.pp_link
        /\ mem'.page_free_list = mem.page_free_list
        /\ mem'.tab = [mem.tab EXCEPT ![p] = Junk(q)]
    BY <1>1, <1>4, <2>1, <2>2 DEF Write, Mem
  <2>4. mem.tab \in [Frame -> Table]
    BY <1>1 DEF Mem
  <2>5. \A f \in Dir \cup Tables(mem) : mem'.tab[f] = mem.tab[f]
    BY <2>2, <2>3, <2>4 DEF Tables
  <2>6. Consistent(mem', held, Null)
    BY <2>3, <2>5, ContentConsistent
  <2> QED BY <2>2, <2>6
<1>5. ASSUME NEW d \in Dir, NEW p \in Page, NEW va \in Va, NEW perm \in PermChoice,
             Insert(d, p, va, perm)
      PROVE  Consistent(mem', held', Null)
  <2>1. /\ p \notin Tables(mem) /\ (p \in held \/ mem.pp_ref[p] > 0)
        /\ perm \in SUBSET Perm
    BY <1>5 DEF Insert, DataPage
  <2>2. mem.pp_ref[p] + 1 < RefMod
    BY <1>1, <1>5 DEF Insert, Page
  <2>3. PICK r : r = page_insert(mem, d, p, va, perm)
    OBVIOUS
  <2>4. Consistent(r.mem, IF r.ok THEN held \ {p} ELSE held, Null)
    BY <2>1, <2>2, <2>3, InsertConsistent
  <2> QED BY <1>5, <2>3, <2>4 DEF Insert
<1>6. ASSUME NEW d \in Dir, NEW va \in Va, Remove(d, va)
      PROVE  Consistent(mem', held', Null)
  <2>1. Consistent(page_remove(mem, d, va), held, Null)
    BY RemoveConsistent
  <2> QED BY <1>6, <2>1 DEF Remove
<1>7. ASSUME NEW d \in Dir, NEW va \in Va, Walk(d, va)
      PROVE  Consistent(mem', held', Null)
  <2>1. Consistent(pgdir_walk(mem, d, va, TRUE).mem, held, Null)
    BY WalkConsistent
  <2> QED BY <1>7, <2>1 DEF Walk
<1>8. ASSUME NEW d \in Dir, NEW i \in Ix, TakeBack(d, i)
      PROVE  Consistent(mem', held', Null)
  <2>1. LET t == mem.tab[d][i].pg
        IN  Consistent([mem EXCEPT !.tab[d][i] = Null, !.pp_ref[t] = 0],
                       held \cup {t}, Null)
    BY <1>8, TakeBackConsistent DEF TakeBack
  <2> QED BY <1>8, <2>1 DEF TakeBack
<1>9. ASSUME NEW d \in Dir, Lcr3(d)
      PROVE  Consistent(mem', held', Null)
  <2>1. d \in Frame /\ [va \in Va |-> Null] \in [Va -> Entry \cup {Null}]
    OBVIOUS
  <2>2. /\ mem' \in Mem
        /\ mem'.pp_ref = mem.pp_ref /\ mem'.pp_link = mem.pp_link
        /\ mem'.page_free_list = mem.page_free_list
        /\ mem'.tab = mem.tab
        /\ held' = held
    BY <1>1, <1>9, <2>1 DEF Lcr3, lcr3, Mem
  <2> QED BY <2>2, ContentConsistent
<1>10. ASSUME NEW va \in Va, TlbFill(va)
      PROVE  Consistent(mem', held', Null)
  <2>1. translate(mem, mem.cr3, va) \in Entry \cup {Null}
    BY <1>1, TranslateType
  <2>2. /\ mem' \in Mem
        /\ mem'.pp_ref = mem.pp_ref /\ mem'.pp_link = mem.pp_link
        /\ mem'.page_free_list = mem.page_free_list
        /\ mem'.tab = mem.tab
        /\ held' = held
    BY <1>1, <1>10, <2>1 DEF TlbFill, tlb_fill, Mem
  <2> QED BY <2>2, ContentConsistent
<1>11. CASE UNCHANGED vars
  BY <1>11 DEF vars
<1> QED
  BY <1>2, <1>3, <1>4, <1>5, <1>6, <1>7, <1>8, <1>9, <1>10, <1>11 DEF Next

\* What consistency means: the four invariants that the runs check.
LEMMA ConsistencyImplies ==
  Inv => TypeOK /\ FreeListOK /\ RefExact /\ TablesUnshared
<1> SUFFICES ASSUME Inv PROVE TypeOK /\ FreeListOK /\ RefExact /\ TablesUnshared
  OBVIOUS
<1> USE DEF Inv
<1>1. TypeOK /\ FreeListOK
  BY DEF TypeOK, FreeListOK, Consistent
<1>2. RefExact
  <2> SUFFICES ASSUME NEW p \in Page PROVE mem.pp_ref[p] = Cardinality(Refs(mem, p))
    BY DEF RefExact
  <2>1. Cardinality(Refs(mem, p)) \in Nat /\ p # Null
    BY RefsFinite DEF Page
  <2> QED BY <2>1 DEF Consistent
<1>3. TablesUnshared
  <2> SUFFICES ASSUME NEW p \in Tables(mem)
               PROVE  p \in Page /\ Cardinality(Refs(mem, p)) = 1
    BY DEF TablesUnshared
  <2>1. PICK d \in Dir, i \in Ix : mem.tab[d][i] # Null /\ mem.tab[d][i].pg = p
    BY DEF Tables
  <2>2. Slot(d, i) \in Refs(mem, p) /\ p \in Page
    BY <2>1, ConsistentFrames
  <2>3. Refs(mem, p) = {Slot(d, i)}
    BY <2>2 DEF Consistent
  <2> QED BY <2>2, <2>3, FS_Singleton
<1> QED
  BY <1>1, <1>2, <1>3

\* The invariant holds of the specification.
LEMMA Invariance ==
  ASSUME MaxMap < RefMod
  PROVE  Spec => []Inv
<1>1. Init => Inv
  BY InitConsistent
<1>2. Inv /\ [Next]_vars => Inv'
  BY NextConsistent
<1> QED
  BY <1>1, <1>2, PTL DEF Spec

\* Type correctness of the allocator, the page tables and the TLB.
THEOREM TypeCorrect ==
  ASSUME MaxMap < RefMod
  PROVE  Spec => []TypeOK
BY Invariance, ConsistencyImplies, PTL

\* The free list holds exactly the pages nobody holds or references, whatever
\* sequence of page_alloc, page_free, page_insert, page_remove and pgdir_walk
\* the kernel makes.
THEOREM FreeListCorrect ==
  ASSUME MaxMap < RefMod
  PROVE  Spec => []FreeListOK
BY Invariance, ConsistencyImplies, PTL

\* pp_ref is exactly the number of entries that name the page, as long as the
\* callers do not exceed what its 16 bits can count.
THEOREM RefCountCorrect ==
  ASSUME MaxMap < RefMod
  PROVE  Spec => []RefExact
BY Invariance, ConsistencyImplies, PTL

\* No page table is shared between directory entries or mapped as data.
THEOREM TablesUnsharedCorrect ==
  ASSUME MaxMap < RefMod
  PROVE  Spec => []TablesUnshared
BY Invariance, ConsistencyImplies, PTL

----------------------------------------------------------------------------
(* Translations *)

\* With the directory entries open, a translation is what the page table's
\* entry says.
LEMMA Translation ==
  ASSUME NEW m, NEW h, NEW x, Consistent(m, h, x), PdesOpen(m),
         NEW d \in Dir, NEW va \in Va
  PROVE  /\ va[1] \in Ix /\ va[2] \in Ix
         /\ m.tab[d][va[1]] = Null => translate(m, d, va) = Null
         /\ m.tab[d][va[1]] # Null =>
              /\ m.tab[d][va[1]].pg \in Tables(m)
              /\ translate(m, d, va) = m.tab[m.tab[d][va[1]].pg][va[2]]
<1> DEFINE pde == m.tab[d][va[1]]
           pte == m.tab[pde.pg][va[2]]
<1>1. va[1] \in Ix /\ va[2] \in Ix
  BY DEF Va
<1>2. CASE pde = Null
  BY <1>1, <1>2 DEF translate
<1>3. CASE pde # Null
  <2>1. pde.pg \in Tables(m) /\ pde.perm = Perm
    BY <1>1, <1>3, ConsistentFrames DEF PdesOpen
  <2>2. pte # Null => pte \in Entry
    BY <1>1, <2>1, ConsistentFrames
  <2> HIDE DEF pte
  <2>3. pte # Null => [pte EXCEPT !.perm = @ \cap Perm] = pte
    BY <2>2 DEF Entry
  <2>4. translate(m, d, va) = IF pte = Null THEN Null
                              ELSE [pte EXCEPT !.perm = @ \cap pde.perm]
    BY <1>3 DEF translate, pte
  <2>5. translate(m, d, va) = pte
    BY <2>1, <2>3, <2>4
  <2> QED BY <1>1, <1>3, <2>1, <2>5 DEF pte
<1> QED
  BY <1>2, <1>3

\* A page that is mapped is counted, no caller holds it, and it is no table.
LEMMA MappedCounted ==
  ASSUME NEW m, NEW h, Consistent(m, h, Null), PdesOpen(m),
         NEW d \in Dir, NEW va \in Va, translate(m, d, va) # Null
  PROVE  LET p == translate(m, d, va).pg
         IN  p \in Page /\ p \notin Tables(m) /\ p \notin h /\ m.pp_ref[p] > 0
<1> DEFINE f == m.tab[d][va[1]].pg
           p == translate(m, d, va).pg
<1>1. /\ va[1] \in Ix /\ va[2] \in Ix
      /\ f \in Tables(m)
      /\ m.tab[f][va[2]] # Null /\ m.tab[f][va[2]].pg = p
  BY Translation
<1> HIDE DEF f, p
<1>2. p \in Page /\ Slot(f, va[2]) \in Refs(m, p)
  BY <1>1, ConsistentFrames
<1>3. p \notin Tables(m)
  BY <1>1, MappedNotTable
<1>4. m.pp_ref[p] # 0
  BY <1>2, Unreferenced
<1>5. m.pp_ref[p] > 0
  <2>1. Cardinality(Refs(m, p)) \in Nat /\ p # Null
    BY <1>2, RefsFinite DEF Page
  <2>2. m.pp_ref[p] \in Nat
    BY <1>2, <2>1 DEF Consistent
  <2> QED BY <1>4, <2>2
<1>6. p \notin h
  BY <1>4 DEF Consistent
<1> QED
  BY <1>2, <1>3, <1>5, <1>6 DEF p

\* A page that is counted and is no table is mapped somewhere.
LEMMA CountedMapped ==
  ASSUME NEW m, NEW h, Consistent(m, h, Null), PdesOpen(m),
         NEW p \in Page, p \notin Tables(m), m.pp_ref[p] > 0
  PROVE  \E d \in Dir, va \in Va : /\ translate(m, d, va) # Null
                                  /\ translate(m, d, va).pg = p
<1>1. Refs(m, p) # {}
  <2> SUFFICES ASSUME Refs(m, p) = {} PROVE FALSE
    OBVIOUS
  <2>1. Cardinality(Refs(m, p)) = 0
    BY FS_EmptySet
  <2>2. m.pp_ref[p] = 0
    BY <2>1 DEF Consistent, Page
  <2> QED BY <2>2
<1>2. PICK f \in Dir \cup Tables(m), i \in Ix : m.tab[f][i] # Null /\ m.tab[f][i].pg = p
  BY <1>1 DEF Refs, Slots
<1>3. f \in Tables(m)
  BY <1>2, ConsistentFrames
<1>4. PICK d \in Dir, j \in Ix : m.tab[d][j] # Null /\ m.tab[d][j].pg = f
  BY <1>3 DEF Tables
<1>5. <<j, i>> \in Va /\ <<j, i>>[1] = j /\ <<j, i>>[2] = i
  BY <1>2, <1>4 DEF Va
<1>6. translate(m, d, <<j, i>>) = m.tab[f][i]
  BY <1>4, <1>5, Translation
<1> QED
  BY <1>2, <1>4, <1>5, <1>6

----------------------------------------------------------------------------
(* What the operations do to translations, %cr3 and the TLB *)

\* From m to n no translation changes, nor what the processor knows of them.
SameView(m, n) ==
  /\ n.cr3 = m.cr3 /\ n.tlb = m.tlb /\ PdesOpen(n)
  /\ \A d \in Dir, va \in Va : translate(n, d, va) = translate(m, d, va)

\* From m to n directory d translates va to e, and no other translation
\* changes.  If va was mapped the processor has dropped what it knew of it.
Edits(m, n, d, va, e) ==
  /\ n.cr3 = m.cr3 /\ PdesOpen(n)
  /\ \A c \in Dir, v \in Va :
       translate(n, c, v) = IF c = d /\ v = va THEN e ELSE translate(m, c, v)
  /\ \A v \in Va : n.tlb[v] # Null =>
       /\ n.tlb[v] = m.tlb[v]
       /\ v = va => translate(m, d, va) = Null

\* Whatever is written outside the directories and tables in use.
LEMMA ContentView ==
  ASSUME NEW m, NEW h, NEW x, Consistent(m, h, x), PdesOpen(m), NEW n,
         \A f \in Dir \cup Tables(m) : n.tab[f] = m.tab[f]
  PROVE  /\ PdesOpen(n)
         /\ \A d \in Dir, va \in Va : translate(n, d, va) = translate(m, d, va)
<1>1. PdesOpen(n)
  BY DEF PdesOpen
<1>2. ASSUME NEW d \in Dir, NEW va \in Va
      PROVE  translate(n, d, va) = translate(m, d, va)
  <2>1. n.tab[d] = m.tab[d]
    OBVIOUS
  <2>2. m.tab[d][va[1]] # Null =>
          n.tab[m.tab[d][va[1]].pg] = m.tab[m.tab[d][va[1]].pg]
    BY Translation
  <2> QED BY <2>1, <2>2 DEF translate
<1> QED
  BY <1>1, <1>2

\* Entering or dropping a blank table changes no translation.
LEMMA EnterView ==
  ASSUME NEW m, NEW h, NEW x, Consistent(m, h, x), PdesOpen(m),
         NEW n, NEW d, NEW j, NEW t, EntersTable(m, n, d, j, t),
         n.tab[d][j].perm = Perm
  PROVE  /\ PdesOpen(n)
         /\ \A c \in Dir, va \in Va : translate(n, c, va) = translate(m, c, va)
<1> USE DEF EntersTable
<1>1. d \in Frame /\ t \in Frame /\ t # d
  BY DEF Page
<1>2. PdesOpen(n)
  BY DEF PdesOpen
<1>3. \A i \in Ix : n.tab[t][i] = Null
  BY <1>1 DEF Blank
<1>4. ASSUME NEW c \in Dir, NEW va \in Va
      PROVE  translate(n, c, va) = translate(m, c, va)
  <2>1. va[1] \in Ix /\ va[2] \in Ix
    BY DEF Va
  <2>2. CASE c = d /\ va[1] = j
    <3>1. translate(m, c, va) = Null
      BY <2>2, Translation
    <3>2. translate(n, c, va) = Null
      BY <1>3, <2>1, <2>2 DEF translate
    <3> QED BY <3>1, <3>2
  <2>3. CASE ~ (c = d /\ va[1] = j)
    <3>1. n.tab[c][va[1]] = m.tab[c][va[1]]
      BY <2>1, <2>3
    <3>2. m.tab[c][va[1]] # Null =>
            n.tab[m.tab[c][va[1]].pg][va[2]] = m.tab[m.tab[c][va[1]].pg][va[2]]
      BY SMTT(30), <2>1, ConsistentFrames DEF Tables
    <3> QED BY <3>1, <3>2 DEF translate
  <2> QED BY <2>2, <2>3
<1> QED
  BY <1>2, <1>4

\* Unmapping an address does the same to both views of the space.
LEMMA DropView ==
  ASSUME NEW m, NEW h, NEW x, Consistent(m, h, x), PdesOpen(m),
         NEW n, NEW d, NEW j, NEW t, DropsTable(m, n, d, j, t)
  PROVE  /\ PdesOpen(n)
         /\ \A c \in Dir, va \in Va : translate(n, c, va) = translate(m, c, va)
<1> USE DEF DropsTable
<1>1. PdesOpen(n)
  BY DEF PdesOpen
<1>2. ASSUME NEW c \in Dir, NEW va \in Va
      PROVE  translate(n, c, va) = translate(m, c, va)
  <2>1. va[1] \in Ix /\ va[2] \in Ix
    BY DEF Va
  <2>2. CASE c = d /\ va[1] = j
    <3>1. translate(n, c, va) = Null
      BY <2>2 DEF translate
    <3>2. translate(m, c, va) = Null
      BY <2>1, <2>2, Translation DEF Blank
    <3> QED BY <3>1, <3>2
  <2>3. CASE ~ (c = d /\ va[1] = j)
    <3>1. n.tab[c][va[1]] = m.tab[c][va[1]]
      BY <2>1, <2>3
    <3>2. m.tab[c][va[1]] # Null =>
            n.tab[m.tab[c][va[1]].pg][va[2]] = m.tab[m.tab[c][va[1]].pg][va[2]]
      <4>1. m.tab[c][va[1]] # Null =>
              m.tab[c][va[1]].pg \in Frame /\ m.tab[c][va[1]].pg # d
        BY <2>1, ConsistentFrames DEF Page
      <4> QED BY <2>1, <4>1
    <3> QED BY <3>1, <3>2 DEF translate
  <2> QED BY <2>2, <2>3
<1> QED
  BY <1>1, <1>2

\* Two directory entries never name the same table.
LEMMA TableOnce ==
  ASSUME NEW m, NEW h, NEW x, Consistent(m, h, x),
         NEW c \in Dir, NEW d \in Dir, NEW i \in Ix, NEW j \in Ix,
         m.tab[c][i] # Null, m.tab[d][j] # Null,
         m.tab[c][i].pg = m.tab[d][j].pg
  PROVE  c = d /\ i = j
<1> DEFINE f == m.tab[d][j].pg
<1>1. f \in Tables(m) /\ Slot(c, i) \in Refs(m, f) /\ Slot(d, j) \in Refs(m, f)
  BY ConsistentFrames
<1>2. Slot(c, i) = Slot(d, j)
  BY <1>1 DEF Consistent
<1> QED
  BY <1>2, SlotEqual

\* n is m with e, an entry or Null, in the place of va's entry in the page
\* table f of directory d.
WritesSlot(m, n, d, va, f, e) ==
  /\ d \in Dir /\ va \in Va
  /\ m.tab[d][va[1]] # Null /\ f = m.tab[d][va[1]].pg
  /\ e \in Entry \cup {Null} /\ n.tab[f][va[2]] = e
  /\ \A g \in Frame, k \in Ix : g # f \/ k # va[2] => n.tab[g][k] = m.tab[g][k]

\* Clearing or filling the entry of va in its page table changes the
\* translation of va under that directory only.
LEMMA SlotView ==
  ASSUME NEW m, NEW h, NEW x, Consistent(m, h, x), PdesOpen(m),
         NEW n, NEW d, NEW va, NEW f, NEW e, WritesSlot(m, n, d, va, f, e)
  PROVE  /\ PdesOpen(n)
         /\ \A c \in Dir, v \in Va :
              translate(n, c, v) = IF c = d /\ v = va THEN e ELSE translate(m, c, v)
<1> USE DEF WritesSlot
<1>1. /\ va[1] \in Ix /\ va[2] \in Ix
      /\ f \in Tables(m) /\ f \notin Dir
      /\ Dir \subseteq Frame /\ Tables(m) \subseteq Frame
  BY ConsistentFrames DEF Va, Tables
<1>2. \A c \in Dir, i \in Ix : n.tab[c][i] = m.tab[c][i]
  BY <1>1
<1>3. PdesOpen(n)
  BY <1>2 DEF PdesOpen
<1>4. ASSUME NEW c \in Dir, NEW v \in Va
      PROVE  translate(n, c, v) = IF c = d /\ v = va THEN e ELSE translate(m, c, v)
  <2>1. v[1] \in Ix /\ v[2] \in Ix /\ (v = va <=> v[1] = va[1] /\ v[2] = va[2])
    BY DEF Va
  <2>2. CASE c = d /\ v = va
    <3>1. m.tab[d][va[1]].perm = Perm
      BY <1>1 DEF PdesOpen
    <3>2. e # Null => [e EXCEPT !.perm = @ \cap Perm] = e
      BY DEF Entry
    <3>3. translate(n, d, va) = IF e = Null THEN Null ELSE [e EXCEPT !.perm = @ \cap Perm]
      BY ZenonT(30), <1>1, <1>2, <3>1 DEF translate
    <3> QED BY <2>2, <3>2, <3>3
  <2>3. CASE ~ (c = d /\ v = va) /\ m.tab[c][v[1]] = Null
    BY <1>2, <2>1, <2>3 DEF translate
  <2>4. CASE ~ (c = d /\ v = va) /\ m.tab[c][v[1]] # Null
    <3>1. PICK g : g = m.tab[c][v[1]].pg
      OBVIOUS
    <3>2. g \in Tables(m)
      BY <2>1, <2>4, <3>1, ConsistentFrames
    <3>3. g = f => c = d /\ v[1] = va[1]
      <4> SUFFICES ASSUME g = f PROVE c = d /\ v[1] = va[1]
        OBVIOUS
      <4>1. PICK i \in Ix, j \in Ix : i = v[1] /\ j = va[1]
        BY <1>1, <2>1
      <4>2. m.tab[c][i] # Null /\ m.tab[d][j] # Null /\ m.tab[c][i].pg = m.tab[d][j].pg
        BY <2>4, <3>1, <4>1
      <4>3. c = d /\ i = j
        BY <4>2, TableOnce
      <4> QED BY <4>1, <4>3
    <3>4. n.tab[g][v[2]] = m.tab[g][v[2]]
      BY <1>1, <2>1, <2>4, <3>2, <3>3
    <3>5. translate(n, c, v) = translate(m, c, v)
      BY <1>2, <2>1, <2>4, <3>1, <3>4 DEF translate
    <3> QED BY <2>4, <3>5
  <2> QED BY <2>2, <2>3, <2>4
<1> QED
  BY <1>3, <1>4

----------------------------------------------------------------------------
(* The operations *)

\* pgdir_walk, whether it finds a table, enters a new one or fails.
LEMMA WalkView ==
  ASSUME NEW m, NEW h, Consistent(m, h, Null), PdesOpen(m),
         NEW d \in Dir, NEW va \in Va
  PROVE  SameView(m, pgdir_walk(m, d, va, TRUE).mem)
<1> DEFINE w == pgdir_walk(m, d, va, TRUE)
           j == va[1]
<1>1. m.tab \in [Frame -> Table] /\ d \in Frame /\ j \in Ix
  BY DEF Consistent, Mem, Va
<1>2. CASE m.tab[d][j] # Null \/ m.page_free_list = Null
  <2>1. w.mem = m
    BY <1>2 DEF pgdir_walk, page_alloc
  <2> QED BY <2>1 DEF SameView
<1>3. CASE m.tab[d][j] = Null /\ m.page_free_list # Null
  <2>1. PICK a : a = page_alloc(m, TRUE)
    OBVIOUS
  <2>2. /\ a.pg \in Page /\ a.pg \notin h /\ a.pg \notin Tables(m)
        /\ Consistent(a.mem, h \cup {a.pg}, Null)
        /\ a.mem.tab[a.pg] = Blank
        /\ \A f \in Frame \ {a.pg} : a.mem.tab[f] = m.tab[f]
        /\ Tables(a.mem) = Tables(m)
    BY <1>3, <2>1, AllocConsistent
  <2>3. a.mem.cr3 = m.cr3 /\ a.mem.tlb = m.tlb
    BY <1>3, <2>1 DEF page_alloc, Consistent, Mem
  <2>4. /\ PdesOpen(a.mem)
        /\ \A c \in Dir, v \in Va : translate(a.mem, c, v) = translate(m, c, v)
    <3>1. \A f \in Dir \cup Tables(m) : a.mem.tab[f] = m.tab[f]
      BY <2>2 DEF Page, Tables
    <3> QED BY <3>1, ContentView
  <2>5. w.mem = enter_table(a.mem, d, j, a.pg)
    BY <1>3, <2>1, <2>2 DEF pgdir_walk, Page
  <2>6. PICK n : n = enter_table(a.mem, d, j, a.pg)
    OBVIOUS
  <2>7. /\ n.cr3 = m.cr3 /\ n.tlb = m.tlb
        /\ n.tab = [a.mem.tab EXCEPT ![d][j] = [pg |-> a.pg, perm |-> Perm]]
    <3>1. a.mem \in Mem
      BY <2>2 DEF Consistent
    <3> QED BY <2>3, <2>6, <3>1 DEF enter_table, pp_ref_incr, Mem
  <2>8. EntersTable(a.mem, n, d, j, a.pg) /\ n.tab[d][j].perm = Perm
    <3>1. a.mem.tab \in [Frame -> Table] /\ a.mem.tab[d][j] = Null
      BY <1>1, <1>3, <2>2 DEF Consistent, Mem, Page
    <3>2. n.tab[d][j] = [pg |-> a.pg, perm |-> Perm]
      BY <1>1, <2>7, <3>1 DEF Table
    <3>3. n.tab[d][j] # Null
      BY <2>2, <3>2 DEF Entry, Page
    <3>4. \A f \in Frame, i \in Ix : f # d \/ i # j => n.tab[f][i] = a.mem.tab[f][i]
      BY <1>1, <2>7, <3>1 DEF Table
    <3> QED BY <1>1, <2>2, <3>1, <3>2, <3>3, <3>4 DEF EntersTable
  <2>9. /\ PdesOpen(n)
        /\ \A c \in Dir, v \in Va : translate(n, c, v) = translate(a.mem, c, v)
    BY <2>2, <2>4, <2>8, EnterView
  <2> QED BY <2>4, <2>5, <2>6, <2>7, <2>9 DEF SameView
<1> QED
  BY <1>2, <1>3

\* page_remove: nothing is mapped at va any more, and the processor has dropped
\* what it knew of it.
LEMMA RemoveView ==
  ASSUME NEW m, NEW h, NEW x, Consistent(m, h, x), PdesOpen(m),
         NEW d \in Dir, NEW va \in Va
  PROVE  Edits(m, page_remove(m, d, va), d, va, Null)
<1> DEFINE f == m.tab[d][va[1]].pg
           n == page_remove(m, d, va)
<1>1. va[1] \in Ix /\ va[2] \in Ix
  BY DEF Va
<1>2. CASE translate(m, d, va) = Null
  <2>1. page_lookup(m, d, va) = Null
    <3>1. CASE m.tab[d][va[1]] = Null
      BY <3>1 DEF page_lookup, pgdir_walk
    <3>2. CASE m.tab[d][va[1]] # Null
      BY <1>2, <3>2, Translation DEF page_lookup, pgdir_walk
    <3> QED BY <3>1, <3>2
  <2>2. n = m
    BY <2>1 DEF page_remove
  <2> QED BY <1>2, <2>2 DEF Edits
<1>3. CASE translate(m, d, va) # Null
  <2>1. /\ m.tab[d][va[1]] # Null /\ f \in Tables(m) /\ f # Null
        /\ m.tab[f][va[2]] # Null /\ m.tab[f][va[2]].pg # Null
    BY <1>1, <1>3, Translation, ConsistentFrames DEF Page
  <2> HIDE DEF f
  <2>2. page_lookup(m, d, va) = m.tab[f][va[2]].pg
    BY <2>1 DEF page_lookup, pgdir_walk, f
  <2>3. n = Unmapped(m, f, va[2], va)
    BY <2>1, <2>2 DEF page_remove, Unmapped, f
  <2>4. /\ n.tab = [m.tab EXCEPT ![f][va[2]] = Null]
        /\ n.cr3 = m.cr3 /\ n.tlb = [m.tlb EXCEPT ![va] = Null]
    BY SMTT(30), <1>1, <2>1, <2>3, UnmapConsistent
  <2> HIDE DEF n
  <2>5. m.tab \in [Frame -> Table] /\ f \in Frame /\ m.tlb \in [Va -> Entry \cup {Null}]
    BY <2>1 DEF Consistent, Mem, Tables
  <2>6. /\ n.tab[f][va[2]] = Null
        /\ \A g \in Frame, k \in Ix : g # f \/ k # va[2] => n.tab[g][k] = m.tab[g][k]
    BY <1>1, <2>4, <2>5 DEF Table
  <2>7. /\ PdesOpen(n)
        /\ \A c \in Dir, v \in Va :
             translate(n, c, v) = IF c = d /\ v = va THEN Null ELSE translate(m, c, v)
    <3>1. m.tab[d][va[1]] # Null /\ f = m.tab[d][va[1]].pg
      BY <2>1 DEF f
    <3>2. WritesSlot(m, n, d, va, f, Null)
      BY <2>6, <3>1 DEF WritesSlot
    <3> QED BY <3>2, SlotView
  <2>8. \A v \in Va : n.tlb[v] # Null => n.tlb[v] = m.tlb[v] /\ v # va
    BY <2>4, <2>5
  <2> QED BY <2>4, <2>7, <2>8 DEF Edits, n
<1> QED
  BY <1>2, <1>3

\* page_insert's last step, at an address where nothing is mapped.
LEMMA PlaceView ==
  ASSUME NEW m, NEW h, NEW p \in Page, Consistent(m, h, p), PdesOpen(m),
         NEW d \in Dir, NEW va \in Va, NEW perm \in SUBSET Perm,
         m.tab[d][va[1]] # Null, m.tab[m.tab[d][va[1]].pg][va[2]] = Null
  PROVE  LET n == Placed(m, d, va[1], va[2], p, perm)
             e == [pg |-> p, perm |-> perm]
         IN  /\ n.cr3 = m.cr3 /\ n.tlb = m.tlb /\ PdesOpen(n)
             /\ \A c \in Dir, v \in Va :
                  translate(n, c, v) = IF c = d /\ v = va THEN e ELSE translate(m, c, v)
<1> DEFINE f == m.tab[d][va[1]].pg
           n == Placed(m, d, va[1], va[2], p, perm)
           e == [pg |-> p, perm |-> perm]
<1>1. PICK j \in Ix, k \in Ix : j = va[1] /\ k = va[2]
  BY DEF Va
<1>2. /\ n \in Mem /\ e # Null
      /\ n.cr3 = m.cr3 /\ n.tlb = m.tlb
      /\ SetsSlot(m, n, d, j, f, k, p)
      /\ n.tab[f][k] = e
      /\ n.tab[d][j] = [m.tab[d][j] EXCEPT !.perm = @ \cup perm]
  BY <1>1, PlaceSlots
<1> HIDE DEF n
<1>3. n.tab[d][j] = m.tab[d][j]
  <2>1. m.tab[d][j] \in Entry /\ m.tab[d][j].perm = Perm
    BY <1>1, ConsistentFrames DEF PdesOpen
  <2>2. PICK y : y = m.tab[d][j]
    OBVIOUS
  <2>3. y \in Entry /\ y.perm \cup perm = y.perm
    BY <2>1, <2>2
  <2>4. [y EXCEPT !.perm = @ \cup perm] = y
    BY <2>3 DEF Entry
  <2> QED BY <1>2, <2>2, <2>4
<1>4. WritesSlot(m, n, d, va, f, e)
  <2>1. e \in Entry
    BY DEF Entry, Page
  <2>2. \A g \in Frame, i \in Ix : g # f \/ i # k => n.tab[g][i] = m.tab[g][i]
    BY ZenonT(30), <1>2, <1>3 DEF SetsSlot
  <2> QED BY ZenonT(30), <1>1, <1>2, <2>1, <2>2 DEF WritesSlot
<1>5. /\ PdesOpen(n)
      /\ \A c \in Dir, v \in Va :
           translate(n, c, v) = IF c = d /\ v = va THEN e ELSE translate(m, c, v)
  BY <1>4, SlotView
<1> QED
  BY <1>2, <1>5 DEF n

\* page_insert: on success exactly va is mapped to p with perm, whatever was
\* there; a failure changes nothing.
LEMMA InsertView ==
  ASSUME NEW m, NEW h, Consistent(m, h, Null), PdesOpen(m),
         NEW d \in Dir, NEW p \in Page, NEW va \in Va, NEW perm \in SUBSET Perm,
         p \notin Tables(m), p \in h \/ m.pp_ref[p] > 0, m.pp_ref[p] + 1 < RefMod
  PROVE  LET r == page_insert(m, d, p, va, perm)
         IN  /\ r.ok \in BOOLEAN
             /\ ~ r.ok => r.mem = m
             /\ r.ok => Edits(m, r.mem, d, va, [pg |-> p, perm |-> perm])
<1>1. PICK w : w = pgdir_walk(m, d, va, TRUE)
  OBVIOUS
<1>2. /\ Consistent(w.mem, h, Null)
      /\ w.pt = Null => w.mem = m
      /\ w.pt # Null => /\ w.mem.tab[d][va[1]] # Null
                        /\ w.pt = w.mem.tab[d][va[1]].pg
      /\ p \notin Tables(w.mem) /\ w.mem.pp_ref[p] = m.pp_ref[p]
  <2>1. LET v == pgdir_walk(m, d, va, TRUE)
        IN  /\ Consistent(v.mem, h, Null)
            /\ v.pt = Null => v.mem = m
            /\ v.pt # Null => /\ v.mem.tab[d][va[1]] # Null
                              /\ v.pt = v.mem.tab[d][va[1]].pg
            /\ KeepsData(m, v.mem, h)
    BY WalkConsistent
  <2> QED BY <1>1, <2>1 DEF KeepsData
<1>3. va[1] \in Ix /\ va[2] \in Ix
  BY DEF Va
<1>4. CASE w.pt = Null
  <2>1. page_insert(m, d, p, va, perm) = [ok |-> FALSE, mem |-> m]
    BY <1>1, <1>4 DEF page_insert
  <2> QED BY <2>1
<1>5. CASE w.pt # Null
  <2>1. PICK c : c = pp_ref_incr(w.mem, p)
    OBVIOUS
  <2>2. Consistent(c, h \ {p}, p)
    BY <1>2, <2>1, CountConsistent
  <2>3. c.tab = w.mem.tab /\ c.cr3 = w.mem.cr3 /\ c.tlb = w.mem.tlb
    BY <2>1 DEF pp_ref_incr, Consistent, Mem
  <2>4. SameView(m, c)
    <3>1. SameView(m, w.mem)
      BY <1>1, WalkView
    <3>2. \A a \in Dir, v \in Va : translate(c, a, v) = translate(w.mem, a, v)
      BY <2>3 DEF translate
    <3> QED BY <2>3, <3>1, <3>2 DEF SameView, PdesOpen
  <2>5. PICK r : r = IF c.tab[w.pt][va[2]] = Null THEN c ELSE page_remove(c, d, va)
    OBVIOUS
  <2>6. /\ Consistent(r, h \ {p}, p)
        /\ r.tab[d][va[1]] # Null
        /\ w.pt = r.tab[d][va[1]].pg
        /\ r.tab[w.pt][va[2]] = Null
        /\ Edits(c, r, d, va, Null)
    <3>1. CASE c.tab[w.pt][va[2]] = Null
      <4>1. r = c /\ c.tab[d][va[1]] # Null /\ w.pt = c.tab[d][va[1]].pg
        BY <1>2, <1>5, <2>3, <2>5, <3>1
      <4>2. translate(c, d, va) = Null
        BY <2>2, <2>4, <3>1, <4>1, Translation DEF SameView
      <4>3. Edits(c, r, d, va, Null)
        BY <2>4, <4>1, <4>2 DEF Edits, SameView
      <4> QED BY <2>2, <3>1, <4>1, <4>3
    <3>2. CASE c.tab[w.pt][va[2]] # Null
      <4>1. r = page_remove(c, d, va)
        BY <2>5, <3>2
      <4>2. LET n == page_remove(c, d, va)
            IN  /\ Consistent(n, h \ {p}, p)
                /\ Tables(n) = Tables(c)
                /\ \A i \in Ix : n.tab[d][i] = c.tab[d][i]
                /\ c.tab[d][va[1]] # Null => n.tab[c.tab[d][va[1]].pg][va[2]] = Null
        BY <2>2, RemoveConsistent
      <4>3. Edits(c, r, d, va, Null)
        BY <2>2, <2>4, <4>1, RemoveView DEF SameView
      <4> QED BY <1>2, <1>3, <1>5, <2>3, <4>1, <4>2, <4>3
    <3> QED BY <3>1, <3>2
  <2>7. PICK n : n = Placed(r, d, va[1], va[2], p, perm)
    OBVIOUS
  <2>8. page_insert(m, d, p, va, perm) = [ok |-> TRUE, mem |-> n]
    BY <1>1, <1>5, <2>1, <2>5, <2>6, <2>7 DEF page_insert, Placed
  <2>9. /\ n.cr3 = r.cr3 /\ n.tlb = r.tlb /\ PdesOpen(n)
        /\ \A a \in Dir, v \in Va :
             translate(n, a, v) = IF a = d /\ v = va THEN [pg |-> p, perm |-> perm]
                                  ELSE translate(r, a, v)
    BY <2>6, <2>7, PlaceView DEF Edits
  <2>10. Edits(m, n, d, va, [pg |-> p, perm |-> perm])
    <3>1. \A a \in Dir, v \in Va :
            translate(n, a, v) = IF a = d /\ v = va THEN [pg |-> p, perm |-> perm]
                                 ELSE translate(m, a, v)
      BY <2>4, <2>6, <2>9 DEF Edits, SameView
    <3>2. \A v \in Va : n.tlb[v] # Null =>
            /\ n.tlb[v] = m.tlb[v]
            /\ v = va => translate(m, d, va) = Null
      BY <2>4, <2>6, <2>9 DEF Edits, SameView
    <3> QED BY <2>4, <2>6, <2>9, <3>1, <3>2 DEF Edits, SameView
  <2> QED BY <2>8, <2>10
<1> QED
  BY <1>4, <1>5

----------------------------------------------------------------------------
(* The processor's translations *)

\* An edit leaves the TLB exact: where the translation changed nothing is
\* cached.
LEMMA EditsExact ==
  ASSUME NEW m, NEW n, NEW d \in Dir, NEW va \in Va, NEW e,
         m.cr3 \in Dir, TlbExact(m), Edits(m, n, d, va, e)
  PROVE  n.cr3 \in Dir /\ PdesOpen(n) /\ TlbExact(n)
<1>1. ASSUME NEW v \in Va, n.tlb[v] # Null
      PROVE  n.tlb[v] = translate(n, n.cr3, v)
  <2>1. n.tlb[v] = m.tlb[v] /\ m.tlb[v] = translate(m, m.cr3, v)
    BY <1>1 DEF Edits, TlbExact
  <2>2. ~ (m.cr3 = d /\ v = va)
    BY <1>1, <2>1 DEF Edits
  <2> QED BY <2>1, <2>2 DEF Edits
<1> QED
  BY <1>1 DEF Edits, TlbExact

\* A step that leaves the directories, the tables and the TLB keeps it exact.
LEMMA SameExact ==
  ASSUME NEW m, NEW n, m.cr3 \in Dir, TlbExact(m), SameView(m, n)
  PROVE  n.cr3 \in Dir /\ PdesOpen(n) /\ TlbExact(n)
BY DEF SameView, TlbExact

----------------------------------------------------------------------------
(* Every call is one of six kinds *)

IsMapped(m, p) ==
  \E d \in Dir, va \in Va : translate(m, d, va) # Null /\ translate(m, d, va).pg = p

Quiet   == SameView(mem, mem') /\ held' = held
Gives   == /\ SameView(mem, mem')
           /\ \E p \in Page : p \notin held /\ ~ IsMapped(mem, p) /\ held' = held \cup {p}
Returns == SameView(mem, mem') /\ \E p \in held : held' = held \ {p}
Maps    == \E d \in Dir, va \in Va, p \in Page, perm \in PermChoice :
             /\ Edits(mem, mem', d, va, [pg |-> p, perm |-> perm])
             /\ p \in held \/ IsMapped(mem, p)
             /\ held' = held \ {p}
Unmaps  == /\ \E d \in Dir, va \in Va : Edits(mem, mem', d, va, Null)
           /\ held' = held
Looks   == /\ mem'.tab = mem.tab /\ mem'.cr3 \in Dir /\ TlbExact(mem')
           /\ held' = held

StepKinds == Quiet \/ Gives \/ Returns \/ Maps \/ Unmaps \/ Looks

\* page_alloc gives a page that no caller holds and nobody has mapped.
LEMMA AllocGives ==
  ASSUME MmuInv, NEW zero \in BOOLEAN, Alloc(zero)
  PROVE  Gives
<1> USE DEF MmuInv, Inv
<1>1. PICK a : a = page_alloc(mem, zero)
  OBVIOUS
<1>2. a.pg # Null /\ mem' = a.mem /\ held' = held \cup {a.pg}
  BY <1>1 DEF Alloc
<1>3. mem.page_free_list # Null
  BY <1>1, <1>2 DEF page_alloc
<1>4. /\ a.pg \in Page /\ a.pg \notin held /\ a.pg \notin Tables(mem)
      /\ Consistent(a.mem, held \cup {a.pg}, Null)
      /\ \A f \in Frame \ {a.pg} : a.mem.tab[f] = mem.tab[f]
  BY <1>1, <1>3, AllocConsistent
<1>5. a.mem.cr3 = mem.cr3 /\ a.mem.tlb = mem.tlb /\ a.mem.pp_ref = mem.pp_ref
  BY <1>1, <1>3 DEF page_alloc, Consistent, Mem
<1>6. SameView(mem, a.mem)
  <2>1. \A f \in Dir \cup Tables(mem) : a.mem.tab[f] = mem.tab[f]
    BY <1>4 DEF Page, Tables
  <2> QED BY <1>5, <2>1, ContentView DEF SameView
<1>7. ~ IsMapped(mem, a.pg)
  <2>1. mem.pp_ref[a.pg] = 0
    BY <1>4, <1>5 DEF Consistent
  <2> QED BY <2>1, MappedCounted DEF IsMapped
<1> QED
  BY <1>2, <1>4, <1>6, <1>7 DEF Gives

\* check_page gets a page back that it had put to use as a table.
LEMMA TakeBackGives ==
  ASSUME MmuInv, NEW d \in Dir, NEW i \in Ix, TakeBack(d, i)
  PROVE  Gives
<1> USE DEF MmuInv, Inv
<1>1. PICK t : t = mem.tab[d][i].pg
  OBVIOUS
<1>2. /\ mem.tab[d][i] # Null /\ mem.tab[t] = Blank
      /\ mem' = [mem EXCEPT !.tab[d][i] = Null, !.pp_ref[t] = 0]
      /\ held' = held \cup {t}
  BY <1>1 DEF TakeBack
<1>3. /\ mem \in Mem /\ mem.tab \in [Frame -> Table] /\ d \in Frame
      /\ t \in Tables(mem) /\ t \in Page /\ Slot(d, i) \in Refs(mem, t)
  BY <1>1, <1>2, ConsistentFrames DEF Consistent, Mem
<1>4. /\ mem'.tab = [mem.tab EXCEPT ![d][i] = Null]
      /\ mem'.cr3 = mem.cr3 /\ mem'.tlb = mem.tlb
  BY <1>2, <1>3 DEF Mem
<1>5. DropsTable(mem, mem', d, i, t)
  <2>1. Refs(mem, t) = {Slot(d, i)}
    BY <1>3 DEF Consistent
  <2>2. mem'.tab[d][i] = Null
    BY <1>3, <1>4 DEF Table
  <2>3. \A f \in Frame, k \in Ix : f # d \/ k # i => mem'.tab[f][k] = mem.tab[f][k]
    BY <1>3, <1>4 DEF Table
  <2> QED BY <1>1, <1>2, <1>3, <2>1, <2>2, <2>3 DEF DropsTable
<1>6. SameView(mem, mem')
  BY <1>4, <1>5, DropView DEF SameView
<1>7. t \notin held /\ ~ IsMapped(mem, t)
  <2>1. mem.pp_ref[t] # 0
    BY <1>3, Unreferenced
  <2>2. t \notin held
    BY <2>1 DEF Consistent
  <2>3. ~ IsMapped(mem, t)
    BY <1>3, MappedCounted DEF IsMapped
  <2> QED BY <2>2, <2>3
<1> QED
  BY <1>2, <1>3, <1>6, <1>7 DEF Gives

\* page_insert maps the one address, or fails and changes nothing.
LEMMA InsertMaps ==
  ASSUME MaxMap < RefMod, MmuInv,
         NEW d \in Dir, NEW p \in Page, NEW va \in Va, NEW perm \in PermChoice,
         Insert(d, p, va, perm)
  PROVE  Maps \/ Quiet
<1> USE DEF MmuInv, Inv
<1>1. PICK r : r = page_insert(mem, d, p, va, perm)
  OBVIOUS
<1>2. /\ p \notin Tables(mem) /\ (p \in held \/ mem.pp_ref[p] > 0)
      /\ perm \in SUBSET Perm
      /\ mem.pp_ref[p] < MaxMap
      /\ mem' = r.mem /\ held' = IF r.ok THEN held \ {p} ELSE held
  BY <1>1 DEF Insert, DataPage
<1>3. mem.pp_ref[p] + 1 < RefMod
  <2>1. mem.pp_ref[p] \in 0 .. RefMod - 1
    BY DEF Consistent, Mem, Page
  <2> QED BY <1>2, <2>1
<1>4. /\ r.ok \in BOOLEAN
      /\ ~ r.ok => r.mem = mem
      /\ r.ok => Edits(mem, r.mem, d, va, [pg |-> p, perm |-> perm])
  <2>1. LET s == page_insert(mem, d, p, va, perm)
        IN  /\ s.ok \in BOOLEAN
            /\ ~ s.ok => s.mem = mem
            /\ s.ok => Edits(mem, s.mem, d, va, [pg |-> p, perm |-> perm])
    BY <1>2, <1>3, InsertView
  <2> QED BY <1>1, <2>1
<1>5. CASE r.ok
  <2>1. p \in held \/ IsMapped(mem, p)
    BY <1>2, CountedMapped DEF IsMapped
  <2> QED BY <1>2, <1>4, <1>5, <2>1 DEF Maps
<1>6. CASE ~ r.ok
  <2>1. mem' = mem /\ held' = held
    BY <1>2, <1>4, <1>6
  <2> QED BY <2>1 DEF Quiet, SameView
<1> QED
  BY <1>4, <1>5, <1>6

\* What a TlbFill caches, and what loading %cr3 leaves, is exact.
LEMMA ProcessorLooks ==
  ASSUME MmuInv, (\E d \in Dir : Lcr3(d)) \/ (\E va \in Va : TlbFill(va))
  PROVE  Looks
<1> USE DEF MmuInv, Inv
<1>1. mem \in Mem /\ mem.tlb \in [Va -> Entry \cup {Null}]
  BY DEF Consistent, Mem
<1>2. ASSUME NEW d \in Dir, Lcr3(d) PROVE Looks
  BY <1>1, <1>2 DEF Lcr3, lcr3, Mem, Looks, TlbExact
<1>3. ASSUME NEW va \in Va, TlbFill(va) PROVE Looks
  <2>1. /\ mem'.tab = mem.tab /\ mem'.cr3 = mem.cr3 /\ held' = held
        /\ mem'.tlb = [mem.tlb EXCEPT ![va] = translate(mem, mem.cr3, va)]
    BY <1>1, <1>3 DEF TlbFill, tlb_fill, Mem
  <2>2. \A v \in Va : translate(mem', mem'.cr3, v) = translate(mem, mem.cr3, v)
    BY <2>1 DEF translate
  <2>3. TlbExact(mem')
    BY <1>1, <2>1, <2>2 DEF TlbExact
  <2> QED BY <2>1, <2>3 DEF Looks
<1> QED
  BY <1>2, <1>3

\* Every step of the module is of one of the kinds.
LEMMA StepKind ==
  ASSUME MaxMap < RefMod, MmuInv, Next
  PROVE  StepKinds
<1> USE DEF StepKinds
<1>1. Consistent(mem, held, Null) /\ PdesOpen(mem)
  BY DEF MmuInv, Inv
<1>2. ASSUME NEW zero \in BOOLEAN, Alloc(zero) PROVE StepKinds
  BY <1>2, AllocGives
<1>3. ASSUME NEW p \in Page, Free(p) PROVE StepKinds
  <2>1. mem'.tab = mem.tab /\ mem'.cr3 = mem.cr3 /\ mem'.tlb = mem.tlb
    BY <1>1, <1>3 DEF Free, page_free, Consistent, Mem
  <2>2. SameView(mem, mem')
    BY <1>1, <2>1, ContentView DEF SameView
  <2> QED BY <1>3, <2>2 DEF Free, Returns
<1>4. ASSUME NEW p \in Page, NEW q \in Words, Write(p, q) PROVE StepKinds
  <2>1. /\ mem'.tab = [mem.tab EXCEPT ![p] = Junk(q)]
        /\ mem'.cr3 = mem.cr3 /\ mem'.tlb = mem.tlb /\ held' = held
        /\ p \notin Dir \cup Tables(mem)
    BY <1>1, <1>4 DEF Write, DataPage, Page, Consistent, Mem
  <2>2. \A f \in Dir \cup Tables(mem) : mem'.tab[f] = mem.tab[f]
    BY <1>1, <2>1 DEF Consistent, Mem, Tables
  <2>3. SameView(mem, mem')
    BY <1>1, <2>1, <2>2, ContentView DEF SameView
  <2> QED BY <2>1, <2>3 DEF Quiet
<1>5. ASSUME NEW d \in Dir, NEW p \in Page, NEW va \in Va, NEW perm \in PermChoice,
             Insert(d, p, va, perm)
      PROVE  StepKinds
  BY <1>5, InsertMaps
<1>6. ASSUME NEW d \in Dir, NEW va \in Va, Remove(d, va) PROVE StepKinds
  BY <1>1, <1>6, RemoveView DEF Remove, Unmaps
<1>7. ASSUME NEW d \in Dir, NEW va \in Va, Walk(d, va) PROVE StepKinds
  BY <1>1, <1>7, WalkView DEF Walk, Quiet
<1>8. ASSUME NEW d \in Dir, NEW i \in Ix, TakeBack(d, i) PROVE StepKinds
  BY <1>8, TakeBackGives
<1>9. ASSUME (\E d \in Dir : Lcr3(d)) \/ (\E va \in Va : TlbFill(va)) PROVE StepKinds
  BY <1>9, ProcessorLooks
<1> QED
  BY <1>2, <1>3, <1>4, <1>5, <1>6, <1>7, <1>8, <1>9 DEF Next

----------------------------------------------------------------------------
(* The invariant and the refinement *)

\* page_init: no directory maps anything.
LEMMA InitMmu ==
  Init => MmuInv /\ \A d \in Dir, va \in Va : translate(mem, d, va) = Null
<1> SUFFICES ASSUME Init
             PROVE  MmuInv /\ \A d \in Dir, va \in Va : translate(mem, d, va) = Null
  OBVIOUS
<1>1. Inv
  BY InitConsistent
<1>2. /\ \A d \in Dir, i \in Ix : mem.tab[d][i] = Null
      /\ mem.cr3 \in Dir
      /\ \A va \in Va : mem.tlb[va] = Null
  BY DEF Init, Blank
<1>3. \A d \in Dir, va \in Va : translate(mem, d, va) = Null
  BY <1>2 DEF translate, Va
<1> QED
  BY <1>1, <1>2, <1>3 DEF MmuInv, PdesOpen, TlbExact

\* Every step keeps MmuInv.
LEMMA NextMmu ==
  ASSUME MaxMap < RefMod
  PROVE  MmuInv /\ [Next]_vars => MmuInv'
<1> SUFFICES ASSUME MmuInv, [Next]_vars
             PROVE  Inv' /\ mem'.cr3 \in Dir /\ PdesOpen(mem') /\ TlbExact(mem')
  BY DEF MmuInv
<1>1. Inv'
  BY NextConsistent DEF MmuInv
<1>2. mem.cr3 \in Dir /\ PdesOpen(mem) /\ TlbExact(mem)
  BY DEF MmuInv
<1>3. CASE UNCHANGED vars
  <2>1. mem' = mem
    BY <1>3 DEF vars
  <2> QED BY <1>1, <1>2, <2>1
<1>4. CASE SameView(mem, mem')
  BY <1>1, <1>2, <1>4, SameExact
<1>5. ASSUME NEW d \in Dir, NEW va \in Va, NEW e, Edits(mem, mem', d, va, e)
      PROVE  Inv' /\ mem'.cr3 \in Dir /\ PdesOpen(mem') /\ TlbExact(mem')
  BY <1>1, <1>2, <1>5, EditsExact
<1>6. CASE Looks
  BY <1>1, <1>2, <1>6 DEF Looks, PdesOpen
<1>7. CASE Next
  <2>1. StepKinds
    BY <1>7, StepKind
  <2> QED BY <1>4, <1>5, <1>6, <2>1 DEF StepKinds, Quiet, Gives, Returns, Maps, Unmaps
<1> QED
  BY <1>3, <1>7

\* Each kind of step is one operation of VSpace, or none.
LEMMA Simulation ==
  ASSUME MaxMap < RefMod
  PROVE  MmuInv /\ [Next]_vars => [VS!VSNext]_(VS!vsVars)
<1> SUFFICES ASSUME MmuInv, [Next]_vars
             PROVE  VS!VSNext \/ (Space' = Space /\ held' = held)
  BY DEF VS!vsVars
<1>1. /\ \A d \in Dir, va \in Va : <<d, va>> \in Dir \X Va
      /\ \A s \in Dir \X Va : s[1] \in Dir /\ s[2] \in Va /\ s = <<s[1], s[2]>>
  OBVIOUS
<1>2. /\ Space = [s \in Dir \X Va |-> translate(mem, s[1], s[2])]
      /\ Space' = [s \in Dir \X Va |-> translate(mem', s[1], s[2])]
  BY DEF Space
<1>3. \A p : IsMapped(mem, p) <=> p \in VS!Mapped
  <2>1. ASSUME NEW p PROVE IsMapped(mem, p) <=> p \in VS!Mapped
    <3>1. ASSUME NEW d \in Dir, NEW va \in Va, translate(mem, d, va) # Null,
                 translate(mem, d, va).pg = p
          PROVE  p \in VS!Mapped
      <4>1. PICK s \in Dir \X Va : s = <<d, va>>
        BY <1>1
      <4>2. Space[s] = translate(mem, d, va)
        BY <1>2, <4>1
      <4> QED BY <3>1, <4>2 DEF VS!Mapped
    <3>2. ASSUME NEW s \in Dir \X Va, Space[s] # Null, Space[s].pg = p
          PROVE  IsMapped(mem, p)
      BY <1>1, <1>2, <3>2 DEF IsMapped
    <3> QED BY <3>1, <3>2 DEF IsMapped, VS!Mapped
  <2> QED BY <2>1
<1>4. CASE UNCHANGED vars
  BY <1>4 DEF vars, Space
<1>5. ASSUME SameView(mem, mem') PROVE Space' = Space
  BY <1>1, <1>2, <1>5 DEF SameView
<1>6. ASSUME NEW d \in Dir, NEW va \in Va, NEW e, Edits(mem, mem', d, va, e)
      PROVE  \E s \in Dir \X Va : s = <<d, va>> /\ Space' = [Space EXCEPT ![s] = e]
  <2>1. PICK s \in Dir \X Va : s = <<d, va>>
    BY <1>1
  <2>2. ASSUME NEW r \in Dir \X Va
        PROVE  translate(mem', r[1], r[2]) = IF r = s THEN e ELSE translate(mem, r[1], r[2])
    BY <1>1, <1>6, <2>1 DEF Edits
  <2>3. Space' = [Space EXCEPT ![s] = e]
    BY <1>2, <2>2
  <2> QED BY <2>1, <2>3
<1>7. CASE Quiet
  BY <1>5, <1>7 DEF Quiet
<1>8. CASE Gives
  <2>1. PICK p \in Page : p \notin held /\ ~ IsMapped(mem, p) /\ held' = held \cup {p}
    BY <1>8 DEF Gives
  <2>2. p \in Page \ (held \cup VS!Mapped) /\ Space' = Space
    BY <1>3, <1>5, <1>8, <2>1 DEF Gives
  <2> QED BY <2>1, <2>2 DEF VS!VSNext, VS!Give
<1>9. CASE Returns
  BY <1>5, <1>9 DEF Returns, VS!VSNext, VS!Return
<1>10. CASE Maps
  <2>1. PICK d \in Dir, va \in Va, p \in Page, perm \in PermChoice :
          /\ Edits(mem, mem', d, va, [pg |-> p, perm |-> perm])
          /\ p \in held \/ IsMapped(mem, p)
          /\ held' = held \ {p}
    BY <1>10 DEF Maps
  <2>2. PICK s \in Dir \X Va : Space' = [Space EXCEPT ![s] = [pg |-> p, perm |-> perm]]
    BY <1>6, <2>1
  <2>3. p \in held \cup VS!Mapped
    BY <1>3, <2>1
  <2> QED BY <2>1, <2>2, <2>3 DEF VS!VSNext, VS!Map
<1>11. CASE Unmaps
  <2>1. PICK d \in Dir, va \in Va : Edits(mem, mem', d, va, Null)
    BY <1>11 DEF Unmaps
  <2>2. PICK s \in Dir \X Va : Space' = [Space EXCEPT ![s] = Null]
    BY <1>6, <2>1
  <2> QED BY <1>11, <2>2 DEF Unmaps, VS!VSNext, VS!Unmap
<1>12. CASE Looks
  <2>1. \A d \in Dir, va \in Va : translate(mem', d, va) = translate(mem, d, va)
    BY <1>12 DEF Looks, translate
  <2>2. Space' = Space
    BY <1>1, <1>2, <2>1
  <2> QED BY <1>12, <2>2 DEF Looks
<1> QED
  BY <1>4, <1>7, <1>8, <1>9, <1>10, <1>11, <1>12, StepKind DEF StepKinds

\* The strengthened invariant of the allocator, the tables and the TLB: the
\* counts match the entries, the directories restrict nothing that their tables
\* grant, and whatever is cached is what the tables say.
THEOREM MmuInvariance ==
  ASSUME MaxMap < RefMod
  PROVE  Spec => []MmuInv
<1>1. Init => MmuInv
  BY InitMmu
<1>2. MmuInv /\ [Next]_vars => MmuInv'
  BY NextMmu
<1> QED
  BY <1>1, <1>2, PTL DEF Spec

\* The processor never holds a translation that the current directory has
\* lost: page_remove and page_insert invalidate what they change on every path.
THEOREM TlbCorrect ==
  ASSUME MaxMap < RefMod
  PROVE  Spec => []TlbCoherent
<1>1. MmuInv => TlbCoherent
  BY DEF MmuInv, TlbExact, TlbCoherent
<1> QED
  BY <1>1, MmuInvariance, PTL

\* pmap.c implements VSpace.
THEOREM Refinement ==
  ASSUME MaxMap < RefMod
  PROVE  Spec => ImplementsVSpace
<1>1. Init => VS!VSInit
  <2> SUFFICES ASSUME Init PROVE VS!VSInit
    OBVIOUS
  <2>1. \A d \in Dir, va \in Va : translate(mem, d, va) = Null
    BY InitMmu
  <2>2. Space = [s \in Dir \X Va |-> Null]
    BY <2>1 DEF Space
  <2>3. held = {}
    BY DEF Init
  <2> QED BY <2>2, <2>3 DEF VS!VSInit
<1>2. MmuInv /\ [Next]_vars => [VS!VSNext]_(VS!vsVars)
  BY Simulation
<1> QED
  BY <1>1, <1>2, MmuInvariance, PTL DEF Spec, ImplementsVSpace, VS!VSSpec

=============================================================================
