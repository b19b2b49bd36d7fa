------------------------------- MODULE UserMem -------------------------------
(***************************************************************************)
(* user_mem_check of kern/pmap.c.  table gives the permissions of every    *)
(* page, {} where the directory has none; addresses wrap around at ADDRS,  *)
(* as uint32_t does at 2^32.                                               *)
(***************************************************************************)
EXTENDS Integers

CONSTANTS
  PGSIZE, ADDRS,
  ULIM          \* the first address a user program may not access

ASSUME UserMemAssumption ==
  /\ PGSIZE \in Nat \ {0} /\ ADDRS \in Nat /\ ULIM \in Nat
  /\ ADDRS % PGSIZE = 0 /\ ULIM % PGSIZE = 0 /\ ULIM <= ADDRS

PageOf(a) == a \div PGSIZE

RoundDown(a) == a - (a % PGSIZE)
RoundUp(a)   == RoundDown(a + PGSIZE - 1) % ADDRS

bad(table, a, perm) == \/ a >= ULIM
                       \/ "P" \notin table[PageOf(a)]
                       \/ ~(perm \subseteq table[PageOf(a)])

\* The first bad page from addr up to end, or end: addr after each pass of the
\* loop, which a bad page ends.
first_bad(table, addr, end, perm) ==
  LET n == (end - addr) \div PGSIZE
      at[k \in 0 .. n] ==
        IF k = 0 THEN addr
        ELSE IF bad(table, at[k - 1], perm) THEN at[k - 1] ELSE at[k - 1] + PGSIZE
  IN  at[n]

user_mem_check_start(table, va, len, perm) ==
  LET end == RoundUp(va + len)
      at  == IF RoundDown(va) < end THEN first_bad(table, RoundDown(va), end, perm) ELSE end
  IN  IF at = end THEN [ok |-> TRUE] ELSE [ok |-> FALSE, user_mem_check_addr |-> at]

user_mem_check(table, va, len, perm) ==
  LET end == RoundUp(va + len)
      at  == IF RoundDown(va) < end THEN first_bad(table, RoundDown(va), end, perm) ELSE end
  IN  IF at = end THEN [ok |-> TRUE]
      ELSE [ok |-> FALSE, user_mem_check_addr |-> IF at < va THEN va ELSE at]
=============================================================================
