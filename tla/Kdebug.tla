------------------------------- MODULE Kdebug -------------------------------
(***************************************************************************)
(* kern/kdebug.c: finds the function, file and line of an instruction in   *)
(* the table of stabs that the linker leaves.  A stab has a type, a value  *)
(* (an address), a place in the string table and a number (n_desc).        *)
(***************************************************************************)
EXTENDS Strings

\* An iteration of the loop: s.l and s.r are the bounds of the search, s.left
\* and s.right those it will return.  next is what to look for once s.addr has
\* been found.
bisect(stabs, type, s, next) ==
  LET true_m == (s.l + s.r) \div 2
      typed  == {m \in s.l .. true_m : stabs[m].type = type}
      m      == CHOOSE i \in typed : \A j \in typed : j <= i
  IN  IF typed = {} THEN [s EXCEPT !.l = true_m + 1]
      ELSE IF stabs[m].value < s.addr
           THEN [s EXCEPT !.any = TRUE, !.left = m, !.l = true_m + 1]
      ELSE IF stabs[m].value > s.addr
           THEN [s EXCEPT !.any = TRUE, !.right = m - 1, !.r = m - 1]
      ELSE [s EXCEPT !.any = TRUE, !.left = m, !.l = m, !.addr = next]

halve_exact(stabs, type, s) == bisect(stabs, type, s, s.addr)

halve(stabs, type, s) == bisect(stabs, type, s, s.addr + 1)

\* The last stab of the type in left+1 .. right, or left.
rightmost(stabs, type, left, right) ==
  LET typed == {i \in left + 1 .. right : stabs[i].type = type}
  IN  IF right < left THEN right
      ELSE IF typed = {} THEN left
      ELSE CHOOSE i \in typed : \A j \in typed : j <= i

\* The loop ends within twice as many iterations as there are stabs.
stab_binsearch(stabs, left, right, type, addr) ==
  LET after[k \in 0 .. 2 * (right - left + 2)] ==
        IF k = 0 THEN [l |-> left, r |-> right, left |-> left, right |-> right,
                       addr |-> addr, any |-> FALSE]
        ELSE LET before == after[k - 1]
             IN  IF before.l > before.r THEN before ELSE halve(stabs, type, before)
      end == after[2 * (right - left + 2)]
  IN  IF ~end.any THEN [left |-> end.left, right |-> end.left - 1, ended |-> end.l > end.r]
      ELSE [left |-> rightmost(stabs, type, end.left, end.right), right |-> end.right,
            ended |-> end.l > end.r]

----------------------------------------------------------------------------
(* debuginfo_eip.  A table has its stabs, from 0 on, and its string table;  *)
(* in a user program's, t.checks tells what each user_mem_check finds.      *)

Unknown == -1    \* the string "<unknown>"

NoInfo(addr) == [ret |-> -1, file |-> Unknown, line |-> 0, fn_name |-> Unknown, fn_namelen |-> 9,
                 fn_addr |-> addr, narg |-> 0]

Valid(t) == /\ \A k \in DOMAIN t.checks : t.checks[k]
            /\ t.stabstr # <<>> /\ Last(t.stabstr) = Nul

\* The place of a stab's string, if it is inside of the table.
name(t, i) == IF t.stabs[i].strx < Len(t.stabstr) THEN t.stabs[i].strx ELSE Unknown

namelen(t, strx) == IF strx = Unknown THEN 9 ELSE strfind(t.stabstr, strx + 1, ":") - (strx + 1)

\* The stab, from lline backwards, that names the file the line comes from: an
\* included one, or the source file.
file_stab(t, lline, lfile) ==
  {i \in lfile .. lline : \/ t.stabs[i].type = "SOL"
                          \/ t.stabs[i].type = "SO" /\ t.stabs[i].value # 0}

\* The parameters that follow the stab of the function.
params(t, lfun, rfun) ==
  IF lfun >= rfun THEN 0
  ELSE Min({i \in lfun + 1 .. rfun : i = rfun \/ t.stabs[i].type # "PSYM"}) - (lfun + 1)

\* uintptr_t wraps around: it has 32 bits; here as many as no address needs.
UINTPTR == 2 ^ 16

debuginfo_eip(t, addr) ==
  LET file  == stab_binsearch(t.stabs, 0, Cardinality(DOMAIN t.stabs) - 1, "SO", addr)
      fun   == stab_binsearch(t.stabs, file.left, file.right, "FUN", addr)
      found == fun.left <= fun.right
      named == IF found
               THEN LET strx == name(t, fun.left)
                    IN  [NoInfo(addr) EXCEPT !.fn_name = strx, !.fn_namelen = namelen(t, strx),
                                             !.fn_addr = t.stabs[fun.left].value]
               ELSE NoInfo(addr)
      line  == IF found THEN stab_binsearch(t.stabs, fun.left, fun.right, "SLINE",
                                          (addr - named.fn_addr) % UINTPTR)
               ELSE stab_binsearch(t.stabs, file.left, file.right, "SLINE", addr)
      sol   == file_stab(t, line.left, file.left)
  IN  IF ~Valid(t) \/ file.left = 0 THEN NoInfo(addr)
      ELSE IF line.left > line.right THEN named
      ELSE [named EXCEPT !.ret  = 0,
                         !.line = t.stabs[line.left].desc,
                         !.file = IF sol = {} THEN @ ELSE name(t, Max(sol)),
                         !.narg = params(t, fun.left, fun.right)]
=============================================================================
