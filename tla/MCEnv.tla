------------------------------- MODULE MCEnv -------------------------------
(* Instances of Env for TLC: directory indices 0 and 1 are the user's
   (program and stack both lie at 0), 2 is UVPT, and one kernel table at 3
   maps a page of the kernel for everyone to read (as UPAGES and UENVS do)
   and a page of the allocator's for the kernel alone (as the window at
   KERNBASE does).                                                         *)
EXTENDS Env, TLC

CONSTANTS k1, k2, t1, p1, p2, p3, p4, p5, p6

IxFour     == 0 .. 3
KernTabOne == [i \in {3} |-> t1]
KernMapOne == [t \in {t1} |-> [j \in IxFour |->
                 IF j = 0 THEN [pg |-> k2, perm |-> {"U"}]
                 ELSE IF j = 1 THEN [pg |-> p1, perm |-> {"W"}] ELSE Null]]
OneOrNone  == {<<>>, << [va |-> <<0, 0>>, word |-> k2] >>}
StackOnly  == {<<>>}
FiveSymmetry == Permutations({p2, p3, p4, p5})
PageSymmetry == Permutations({p2, p3, p4, p5, p6})
FreeFive   == <<p1, p2, p3, p4, p5>>
FreeSix    == <<p1, p2, p3, p4, p5, p6>>
TlbTwo     == {<<0, 3>>, <<2, 0>>}
NoVa       == {}
StackVa    == <<0, 3>>
=============================================================================
