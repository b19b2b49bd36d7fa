------------------------------ MODULE MCKernel ------------------------------
(* An instance of Kernel for TLC.  Six pages to a page table: the user's, the
   tables at UENVS and UVPT, and one at KERNBASE.                           *)
EXTENDS Kernel

IxSix   == 0 .. 5
Frames  == 0 .. 12
Places  == [null |-> 0, text |-> 1, bss |-> 2, array |-> 3, beyond |-> 4, stack |-> 5,
            envs |-> 6, uvpt |-> 12, kernel |-> 18]
Phrases == [code |-> 2, hello |-> 5, making |-> 6, yes |-> 7, panic |-> 8, read |-> 9,
            char |-> 10, inval |-> 11, bad_env |-> 12]
MyImage == << [va |-> <<0, 1>>, word |-> 2], [va |-> <<0, 2>>, word |-> Null],
              [va |-> <<0, 3>>, word |-> Null] >>

\* Frame 0 is kern_pgdir, 1 holds envs[], 2 is the kernel's.
Tables  == [i \in {1, 3} |-> IF i = 1 THEN 11 ELSE 12]
Entries == [t \in {11, 12} |-> [j \in IxSix |->
              IF j # 0 THEN Null
              ELSE IF t = 11 THEN [pg |-> 1, perm |-> {"U"}] ELSE [pg |-> 2, perm |-> {"W"}]]]
Free    == <<3, 4, 5, 6, 7, 8, 9, 10>>
ShownPages  == {6} \cup {12, 13, 14, 15}
HiddenPages == {18}
TlbSome == {<<0, 3>>, <<0, 5>>}

----------------------------------------------------------------------------
(* The programs: those of user/, and all of two pieces out of these. *)

Pieces ==
  {<<Load(p)>> : p \in {Places.envs, Places.uvpt, Places.kernel}}
  \cup {<<Store(p, 5)>> : p \in {Places.array, Places.beyond, Places.envs}}
  \cup {<<Copy(3, 5)>>, <<Copy(5, 3)>>, <<Copy(4, 5)>>,  <<Expect(3, Null)>>}
  \cup {<<SoftInt(3)>>, <<SoftInt(15)>>, <<Exception(6, "none")>>}
  \cup {sys_cputs(2, 2), sys_cputs(3, 3), sys_cputs(6, 2), sys_cputs(7, 2), sys_cputs(8, 0), sys_cputs(10, 1),
        sys_cputs(10, 2), sys_cputs(9, 2), sys_cputs(9, 0), sys_cputs(36, 1)}
  \cup {sys_env_destroy(8), sys_env_destroy(4), <<Sys("NSYSCALLS", 0, 0), Save(3)>>}
  \cup {sys_cgetc \o <<Save(5)>> \o sys_cputs(10, 1), sys_getenvid \o <<Save(3)>>}

ThesePrograms ==
  {UserPrograms[name] : name \in DOMAIN UserPrograms} \cup {libmain(a \o b) : a, b \in Pieces}

\* Of those, a program for each promise that is not kept: it asks to destroy
\* nobody; it prints a string with a NUL in it, one that ends at an unmapped page,
\* and an empty one within an unmapped page.
DestroysNobody == {libmain(sys_env_destroy(8))}
PrintsNul      == {libmain(sys_cputs(6, 2))}
PrintsToHole   == {libmain(<<Store(Places.array, 5)>> \o sys_cputs(6, 2))}
PrintsNothing  == {libmain(sys_cputs(9, 0))}
=============================================================================
