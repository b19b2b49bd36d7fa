------------------------------- MODULE MCTrap -------------------------------
(* Instances of Trap for TLC: one exception of each kind, with and without an
   error code, with and without a gate.                                     *)
EXTENDS Trap

TwoPoints    == {0, 1}
CallerIds    == {W("0"), W("env_id")}
SomeInts     == {2, 3, 13, 14, 15, 32, 48}
SomeFaults   == {0, 1, 6, 12, 13, 14, 16, 17}
SomeKernel   == {0, 13, 14}
AllSyscallno == {"SYS_cputs", "SYS_cgetc", "SYS_getenvid", "SYS_env_destroy", "NSYSCALLS"}
=============================================================================
