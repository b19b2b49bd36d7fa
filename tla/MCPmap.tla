------------------------------- MODULE MCPmap -------------------------------
(* Instances of Pmap for TLC. *)
EXTENDS Pmap, TLC

PermsBoth == {{"W"}, {"W", "U"}}
PermsUser == {{"W", "U"}}

PageSymmetry == Permutations(Page)
=============================================================================
