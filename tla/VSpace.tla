------------------------------- MODULE VSpace -------------------------------
(***************************************************************************)
(* What kern/pmap.c promises its callers, without page tables, reference   *)
(* counts or a free list: a set of directories, each a function from       *)
(* virtual addresses to pages, and a supply of pages.  A page that is      *)
(* neither mapped anywhere nor held by a caller is the allocator's to give *)
(* out, or to keep for its own use; nothing else ever is.                  *)
(***************************************************************************)
CONSTANTS Page, Dir, Va, PermSet, Null

VARIABLES
  space,   \* [Dir \X Va -> a mapping [pg, perm] or Null]
  held     \* the pages callers hold

vsVars == <<space, held>>

Mapped == {space[s].pg : s \in {t \in Dir \X Va : space[t] # Null}}

VSInit == space = [s \in Dir \X Va |-> Null] /\ held = {}

\* The caller is given a page that nobody uses.
Give ==
  /\ \E p \in Page \ (held \cup Mapped) : held' = held \cup {p}
  /\ UNCHANGED space

\* The caller gives back a page it holds.
Return ==
  /\ \E p \in held : held' = held \ {p}
  /\ UNCHANGED space

\* A page the caller holds or has mapped appears at one address, whatever was
\* there before.  Its last other mapping may be the one replaced.
Map ==
  \E s \in Dir \X Va, p \in held \cup Mapped, perm \in PermSet :
    /\ space' = [space EXCEPT ![s] = [pg |-> p, perm |-> perm]]
    /\ held' = held \ {p}

Unmap ==
  /\ \E s \in Dir \X Va : space' = [space EXCEPT ![s] = Null]
  /\ UNCHANGED held

VSNext == Give \/ Return \/ Map \/ Unmap

VSSpec == VSInit /\ [][VSNext]_vsVars
=============================================================================
