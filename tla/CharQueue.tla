----------------------------- MODULE CharQueue -----------------------------
(***************************************************************************)
(* What the console promises to its reader: characters come out in the     *)
(* order in which they went in, each of them once, and 0 stands for "none  *)
(* waiting".                                                               *)
(***************************************************************************)
EXTENDS Naturals, Sequences

CONSTANT Char

VARIABLES
  queue,   \* the characters waiting
  result   \* what the last read returned

qVars == <<queue, result>>

QInit == queue = <<>> /\ result = 0

Put == /\ \E c \in Char : queue' = Append(queue, c)
       /\ UNCHANGED result

Get == /\ queue # <<>>
       /\ result' = Head(queue)
       /\ queue' = Tail(queue)

GetNone == /\ queue = <<>>
           /\ result' = 0
           /\ UNCHANGED queue

QNext == Put \/ Get \/ GetNone

QSpec == QInit /\ [][QNext]_qVars
=============================================================================
