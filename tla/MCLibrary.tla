----------------------------- MODULE MCLibrary -----------------------------
(* Inputs of Library for TLC. *)
EXTENDS Library

SmallNumbers == 0 .. 40 \cup {255, 256, 4095}
Errors == [n \in {1, 4} |-> IF n = 1 THEN <<"u", "n">> ELSE <<"o", "o", "m">>]

D(conv, flag, width, prec, star, arg) ==
  [conv |-> conv, flag |-> flag, width |-> width, prec |-> prec, star |-> star, arg |-> arg]
Plain(conv, arg) == D(conv, <<>>, -1, -1, FALSE, arg)

SomePlain ==
  {Plain("text", <<"a", "b">>), Plain("%", Nul), Plain("z", Nul), Plain("c", "q"), Plain("e", -4),
   Plain("e", 1), Plain("d", -5), Plain("d", 10), Plain("s", <<"a", "b", "c">>)}
SomeSized ==
  {D("s", f, w, p, star, a) : f \in {<<>>, <<"-">>, <<"0">>}, w \in {-1, 2, 4}, p \in {-1, 1},
                              star \in BOOLEAN, a \in {<<>>, <<"a", "b", "c">>}}
  \cup {D("d", f, w, -1, star, n) : f \in {<<>>, <<"0">>}, w \in {-1, 3, 10}, star \in BOOLEAN, n \in {0, 1234}}
  \cup {D("z", <<"-">>, 12, 3, star, Nul) : star \in BOOLEAN}
SomeDirectives == {<<d>> : d \in SomeSized \cup SomePlain}
                    \cup {<<d, e>> : d \in SomeSized \cup SomePlain, e \in SomePlain}

\* Programs of up to three lines.
LineLengths == 1 .. 3
SomeLine == [new : {"file", "fun"}, params : {0, 2}, len : LineLengths, include : BOOLEAN]
              \cup [new : {"asm", "no"}, params : {0}, len : LineLengths, include : BOOLEAN]
SomeSources ==
  {s \in UNION {[1 .. n -> SomeLine] : n \in 1 .. 3} :
     /\ s[1].new \in {"file", "asm"}
     /\ \A k \in DOMAIN s : /\ s[k].new \in {"file", "asm"} => ~s[k].include
                            /\ s[k].new = "fun" => s[k - 1].new # "asm"
                            /\ k = 3 /\ s[k].new = "fun" => s[1].new # "asm" \/ s[2].new = "file"}
SomeStrtabs == {[size |-> 28, checks |-> <<>>], [size |-> 8, checks |-> <<>>], [size |-> 10, checks |-> <<TRUE, TRUE, TRUE>>],
                [size |-> 0, checks |-> <<>>], [size |-> 28, checks |-> <<TRUE, FALSE, TRUE>>]}
Addresses == 0 .. 10
BufferSizes == {0, 1, 4}

\* Kernels of one or two segments.
Seg(pa, off, f, m) == [p_pa |-> pa, p_offset |-> off, p_filesz |-> f, p_memsz |-> m]
Segs == {h \in [p_pa : 4 .. 15, p_offset : 4 .. 15, p_filesz : 1 .. 6, p_memsz : 1 .. 8] :
           h.p_filesz <= h.p_memsz /\ (h.p_pa - h.p_offset) % SECTSIZE = 0}
SomeLayouts ==
  {<<h>> : h \in Segs}
  \cup {<<g, h>> : g \in {x \in Segs : x.p_filesz = x.p_memsz /\ x.p_pa < 8},
                   h \in {x \in Segs : x.p_memsz < 6}}
GoodLayouts == {ph \in SomeLayouts : Linked(ph)}

CmdNames == {<<"h">>}
SomeLines == UNION {[1 .. n -> {"h", "k", " ", "\t"}] : n \in 0 .. 6}

\* Three pages of the program, and two of the kernel's, whatever they let through.
Words    == {{}, {"P"}, {"P", "U"}, {"P", "W", "U"}}
SomeTables == {t \in [0 .. 4 -> Words] : t[3] \in {{}, {"P", "W", "U"}} /\ t[4] = {"P"}}
AskBoth == {{"U"}, {"U", "W"}}
=============================================================================
