------------------------------ MODULE MCScreen ------------------------------
(* Instances of Screen for TLC. *)
EXTENDS Screen

SmallGlyph  == {"x", "\\x7f", " "}
SmallPrompt == <<"x">>
=============================================================================
