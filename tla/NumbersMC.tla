------------------------------ MODULE NumbersMC ------------------------------
(* Numbers on small widths: texts of up to four characters.               *)
EXTENDS Numbers

Letter == 49    \* 'a'
Chars == {Minus, 0, 2, 9, Letter}
SomeTexts == UNION {[1 .. n -> Chars] : n \in 0 .. 4}
=============================================================================
