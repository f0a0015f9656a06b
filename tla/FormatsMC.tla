------------------------------ MODULE FormatsMC ------------------------------
(* Numbers and Formats on small widths; every format of up to three symbols. *)
EXTENDS Formats

Letter == 49    \* 'a'
Chars == {Minus, 0, 2, 9, Letter}
SomeTexts == UNION {[1 .. n -> Chars] : n \in 0 .. 4}

Upto(n, S) == UNION {[1 .. k -> S] : k \in 0 .. n}
SomeFormats ==
    LET symbols == {Letter, 2, Escape, NumDir, SliceDir, BadDir}
    IN  Upto(3, symbols) \cup {Append(f, Unclosed) : f \in Upto(1, symbols)}
SomeFormatTexts == Upto(3, {Minus, 2, Letter, Open})
SomeArguments == {[num |-> 0, str |-> <<>>], [num |-> 20, str |-> <<Letter>>],
                  [num |-> 7, str |-> <<2, Open>>], [num |-> -5, str |-> <<0, Letter, 0>>]}
=============================================================================
