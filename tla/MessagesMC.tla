------------------------------ MODULE MessagesMC -----------------------------
(* Whole request lines before every short tail, request lines that are cut *)
(* off or damaged before one good tail, and short headers of all kinds;    *)
(* responses with two codes that have a reason phrase and one that has not. *)
EXTENDS Messages

Tails(n) == UNION {[1 .. k -> {"CR", "LF", "x"}] : k \in 0 .. n}
Line == <<"GET", "SP", "x", "SP", "HTTP/", "1.1">>
Line2 == <<"POST", "SP", "SP", "HTTP/", "1.0">>
GoodTail == <<"CR", "LF", "x", "LF", "LF">>

CutOff == {SubSeq(Line \o GoodTail, 1, n) : n \in 1 .. Len(Line \o GoodTail)}
Damaged == {[Line EXCEPT ![i] = s] \o GoodTail :
               i \in 1 .. Len(Line), s \in {"x", "SP", "CR", "LF", "HTTP/"}}
FieldSymbols == {":", ",", "SP", "x"}
Fields == UNION {[1 .. k -> FieldSymbols] : k \in 1 .. 3}
TwoLines == {f \in [1 .. 4 -> FieldSymbols \cup {"CR", "LF"}] : f[1] = "x" /\ f[4] # "x"}
\* longer headers, of the kind that clients send
Longer == {<<"x", ":", "SP", "x", ",", "SP", "x", "CR", "LF", "x", ":", "x">>,
           <<"x", ":", "SP", "x", "SP", "x", "LF", "x", ":", "SP", "x", ",", "x">>,
           <<"x", "x", ":", "SP", "x", ",", "SP", "SP", "x", "CR", "LF", "x", ":", "SP">>}
ManyMessages ==
    {Line \o t : t \in Tails(6)} \cup {Line2 \o t : t \in Tails(3)} \cup CutOff \cup Damaged
      \cup {Line2 \o <<"LF">> \o f \o <<"CR", "LF", "LF">> : f \in Fields \cup TwoLines \cup Longer}

SomeLengths == [m \in Methods |-> IF m = "GET" THEN 3 ELSE 4]

SomeReasons == [code \in {"200", "404", "999"} |->
                   CASE code = "200" -> 2 [] code = "404" -> 3 [] OTHER -> 0]
=============================================================================
