------------------------------- MODULE Formats -------------------------------
(***************************************************************************)
(* Formats, src/slice/slice.c: shttp_slice_insert_format writes literal    *)
(* text, integers and slices into a buffer, shttp_slice_parse_format takes *)
(* a text apart again; the _delim versions are these with other delimiters *)
(* than braces.                                                            *)
(*                                                                         *)
(* A format is a sequence of characters, as in module Numbers, and of the  *)
(* symbols below for what stands between delimiters.  Of the integers it   *)
(* has the one type that Numbers is about; what an insert of an integer    *)
(* writes is the decimal text that NumberText says it does.                *)
(***************************************************************************)
EXTENDS Numbers

CONSTANTS
    Formats,        \* the formats the program uses
    FormatTexts,    \* what it parses besides what it has written
    Arguments,      \* arguments: [num, str], of which a directive takes one
    SliceRoom       \* bound: characters the slices given to a parse have room for

Open == 75          \* the opening delimiter, '{'
Escape == 1001      \* two of them
NumDir == 1002      \* {u8}, {i16} and so on
SliceDir == 1003    \* {slice}
BadDir == 1004      \* any other name between delimiters
Unclosed == 1005    \* an opening delimiter and no closing one behind it

Directives == {NumDir, SliceDir}
Symbols == Directives \cup {Escape, BadDir, Unclosed}
Literal(symbol) == symbol <= 1000

ASSUME FormatsAssumption ==
    /\ \A f \in Formats :
           /\ f \in Seq(Int) /\ Open \notin Range(f)
           /\ \A i \in DOMAIN f : Literal(f[i]) \/ f[i] \in Symbols
           /\ \A i \in DOMAIN f : f[i] = Unclosed => i = Len(f)
    /\ FormatTexts \subseteq Seq(Int)
    /\ \A a \in Arguments : a.num \in Int /\ a.str \in Seq(Int)
    /\ SliceRoom \in Nat

VARIABLES
    using,      \* what the program has done with a format, "nothing" before
    format,     \* the format
    args,       \* what it gave the insert
    space,      \* characters the buffer of the insert has
    content,    \* what the insert has written, or what is parsed
    result,     \* what the last call returned
    outs,       \* what the parse has filled in
    upto        \* where it left s->begin

formatVars == <<using, format, args, space, content, result, outs, upto>>
allVars == <<vars, formatVars>>

FormatsTypeOK ==
    /\ TypeOK
    /\ using \in {"nothing", "insert", "parse", "both"}
    /\ format \in Formats \cup {<<>>}
    /\ space \in 0 .. MaxRoom
    /\ Range(content) \subseteq Int
    /\ result \in {"OK", "SLICE_END", "VALUE_INVALID", "FORMAT_INVALID"}
    /\ Len(outs) <= Len(format)
    /\ upto \in 1 .. Len(content) + 1

-----------------------------------------------------------------------------

\* the character that symbol i of the format begins with
FirstChar(f, i) == IF Literal(f[i]) THEN f[i] ELSE Open

\* mutant of Fit: a text that does not fit is not begun
FitWhole(t, more, r) == IF Len(t) + Len(more) <= r THEN t \o more ELSE t

\* shttp_slice_cpy: as much as there is room for
Fit(t, more, r) == SubSeq(t \o more, 1, Min({r, Len(t) + Len(more)}))

\* what an insert has done so far, and symbol i of the format f with the
\* arguments a and room r for the text
InsertSymbol(f, a, r, m, i) ==
    LET Put(more) == [text |-> Fit(m.text, more, r), n |-> m.n,
                      status |-> IF Len(m.text) + Len(more) <= r THEN "OK"
                                 ELSE "SLICE_END"]
        Arg(more) == [Put(more) EXCEPT !.n = m.n + 1]
        Stop(s) == [m EXCEPT !.status = s]
    IN  IF m.status # "OK" THEN m
        ELSE CASE Literal(f[i]) -> Put(<<f[i]>>)
               [] f[i] = Escape -> Put(<<Open>>)
               [] f[i] = NumDir -> Arg(Decimal(a[m.n].num))
               [] f[i] = SliceDir -> Arg(a[m.n].str)
               [] f[i] = BadDir -> Stop("FORMAT_INVALID")
               [] f[i] = Unclosed -> Stop("SLICE_END")

\* shttp_slice_insert_format
InsertFormat(f, a, r) ==
    LET insert[i \in 0 .. Len(f)] ==
            IF i = 0 THEN [text |-> <<>>, n |-> 1, status |-> "OK"]
            ELSE InsertSymbol(f, a, r, insert[i - 1], i)
    IN  insert[Len(f)]

-----------------------------------------------------------------------------

\* mutant of RegionEnd: up to the last such character
RegionEndLast(f, q, t, from) ==
    LET marks == {i \in from .. Len(t) : t[i] = FirstChar(f, q + 1)}
    IN  IF q = Len(f) THEN Len(t) + 1 ELSE IF marks = {} THEN 0 ELSE Max(marks)

\* the text for the directive at q of the format goes up to the first
\* character that the rest of the format begins with, 0 if there is none
RegionEnd(f, q, t, from) ==
    LET marks == {i \in from .. Len(t) : t[i] = FirstChar(f, q + 1)}
    IN  IF q = Len(f) THEN Len(t) + 1 ELSE IF marks = {} THEN 0 ELSE Min(marks)

\* mutant of LiteralsAt: text that is cut off is taken for the literal
LiteralsBegun(f, p, q, t, at) ==
    IF \A i \in p .. q - 1 : at + i - p <= Len(t) => t[at + i - p] = f[i]
    THEN "OK" ELSE "VALUE_INVALID"

\* compares symbols p .. q - 1 of the format, literals, with the text at `at'
LiteralsAt(f, p, q, t, at) ==
    IF at + (q - p) > Len(t) + 1 THEN "SLICE_END"
    ELSE IF SubSeq(t, at, at + (q - p) - 1) = SubSeq(f, p, q - 1) THEN "OK"
    ELSE "VALUE_INVALID"

\* what a parse of the text t has done so far, and symbol q of the format,
\* which is no literal; `behind' is the character after the text
ParseSpecial(f, t, behind, m, q) ==
    LET char(i) == IF i <= Len(t) THEN t[i] ELSE behind
        to == RegionEnd(f, q, t, m.at)
        region == SubSeq(t, m.at, to - 1)
        number == ParseNumber(region, char(to))
        filled == SubSeq(region, 1, Min({SliceRoom, Len(region)}))
        Stop(s) == [m EXCEPT !.status = s]
        Take(s, o) == [status |-> s, outs |-> Append(m.outs, o), at |-> to, run |-> q + 1]
    IN  IF f[q] = Escape THEN
            IF char(m.at) # Open THEN Stop("FORMAT_INVALID")
            ELSE IF m.at > Len(t) THEN Stop("SLICE_END")
            ELSE [m EXCEPT !.at = m.at + 1, !.run = q + 1]
        ELSE IF f[q] = Unclosed THEN Stop("FORMAT_INVALID")
        ELSE IF to = 0 THEN Stop("VALUE_INVALID")
        ELSE IF f[q] = BadDir THEN Stop("FORMAT_INVALID")
        ELSE IF f[q] = SliceDir THEN
            Take(IF Len(region) > SliceRoom THEN "SLICE_END" ELSE "OK",
                 [num |-> 0, str |-> filled])
        ELSE IF number.status # "OK" THEN Stop(number.status)
        ELSE Take("OK", [num |-> number.out, str |-> <<>>])

\* the same for each position q, where a literal waits for what follows it,
\* and the end of the format is a position too
ParseSymbol(f, t, behind, m, q) ==
    LET literals == LiteralsAt(f, m.run, q, t, m.at)
        moved == [m EXCEPT !.at = m.at + (q - m.run)]
    IN  IF m.status # "OK" \/ (q <= Len(f) /\ Literal(f[q])) THEN m
        ELSE IF literals # "OK" THEN [m EXCEPT !.status = literals]
        ELSE IF q > Len(f) THEN moved
        ELSE ParseSpecial(f, t, behind, moved, q)

\* shttp_slice_parse_format; what is filled in before a failure stays, the
\* slice is moved on success only
ParseFormat(f, t, behind) ==
    LET parse[q \in 0 .. Len(f) + 1] ==
            IF q = 0 THEN [status |-> "OK", outs |-> <<>>, at |-> 1, run |-> 1]
            ELSE ParseSymbol(f, t, behind, parse[q - 1], q)
        m == parse[Len(f) + 1]
    IN  [status |-> m.status, outs |-> m.outs, at |-> IF m.status = "OK" THEN m.at ELSE 1]

-----------------------------------------------------------------------------
(* The program: one format at a time, when it is not at a number *)

DirectivesOf(f) == {i \in DOMAIN f : f[i] \in Directives}

FormatInsert ==
    /\ using = "nothing" /\ writer = "nobody"
    /\ using' = "insert"
    /\ format' \in Formats
    /\ args' \in [1 .. Cardinality(DirectivesOf(format')) -> {a \in Arguments : a.num \in Printable}]
    /\ space' \in 0 .. MaxRoom
    /\ LET m == InsertFormat(format', args', space')
       IN  content' = m.text /\ result' = m.status
    /\ UNCHANGED <<vars, outs, upto>>

ParseInto(f, t) ==
    \E behind \in {0, Open, Minus} :
        LET m == ParseFormat(f, t, behind)
        IN  result' = m.status /\ outs' = m.outs /\ upto' = m.at

\* what was written is parsed with the same format
FormatReread ==
    /\ using = "insert"
    /\ using' = "both"
    /\ ParseInto(format, content)
    /\ UNCHANGED <<vars, format, args, space, content>>

FormatParse ==
    /\ using = "nothing" /\ writer = "nobody"
    /\ using' = "parse"
    /\ format' \in Formats /\ content' \in FormatTexts
    /\ ParseInto(format', content')
    /\ UNCHANGED <<vars, args, space>>

FormatDone ==
    /\ using # "nothing"
    /\ using' = "nothing" /\ format' = <<>> /\ args' = <<>> /\ space' = 0
    /\ content' = <<>> /\ result' = "OK" /\ outs' = <<>> /\ upto' = 1
    /\ UNCHANGED vars

NoFormat ==
    /\ using = "nothing" /\ format = <<>> /\ args = <<>> /\ space = 0
    /\ content = <<>> /\ result = "OK" /\ outs = <<>> /\ upto = 1

FormatsInit == Init /\ NoFormat

FormatsNext ==
    \/ using = "nothing" /\ Next /\ UNCHANGED formatVars
    \/ FormatInsert \/ FormatReread \/ FormatParse \/ FormatDone

FormatsSpec ==
    FormatsInit /\ [][FormatsNext]_allVars
        /\ WF_allVars(using = "nothing" /\ Insert /\ UNCHANGED formatVars)

-----------------------------------------------------------------------------
(* Properties *)

\* which directive of the format symbol i is, and the text for each symbol
Nth(i) == Cardinality({k \in DirectivesOf(format) : k <= i})
Pieces ==
    [i \in DOMAIN format |->
        CASE format[i] = Escape -> <<Open>>
          [] format[i] = NumDir -> Decimal(args[Nth(i)].num)
          [] format[i] = SliceDir -> args[Nth(i)].str
          [] OTHER -> <<format[i]>>]
Faulty == {i \in DOMAIN format : format[i] \in {BadDir, Unclosed}}

\* An insert writes the texts of its format's symbols one after the other, up
\* to the first symbol that is not valid and as much as the buffer has room
\* for; it succeeds if that is all of it, and says FORMAT_INVALID only if the
\* fault is in the format.
FormatText ==
    LET fault == Min(Faulty \cup {Len(format) + 1})
        whole == FlattenSeq(SubSeq(Pieces, 1, fault - 1))
    IN  using = "insert" =>
            /\ content = SubSeq(whole, 1, Min({space, Len(whole)}))
            /\ result = IF Len(whole) > space THEN "SLICE_END"
                        ELSE IF Faulty = {} THEN "OK"
                        ELSE IF format[fault] = BadDir THEN "FORMAT_INVALID"
                        ELSE "SLICE_END"

\* What was written in full is read back by the same format, every value and
\* all of the text, if the format lets one see where a value ends: behind each
\* directive there is nothing, or a character that the value does not have.
FormatRoundTrip ==
    LET separable(i) ==
            i < Len(format) => /\ format[i + 1] \notin Directives
                               /\ FirstChar(format, i + 1) \notin Range(Pieces[i])
        ends(i) == format[i] \in Directives => separable(i) /\ Len(Pieces[i]) <= SliceRoom
        read(i) == IF format[i] = NumDir THEN [num |-> args[Nth(i)].num, str |-> <<>>]
                   ELSE [num |-> 0, str |-> args[Nth(i)].str]
    IN  /\ using = "both" /\ Faulty = {} /\ Len(FlattenSeq(Pieces)) <= space
        /\ \A i \in DOMAIN format : ends(i)
        => /\ result = "OK" /\ upto = Len(content) + 1
           /\ \A i \in DOMAIN format :
                  format[i] \in Directives => outs[Nth(i)] = read(i)

\* The ways to cut a text up so that each symbol of the format has its part:
\* a literal itself, a directive all up to the character that comes next in
\* the format, or up to the end if nothing does.  What follows the digits in
\* the part of a number is passed over.
Cuts(loneMinus) ==
    {at \in [1 .. Len(format) + 1 -> 1 .. Len(content) + 1] :
        /\ at[1] = 1
        /\ \A i \in DOMAIN format :
              LET part == SubSeq(content, at[i], at[i + 1] - 1)
                  digit == IF signed /\ part # <<>> /\ part[1] = Minus THEN 2 ELSE 1
                  next == FirstChar(format, i + 1)
              IN  /\ at[i] <= at[i + 1]
                  /\ Literal(format[i]) => part = <<format[i]>>
                  /\ format[i] = Escape => part = <<Open>>
                  /\ format[i] \in Directives =>
                        IF i = Len(format) THEN at[i + 1] = Len(content) + 1
                        ELSE /\ next \notin Range(part)
                             /\ at[i + 1] <= Len(content) /\ content[at[i + 1]] = next
                  /\ format[i] = SliceDir => Len(part) <= SliceRoom
                  /\ format[i] = NumDir =>
                        \/ digit <= Len(part) /\ part[digit] \in 0 .. 9
                        \/ loneMinus /\ signed /\ part = <<Minus>>}

\* A parse succeeds exactly if its text can be cut up like this, gives out
\* the parts, and stops where the format does; else it leaves the slice where
\* it was.  (A part that is a minus alone may be taken for 0.)
FormatMatches ==
    using = "parse" =>
        /\ Faulty = {} /\ Cuts(FALSE) # {} => result = "OK"
        /\ result = "OK" =>
              /\ Faulty = {}
              /\ \E at \in Cuts(TRUE) :
                    /\ upto = at[Len(format) + 1]
                    /\ \A i \in DOMAIN format : format[i] = SliceDir =>
                          outs[Nth(i)].str = SubSeq(content, at[i], at[i + 1] - 1)
        /\ result # "OK" => upto = 1
=============================================================================
