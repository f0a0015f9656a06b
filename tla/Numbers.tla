------------------------------- MODULE Numbers -------------------------------
(***************************************************************************)
(* Integers as text, src/slice/slice.c: shttp_slice_insert_u32, _u16, _u8, *)
(* _i16 and _i8 write one into a buffer, shttp_slice_parse_* read it back. *)
(* The functions of one family differ in the width of the value only; the  *)
(* magnitude they divide by has a width of its own, 32 bits in all of      *)
(* them.  The module has both as constants, so that small ones show what   *)
(* the real ones do.                                                       *)
(*                                                                         *)
(* An insert is its loops step by step, because one of them may not end; a *)
(* parse is one step.  A character is its distance from '0': a digit is    *)
(* itself, '-' is -3, and whatever is written beyond '9' stays visible.    *)
(***************************************************************************)
EXTENDS Integers, SequencesExt

CONSTANTS
    Modulus,    \* how many values the value has, 2 to its width
    MagModulus, \* how many mag has
    Signs,      \* which families are called: signed ones, unsigned ones
    MaxRoom,    \* bound: characters the buffer has room for
    Texts       \* what else than the insert's output is parsed

\* signed magnitudes never overflow: insert_i32 is not modelled
ASSUME NumbersAssumption ==
    /\ Modulus \in Nat \ {0} /\ MagModulus \in Nat
    /\ Modulus <= MagModulus /\ 10 < MagModulus
    /\ Signs \subseteq BOOLEAN
    /\ TRUE \in Signs => Modulus % 2 = 0 /\ 10 * Modulus <= MagModulus
    /\ MaxRoom \in Nat
    /\ Texts \subseteq Seq(Int)

VARIABLES
    signed,     \* whether this is one of the insert_i, parse_i functions
    call,       \* where the insert is, or "idle"
    given,      \* history: the value the insert was called with
    val, mag,   \* the insert's variables
    room,       \* characters the buffer of the insert has
    text,       \* what it has written, or what is to be parsed
    status,     \* what the last call returned
    out,        \* what the last successful parse gave
    begin,      \* where it left s->begin, a position in text
    writer,     \* history: who wrote text
    parsed      \* history: whether the last call was a parse

job == <<signed, given, val, mag, room>>
vars == <<signed, call, given, val, mag, room, text, status, out, begin, writer, parsed>>

Minus == -3
\* mutant of Digits: a zero is not one
DigitsButZero == 1 .. 9

Digits == 0 .. 9
MinVal == IF signed THEN -(Modulus \div 2) ELSE 0
MaxVal == MinVal + Modulus - 1
Values == MinVal .. MaxVal

TypeOK ==
    /\ signed \in Signs
    /\ call \in {"idle", "scale", "digits"}
    /\ given \in Values /\ val \in Values
    /\ mag \in 0 .. MagModulus - 1
    /\ room \in 0 .. MaxRoom
    /\ text \in Seq(Int)
    /\ status \in {"OK", "SLICE_END", "VALUE_INVALID"}
    /\ out \in Values
    /\ begin \in 1 .. Len(text) + 1
    /\ writer \in {"nobody", "insert", "program"}
    /\ parsed \in BOOLEAN

-----------------------------------------------------------------------------

\* mutant of Wrap: the value never overflows
Unwrapped(n) == n

Wrap(n) == MinVal + ((n - MinVal) % Modulus)

\* mutant of WrapMag: mag is of the type of the value
WrapMagNarrow(n) == n % (Modulus \div 2)

WrapMag(n) == n % MagModulus

\* an insert that has returned s
Return(s) == call' = "idle" /\ status' = s

\* the checks before the loops, and the minus sign
InsertCall(v, r) ==
    LET sign == IF v < 0 /\ r > 0 THEN <<Minus>> ELSE <<>>
    IN  /\ writer = "nobody"
        /\ writer' = "insert"
        /\ given' = v /\ room' = r
        /\ text' = sign
        /\ val' = IF sign # <<>> THEN Wrap(-v) ELSE v
        /\ mag' = 10
        /\ IF Len(sign) = r
           THEN Return("SLICE_END")
           ELSE call' = "scale" /\ UNCHANGED status
        /\ UNCHANGED <<signed, out, begin, parsed>>

\* while(mag <= val) mag *= 10;
Scale ==
    /\ call = "scale" /\ mag <= val
    /\ mag' = WrapMag(mag * 10)
    /\ UNCHANGED <<signed, call, given, val, room, text, status, out, begin, writer, parsed>>

\* mutant of Emit: val keeps the digit
EmitKeepsVal(m) ==
    /\ text' = Append(text, val \div m)
    /\ mag' = m \div 10
    /\ call' = "digits"
    /\ UNCHANGED <<signed, given, val, room, status, out, begin, writer, parsed>>

\* one digit for the magnitude m, which is never 0
Emit(m) ==
    /\ text' = Append(text, val \div m)
    /\ val' = val % m
    /\ mag' = m \div 10
    /\ call' = "digits"
    /\ UNCHANGED <<signed, given, room, status, out, begin, writer, parsed>>

\* mutant of FirstDigit: the magnitude is one too high
FirstDigitHigh ==
    /\ call = "scale" /\ mag > val
    /\ Emit(mag)

FirstDigit ==
    /\ call = "scale" /\ mag > val
    /\ Emit(mag \div 10)

NextDigit ==
    /\ call = "digits" /\ mag # 0 /\ Len(text) < room
    /\ Emit(mag)

InsertReturn ==
    /\ call = "digits"
    /\ \/ mag = 0 /\ Return("OK")
       \/ mag # 0 /\ Len(text) = room /\ Return("SLICE_END")
    /\ UNCHANGED <<job, text, out, begin, writer, parsed>>

Insert == Scale \/ FirstDigit \/ NextDigit \/ InsertReturn

-----------------------------------------------------------------------------

\* shttp_slice_parse_* of the slice t with the character `behind' after it,
\* which a lone '-' makes it look at: if that is a digit the call succeeds
\* with 0.  (parse_i32 is this for the texts whose number fits: beyond them
\* its overflow is undefined.)
ParseNumber(t, behind) ==
    LET minus == signed /\ t # <<>> /\ t[1] = Minus
        first == IF minus THEN 2 ELSE 1
        stop == Min({i \in first .. Len(t) : t[i] \notin Digits} \cup {Len(t) + 1})
        sum[i \in 0 .. Len(t)] ==
            IF i < first THEN 0 ELSE Wrap(Wrap(sum[i - 1] * 10) + t[i])
        n == sum[stop - 1]
    IN  [status |-> IF t = <<>> THEN "SLICE_END"
                    ELSE IF stop = first /\ ~(minus /\ Len(t) = 1 /\ behind \in Digits)
                    THEN "VALUE_INVALID" ELSE "OK",
         out |-> IF minus THEN Wrap(-n) ELSE n,
         begin |-> stop]

Parse ==
    /\ call = "idle" /\ writer # "nobody" /\ ~parsed
    /\ parsed' = TRUE
    /\ \E behind \in {0, Minus} :
           LET r == ParseNumber(text, behind)
           IN  /\ status' = r.status
               /\ out' = IF r.status = "OK" THEN r.out ELSE out
               /\ begin' = IF r.status = "SLICE_END" THEN begin ELSE r.begin
    /\ UNCHANGED <<call, job, text, writer>>

\* text that did not come from an insert
Receive(t) ==
    /\ writer = "nobody"
    /\ writer' = "program"
    /\ text' = t
    /\ UNCHANGED <<call, job, status, out, begin, parsed>>

\* the program turns to another buffer, and to the other family as it likes
Forget ==
    /\ signed' \in Signs
    /\ call = "idle" /\ writer # "nobody"
    /\ writer' = "nobody" /\ parsed' = FALSE
    /\ given' = 0 /\ val' = 0 /\ mag' = 10 /\ room' = 0
    /\ text' = <<>> /\ out' = 0 /\ begin' = 1 /\ status' = "OK"
    /\ UNCHANGED call

-----------------------------------------------------------------------------

Init ==
    /\ signed \in Signs
    /\ call = "idle" /\ writer = "nobody" /\ parsed = FALSE
    /\ given = 0 /\ val = 0 /\ mag = 10 /\ room = 0
    /\ text = <<>> /\ out = 0 /\ begin = 1 /\ status = "OK"

Next ==
    \/ \E v \in Values, r \in 0 .. MaxRoom : InsertCall(v, r)
    \/ \E t \in Texts : Receive(t)
    \/ Insert \/ Parse \/ Forget

Spec == Init /\ [][Next]_vars

\* a call that has begun is not interrupted for ever
FairSpec == Spec /\ WF_vars(Insert)

-----------------------------------------------------------------------------
(* Properties *)

Decimal(v) ==
    LET digits[n \in Nat] ==
            IF n < 10 THEN <<n>> ELSE Append(digits[n \div 10], n % 10)
    IN  IF v < 0 THEN <<Minus>> \o digits[-v] ELSE digits[v]

\* The values an insert writes as they are.  The least number of a signed type
\* is none: negated it is itself again, and one character that is no digit
\* follows the minus sign.  Of the widest unsigned type those are none for
\* which mag may overflow.
Printable == {v \in Values : ~(signed /\ v = MinVal) /\ 10 * v < MagModulus}

\* An insert that has returned has written the decimal text of the value, or
\* as much of it from the front as the buffer has room for, and its status
\* tells which.
Written(v) ==
    call = "idle" /\ writer = "insert" /\ ~parsed /\ given = v =>
        /\ text = SubSeq(Decimal(v), 1, Min({room, Len(Decimal(v))}))
        /\ status = IF Len(Decimal(v)) <= room THEN "OK" ELSE "SLICE_END"
NumberText == \A v \in Printable : Written(v)

\* What an insert wrote in full, parse reads back, all of it.
RoundTrip ==
    parsed /\ writer = "insert" /\ Len(Decimal(given)) <= room /\ given \in Printable =>
        status = "OK" /\ out = given /\ begin = Len(text) + 1

\* Of any text, parse reads the longest run of digits and gives its value
\* modulo the width of the type; a value that does not fit is not reported.
ParsedModulo ==
    LET minus == signed /\ text[1] = Minus
        number == SubSeq(text, IF minus THEN 2 ELSE 1, begin - 1)
        upto[i \in 0 .. Len(number)] ==
            IF i = 0 THEN 0 ELSE 10 * upto[i - 1] + number[i]
        value == upto[Len(number)]
    IN  parsed /\ status = "OK" =>
            /\ begin <= Len(text) => text[begin] \notin 0 .. 9
            /\ Range(number) \subseteq 0 .. 9
            /\ (out - (IF minus THEN -value ELSE value)) % Modulus = 0

\* Every insert returns, with OK or with what slice.h:119 says: SLICE_END.
InsertEnds == call # "idle" ~> call = "idle"
=============================================================================
