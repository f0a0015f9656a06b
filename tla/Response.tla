------------------------------ MODULE Response ------------------------------
(***************************************************************************)
(* shttp_send up to the socket: shttp_msg_response, src/msg/msg.c, writes  *)
(* a response into the program's buffer and leaves the buffer's slice on   *)
(* it; what it leaves there, shttp_sock_send sends.  shttp_send_ignore     *)
(* puts the slice back.                                                    *)
(*                                                                         *)
(* A byte is the name of the text it belongs to with its place in it.  The *)
(* buffer has one cell more than the slice handed to the library, so that  *)
(* a byte written behind the slice is seen.                                *)
(***************************************************************************)
EXTENDS Integers, Sequences, FiniteSetsExt

CONSTANTS
    Versions,       \* the names of shttp_version
    Reasons,        \* a code |-> the length of its reason phrase, 0 if unknown
    MaxHeaders,     \* bound: bytes of headers
    MaxBody,        \* bound: bytes of body
    MaxRoom,        \* bound: bytes of the program's buffer
    MaxCalls        \* bound: calls before the program resets its buffer

\* assumed of the constants where this module is instantiated
ResponseConstants ==
    /\ DOMAIN Reasons # {} /\ \A code \in DOMAIN Reasons : Reasons[code] \in Nat
    /\ MaxHeaders \in Nat /\ MaxBody \in Nat /\ MaxRoom \in Nat
    /\ MaxCalls \in Nat

VARIABLES
    size,       \* bytes of the program's buffer
    cells,      \* what is in it, and in the cell behind it
    begin, end, \* the slice: begin .. end - 1 of 1 .. size
    res,        \* history: the response of the last call
    room,       \* history: bytes the slice had when it was called
    status,     \* what it returned
    sent,       \* history: what it handed to the socket
    calls       \* bound: calls since the buffer was reset

vars == <<size, cells, begin, end, res, room, status, sent, calls>>

Responses == [version : Versions \cup {"LENGTH"}, code : DOMAIN Reasons,
              headers : 0 .. MaxHeaders, body : 0 .. MaxBody]

\* the bytes of a text that is n bytes long
Bytes(text, n) == [i \in 1 .. n |-> <<text, i>>]
Space == Bytes("SP", 1)
Newline == Bytes("CRLF", 2)
Untouched == <<"untouched", 0>>

TypeOK ==
    /\ size \in 0 .. MaxRoom
    /\ DOMAIN cells = 1 .. size + 1
    /\ begin \in 1 .. end /\ end \in 1 .. size + 1
    /\ res \in Responses
    /\ room \in 0 .. size
    /\ status \in {"none", "OK", "SLICE_END", "VALUE_INVALID"}
    /\ Len(sent) <= size
    /\ calls \in 0 .. MaxCalls

-----------------------------------------------------------------------------
(* The slice functions, on a buffer m = [cells, begin, status]; Then is     *)
(* SHTTP_PROP.                                                              *)

Then(m, Step(_)) == IF m.status = "OK" THEN Step(m) ELSE m

Written(m, at, s) ==
    [i \in DOMAIN m.cells |-> IF i - at + 1 \in DOMAIN s THEN s[i - at + 1] ELSE m.cells[i]]

\* mutant of Cpy: one byte too much is asked for
CpyTight(m, s) ==
    LET n == Min({Len(s), end - m.begin})
    IN  [cells |-> Written(m, m.begin, SubSeq(s, 1, n)),
         begin |-> m.begin + n,
         status |-> IF end - m.begin <= Len(s) THEN "SLICE_END" ELSE "OK"]

\* shttp_slice_cpy, and every other write but the digits: as much as fits
Cpy(m, s) ==
    LET n == Min({Len(s), end - m.begin})
    IN  [cells |-> Written(m, m.begin, SubSeq(s, 1, n)),
         begin |-> m.begin + n,
         status |-> IF n < Len(s) THEN "SLICE_END" ELSE "OK"]

InsertNewline(m) == Cpy(m, Newline)

-----------------------------------------------------------------------------

\* mutant of InsertVersion: the version is looked at first
InsertVersionFirst(m, r) ==
    IF r.version \in Versions THEN Cpy(m, Bytes("HTTP/", 5) \o Bytes(r.version, 3))
    ELSE [m EXCEPT !.status = "VALUE_INVALID"]

InsertVersion(m, r) ==
    LET Version(p) == IF r.version \in Versions THEN Cpy(p, Bytes(r.version, 3))
                      ELSE [p EXCEPT !.status = "VALUE_INVALID"]
    IN  Then(Cpy(m, Bytes("HTTP/", 5)), Version)

\* with room for fewer than three digits, the first ones go one cell too far;
\* with room for just three, msg->begin is not moved
Code(m, r) ==
    LET left == end - m.begin
        digits == Bytes(r.code, 3)
        Reason(p) == Cpy(p, Bytes("reason", Reasons[r.code]))
    IN  IF left < 3
        THEN [cells |-> Written(m, m.begin + 1, SubSeq(digits, 1, left)),
              begin |-> end, status |-> "SLICE_END"]
        ELSE IF left = 3
        THEN [m EXCEPT !.cells = Written(m, m.begin, digits), !.status = "SLICE_END"]
        ELSE Then(Cpy(m, digits \o Space), Reason)

StatusLine(m, r) ==
    LET SpaceAfter(p) == Cpy(p, Space)
        CodeOf(p) == Code(p, r)
    IN  Then(Then(Then(InsertVersion(m, r), SpaceAfter), CodeOf), InsertNewline)

MsgResponse(m, r) ==
    LET Headers(p) == Cpy(p, Bytes("headers", r.headers))
        Body(p) == Cpy(p, Bytes("body", r.body))
    IN  Then(Then(Then(StatusLine(m, r), Headers), InsertNewline), Body)

-----------------------------------------------------------------------------

\* shttp_send, where ignore says whether it is shttp_send_ignore
Send(r, ignore) ==
    LET m == MsgResponse([cells |-> cells, begin |-> begin, status |-> "OK"], r)
    IN  /\ calls < MaxCalls
        /\ calls' = calls + 1
        /\ res' = r /\ room' = end - begin
        /\ cells' = m.cells
        /\ status' = m.status
        /\ IF m.status = "OK"
           THEN /\ sent' = SubSeq(m.cells, begin, m.begin - 1)
                /\ UNCHANGED begin
                /\ end' = IF ignore THEN end ELSE m.begin
           ELSE /\ sent' = <<>>
                /\ UNCHANGED end
                /\ begin' = IF ignore THEN begin ELSE m.begin
        /\ UNCHANGED size

\* the program takes its whole buffer again
Reset ==
    /\ status # "none"
    /\ cells' = [i \in DOMAIN cells |-> Untouched]
    /\ begin' = 1 /\ end' = size + 1
    /\ status' = "none" /\ sent' = <<>> /\ room' = 0 /\ calls' = 0
    /\ res' = CHOOSE r \in Responses : TRUE
    /\ UNCHANGED size

Init ==
    /\ size \in 0 .. MaxRoom
    /\ cells = [i \in 1 .. size + 1 |-> Untouched]
    /\ begin = 1 /\ end = size + 1
    /\ res = CHOOSE r \in Responses : TRUE
    /\ room = 0 /\ status = "none" /\ sent = <<>> /\ calls = 0

Next == (\E r \in Responses, ignore \in BOOLEAN : Send(r, ignore)) \/ Reset

Spec == Init /\ [][Next]_vars

-----------------------------------------------------------------------------
(* Properties *)

Text(r) ==
    Bytes("HTTP/", 5) \o Bytes(r.version, 3) \o Space \o Bytes(r.code, 3) \o Space
        \o Bytes("reason", Reasons[r.code]) \o Newline
        \o Bytes("headers", r.headers) \o Newline \o Bytes("body", r.body)

\* What goes to the socket is the whole response or nothing, whatever the
\* calls before it have left of the buffer; and it is the whole response
\* exactly when the slice has room for it.
WholeOrNothing ==
    status # "none" =>
        /\ sent = IF status = "OK" THEN Text(res) ELSE <<>>
        /\ status = "OK" <=> res.version \in Versions /\ Len(Text(res)) <= room

\* A failed call reports the first part that did not fit or was not known: an
\* unknown version only when there was room for the text before it.
VersionBeforeEnd ==
    status \in {"SLICE_END", "VALUE_INVALID"} =>
        (status = "VALUE_INVALID" <=> res.version \notin Versions /\ room >= 5)
=============================================================================
