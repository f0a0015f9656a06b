------------------------------- MODULE Request -------------------------------
(***************************************************************************)
(* shttp_msg_request, src/msg/msg.c: what shttp_next makes of the bytes it *)
(* has received.  The request structure is the program's; as in every      *)
(* example of the repository it is one static object that all messages are *)
(* parsed into, and all of them arrive in one buffer.                      *)
(*                                                                         *)
(* A message is a sequence of symbols: a method, "HTTP/", a version, a     *)
(* space, CR, LF, ":", ",", or "x" for any other byte.  A pointer into the *)
(* buffer is a position in the message, one past its end included; 0 is    *)
(* NULL, and Stale a pointer that an earlier message has left behind.      *)
(***************************************************************************)
EXTENDS Integers, Sequences, FiniteSetsExt

CONSTANTS
    Methods, Versions,      \* the names of SHTTP_X_METHODS and of the versions
    MethodLength,           \* the characters of each method's name
    Messages                \* what the peers may send

Marks == {"HTTP/", "SP", "CR", "LF", ":", ",", "x"}
Symbols == Methods \cup Versions \cup Marks

ASSUME RequestAssumption ==
    /\ (Methods \cup Versions) \cap Marks = {}
    /\ MethodLength \in [Methods -> Nat]
    /\ \A m \in Methods : MethodLength[m] >= 3     \* GET and PUT
    /\ \A m \in Messages : m \in Seq(Symbols) /\ m # <<>>
       \* shttp_sock_next returns no empty one

VARIABLES
    msg,        \* the symbols in the buffer, <<>> between two messages
    at,         \* msg->begin
    req,        \* the request structure
    status      \* what shttp_msg_request returned, "none" before it did

vars == <<msg, at, req, status>>

Nowhere == [from |-> 0, to |-> 0]
Stale == -1
Statuses == {"none", "OK", "SLICE_END", "PREFIX_INVALID", "VALUE_INVALID",
             "NEWLINE_EXPECTED", "SPACE_EXPECTED"}

TypeOK ==
    /\ msg \in Seq(Symbols)
    /\ at \in 1 .. Len(msg) + 1
    /\ req.method \in Methods \cup {"LENGTH"}
    /\ req.version \in Versions \cup {"LENGTH"}
    /\ \A s \in {req.path, req.headers, req.body} :
           s.from \in -1 .. Len(msg) + 1 /\ s.to \in -1 .. Len(msg) + 1
    /\ status \in Statuses

-----------------------------------------------------------------------------
(* The slice functions.  A parse in progress is [at, req, status], and Then *)
(* is SHTTP_PROP: it goes on while the status is OK.                        *)

End == Len(msg) + 1

Then(p, Step(_)) == IF p.status = "OK" THEN Step(p) ELSE p

Fail(p, s) == [p EXCEPT !.status = s]

\* shttp_slice_skip_until: the end if there is no such symbol
SkipUntil(mark, from) == Min({i \in from .. Len(msg) : msg[i] = mark} \cup {End})

\* mutants of ParseNewline: a CR alone will do, or a LF alone will not
ParseNewlineLoose(p) ==
    IF p.at = End THEN Fail(p, "SLICE_END")
    ELSE IF msg[p.at] \notin {"CR", "LF"} THEN Fail(p, "NEWLINE_EXPECTED")
    ELSE [p EXCEPT !.at = IF msg[p.at] = "CR" /\ p.at + 1 < End /\ msg[p.at + 1] = "LF"
                          THEN p.at + 2 ELSE p.at + 1]
ParseNewlineStrict(p) ==
    IF p.at + 1 < End /\ msg[p.at] = "CR" /\ msg[p.at + 1] = "LF"
    THEN [p EXCEPT !.at = p.at + 2]
    ELSE Fail(p, "NEWLINE_EXPECTED")

ParseNewline(p) ==
    LET lf == IF p.at < End /\ msg[p.at] = "CR" THEN p.at + 1 ELSE p.at
    IN  IF lf = End THEN [p EXCEPT !.at = lf, !.status = "SLICE_END"]
        ELSE IF msg[lf] # "LF"
        THEN [p EXCEPT !.at = lf, !.status = "NEWLINE_EXPECTED"]
        ELSE [p EXCEPT !.at = lf + 1]

ParseSpace(p) ==
    IF p.at = End THEN Fail(p, "SLICE_END")
    ELSE IF msg[p.at] # "SP" THEN Fail(p, "SPACE_EXPECTED")
    ELSE [p EXCEPT !.at = p.at + 1]

SkipPastNewline(p) ==
    LET lf == SkipUntil("LF", p.at)
    IN  IF lf = End THEN [p EXCEPT !.at = End, !.status = "NEWLINE_EXPECTED"]
        ELSE [p EXCEPT !.at = lf + 1]

\* on success s->begin is the CR of a CRLF, if the scan began before it
SkipUntilNewline(p) ==
    LET lf == SkipUntil("LF", p.at)
    IN  IF lf = End THEN [p EXCEPT !.at = End, !.status = "NEWLINE_EXPECTED"]
        ELSE IF lf > p.at /\ msg[lf - 1] = "CR" THEN [p EXCEPT !.at = lf - 1]
        ELSE [p EXCEPT !.at = lf]

SkipUntilSpace(p) ==
    LET space == SkipUntil("SP", p.at)
    IN  [p EXCEPT !.at = space,
                  !.status = IF space = End THEN "SPACE_EXPECTED" ELSE "OK"]

-----------------------------------------------------------------------------
(* The parts of a request *)

\* mutant of Method: any word is a method
MethodAny(p) ==
    IF p.at < End THEN [p EXCEPT !.at = p.at + 1, !.req.method = msg[p.at]]
    ELSE Fail(p, "VALUE_INVALID")

Method(p) ==
    IF p.at < End /\ msg[p.at] \in Methods
    THEN [p EXCEPT !.at = p.at + 1, !.req.method = msg[p.at]]
    ELSE [p EXCEPT !.req.method = "LENGTH", !.status = "VALUE_INVALID"]

\* mutant of Path: the path begins where it ends
PathLate(p) ==
    LET SetBoth(q) == [q EXCEPT !.req.path = [from |-> q.at, to |-> q.at]]
    IN  IF p.at = End THEN Fail(p, "SLICE_END")
        ELSE Then(SkipUntilSpace(p), SetBoth)

Path(p) ==
    LET SetEnd(q) == [q EXCEPT !.req.path.to = q.at]
    IN  IF p.at = End THEN Fail(p, "SLICE_END")
        ELSE Then(SkipUntilSpace([p EXCEPT !.req.path.from = p.at]), SetEnd)

\* there are eight bytes left for HTTP/1.0: "HTTP/" has five of them, a
\* version three
Width(symbol) == CASE symbol = "HTTP/" -> 5
                   [] symbol \in Methods -> MethodLength[symbol]
                   [] symbol \in Versions \ Methods -> 3
                   [] OTHER -> 1
EightLeft(from) ==
    LET left == {i \in from .. Len(msg) : i < from + 8}
    IN  MapThenSumSet(LAMBDA i : Width(msg[i]), left) >= 8

ParseVersion(p) ==
    IF ~EightLeft(p.at) THEN Fail(p, "SLICE_END")
    ELSE IF msg[p.at] # "HTTP/" THEN Fail(p, "PREFIX_INVALID")
    ELSE IF msg[p.at + 1] \in Versions
    THEN [p EXCEPT !.at = p.at + 2, !.req.version = msg[p.at + 1]]
    ELSE [p EXCEPT !.at = p.at + 1, !.req.version = "LENGTH",
                   !.status = "VALUE_INVALID"]

RequestLine(p) ==
    Then(Then(Then(Then(Then(Method(p), ParseSpace), Path), ParseSpace),
              ParseVersion), ParseNewline)

\* the loop: from one newline to the next until an empty line follows
SkipHeaders(p) ==
    LET loop[i \in 1 .. End] ==
            LET past == SkipPastNewline([p EXCEPT !.at = i])
                blank == ParseNewline(past)
            IN  IF past.status # "OK" THEN past
                ELSE IF past.at = End THEN Fail(past, "SLICE_END")
                ELSE IF blank.status # "OK" THEN loop[blank.at]
                ELSE [blank EXCEPT !.req.headers.to = past.at]
    IN  loop[p.at]

\* mutant of Body: the body is begun before it is known that there is one
BodyBegun(p) ==
    LET SetEnd(q) == [q EXCEPT !.req.body.to = q.at, !.at = End]
        begun == [p EXCEPT !.req.body.from = p.req.headers.to]
    IN  IF p.at = End THEN begun ELSE Then(SkipUntilNewline(begun), SetEnd)

\* the body begins with the empty line, t in the code
Body(p) ==
    LET SetEnd(q) == [q EXCEPT !.req.body.to = q.at, !.at = End]
    IN  IF p.at = End THEN p
        ELSE Then(SkipUntilNewline([p EXCEPT !.req.body.from = p.req.headers.to]),
                  SetEnd)

Slices(p) ==
    IF p.at = End THEN Fail(p, "SLICE_END")
    ELSE Then(SkipHeaders([p EXCEPT !.req.headers.from = p.at]), Body)

-----------------------------------------------------------------------------

\* a message arrives in the buffer: whatever points into it is out of date
Receive(m) ==
    /\ msg = <<>>
    /\ msg' = m
    /\ UNCHANGED <<at, req, status>>

MsgRequest ==
    /\ msg # <<>> /\ status = "none"
    /\ LET p == Then(RequestLine([at |-> at, req |-> req, status |-> "OK"]), Slices)
       IN  at' = p.at /\ req' = p.req /\ status' = p.status
    /\ UNCHANGED msg

\* the program is done with the request and resets its buffer
Reuse ==
    /\ status # "none"
    /\ msg' = <<>> /\ at' = 1 /\ status' = "none"
    /\ LET Old(s) == [e \in {"from", "to"} |-> IF s[e] = 0 THEN 0 ELSE Stale]
       IN  req' = [req EXCEPT !.path = Old(req.path), !.headers = Old(req.headers),
                              !.body = Old(req.body)]

\* the structure is static, so it is zero: GET and HTTP/1.0
Init ==
    /\ msg = <<>> /\ at = 1 /\ status = "none"
    /\ \E m \in {"GET"} \cap Methods, v \in {"1.0"} \cap Versions :
           req = [method |-> m, version |-> v, path |-> Nowhere,
                  headers |-> Nowhere, body |-> Nowhere]

Next == (\E m \in Messages : Receive(m)) \/ MsgRequest \/ Reuse

Spec == Init /\ [][Next]_vars

-----------------------------------------------------------------------------
(* Properties *)

\* the lines of the message: what lies between two newlines
LineStart(i) == i = 1 \/ (i <= Len(msg) /\ msg[i - 1] = "LF")
Blank(i) == /\ i <= Len(msg) /\ LineStart(i)
            /\ msg[i] = "LF" \/ (i < Len(msg) /\ msg[i] = "CR" /\ msg[i + 1] = "LF")

\* The headers of an accepted request are the lines between the request line
\* and the first empty line after at least one header, however lines end and
\* wherever a stray CR is: none is lost and nothing behind them is taken in.
HeadersAreLines ==
    status = "OK" =>
        /\ LineStart(req.headers.from)
        /\ \A i \in req.path.to + 1 .. req.headers.from - 1 : ~LineStart(i)
        /\ Blank(req.headers.to)
        /\ \A i \in req.headers.from + 1 .. req.headers.to - 1 : ~Blank(i)

\* The path of an accepted request lies between the first two spaces.
PathBetweenSpaces ==
    status = "OK" =>
        /\ msg[req.path.from - 1] = "SP" /\ msg[req.path.to] = "SP"
        /\ \A i \in req.path.from .. req.path.to - 1 : msg[i] # "SP"
        /\ req.path.from = 3 /\ req.version = msg[req.path.to + 2]

\* Every message of the form this server answers is accepted: a request line
\* with a known method and version, one header line or more, an empty line,
\* and behind it nothing or something with a newline in it.
WellFormed ==
    \E path \in {p \in 3 .. Len(msg) : msg[p] = "SP"} :
        /\ Len(msg) > path + 3
        /\ msg[1] \in Methods /\ msg[2] = "SP"
        /\ \A i \in 3 .. path - 1 : msg[i] # "SP"
        /\ msg[path + 1] = "HTTP/" /\ msg[path + 2] \in Versions
        /\ LET lf == IF msg[path + 3] = "CR" THEN path + 4 ELSE path + 3
           IN  /\ lf < Len(msg) /\ msg[lf] = "LF"
               /\ \E blank \in lf + 2 .. Len(msg) :
                     /\ Blank(blank)
                     /\ \A i \in lf + 2 .. blank - 1 : ~Blank(i)
                     /\ LET after == IF msg[blank] = "LF" THEN blank + 1 ELSE blank + 2
                        IN  after = End \/ \E i \in after .. Len(msg) : msg[i] = "LF"
AcceptsWellFormed ==
    msg # <<>> /\ status # "none" => (status = "OK" <=> WellFormed)

\* The body of an accepted request is the empty line and the first line
\* behind it.  If nothing is behind it the body is not touched: it never comes
\* from this message, and in a structure that is used again it may still be
\* the place of an earlier body.
BodyOfThisMessage ==
    LET after == req.headers.to + (IF msg[req.headers.to] = "LF" THEN 1 ELSE 2)
        eol == Min({i \in after .. Len(msg) : msg[i] = "LF"})
    IN  status = "OK" =>
            /\ after = End => req.body.from \in {0, Stale}
            /\ after < End =>
                 req.body = [from |-> req.headers.to,
                             to |-> IF eol > after /\ msg[eol - 1] = "CR"
                                    THEN eol - 1 ELSE eol]
=============================================================================
