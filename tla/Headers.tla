------------------------------- MODULE Headers -------------------------------
(***************************************************************************)
(* Reading the headers of a request, src/slice/slice.c: a program that has *)
(* got a request from shttp_msg_request (module Request) goes through      *)
(* req.headers with shttp_header_next, and through a line of it, or        *)
(* through all that is left of it, with shttp_header_key and               *)
(* shttp_header_value.                                                     *)
(*                                                                         *)
(* Each call moves the begin of the slice it reads; the program keeps two, *)
(* one for the lines and one inside of what it is looking at.  It zeroes   *)
(* the slice a call is to fill: after a call that failed, its begin may be *)
(* behind its end, which the next call asserts it is not.                  *)
(***************************************************************************)
EXTENDS Request, SequencesExt

VARIABLES
    headers,    \* what header_next has not returned of req.headers
    lines,      \* the lines it returned
    inside,     \* what key and value read: [from, to]
    key,        \* the key that was read, <<>> before
    words,      \* the values that were read
    first,      \* history: where the values begin
    read        \* what the last of the calls returned, "none" before one

iteration == <<headers, lines, inside, key, words, first, read>>
headersVars == <<vars, iteration>>

HeadersTypeOK ==
    /\ TypeOK
    /\ \A s \in {headers, inside} \cup Range(lines \o words \o key) :
           s.from \in 0 .. Len(msg) + 1 /\ s.to \in 0 .. Len(msg) + 1
    /\ Len(key) <= 1
    /\ first \in 0 .. Len(msg) + 1
    /\ read \in {"none", "OK", "SLICE_END", "NEWLINE_EXPECTED"}

-----------------------------------------------------------------------------
(* The calls, from a slice s to [s, out, status] *)

\* shttp_slice_skip_until and _until_or, as far as the slice goes
Until(marks, s) == Min({i \in s.from .. s.to - 1 : msg[i] \in marks} \cup {s.to})

\* a CR before the mark at i is not part of the text from s.from on
WithoutCR(s, i) == IF i > s.from /\ msg[i - 1] = "CR" THEN i - 1 ELSE i

\* shttp_slice_parse_space_optional, whose SLICE_END is the caller's business
PastSpace(i, to) == IF i < to /\ msg[i] = "SP" THEN i + 1 ELSE i

At(s, i) == [s EXCEPT !.from = i]
Upto(s, i) == [s EXCEPT !.to = i]
Ended(s) == [s |-> At(s, s.to), out |-> Nowhere, status |-> "SLICE_END"]

\* mutant of HeaderNext: the next line begins where this one ends
HeaderNextStays(s) ==
    LET lf == Until({"LF"}, s)
    IN  IF s.from = s.to THEN Ended(s)
        ELSE [s |-> At(s, lf), out |-> Upto(s, WithoutCR(s, lf)), status |-> "OK"]

HeaderNext(s) ==
    LET lf == Until({"LF"}, s)
    IN  IF s.from = s.to THEN Ended(s)
        ELSE IF lf = s.to THEN [Ended(s) EXCEPT !.status = "NEWLINE_EXPECTED"]
        ELSE [s |-> At(s, lf + 1), out |-> Upto(s, WithoutCR(s, lf)), status |-> "OK"]

\* a key that ends the slice is filled in, with SLICE_END
HeaderKey(s) ==
    LET colon == Until({":"}, s)
    IN  IF colon = s.to THEN Ended(s)
        ELSE [s |-> At(s, PastSpace(colon + 1, s.to)), out |-> Upto(s, colon),
              status |-> IF colon + 1 = s.to THEN "SLICE_END" ELSE "OK"]

\* mutant of HeaderValue: no space is looked for behind a comma
HeaderValueTight(s) ==
    LET mark == Until({"SP", "LF", ","}, s)
    IN  IF mark = s.to THEN Ended(s)
        ELSE [s |-> At(s, mark + 1), out |-> Upto(s, WithoutCR(s, mark)), status |-> "OK"]

\* what follows the last separator of the slice is not a value: SLICE_END
HeaderValue(s) ==
    LET mark == Until({"SP", "LF", ","}, s)
        next == IF msg[mark] = "SP" THEN mark ELSE mark + 1
    IN  IF mark = s.to THEN Ended(s)
        ELSE [s |-> At(s, PastSpace(next, s.to)), out |-> Upto(s, WithoutCR(s, mark)),
              status |-> "OK"]

-----------------------------------------------------------------------------
(* The program *)

NotYet ==
    /\ headers = Nowhere /\ inside = Nowhere /\ first = 0
    /\ lines = <<>> /\ key = <<>> /\ words = <<>> /\ read = "none"

\* s = req.headers, once it has a request
TakeHeaders ==
    /\ status = "OK" /\ headers = Nowhere
    /\ headers' = req.headers
    /\ UNCHANGED <<vars, lines, inside, key, words, first, read>>

NextLine ==
    /\ headers # Nowhere /\ read \in {"none", "OK"} /\ inside = Nowhere
    /\ LET r == HeaderNext(headers)
       IN  /\ headers' = r.s
           /\ lines' = IF r.status = "OK" THEN Append(lines, r.out) ELSE lines
           /\ read' = r.status
    /\ UNCHANGED <<vars, inside, key, words, first>>

\* the program turns to what is in the line, or to all that is left
LookInside ==
    /\ headers # Nowhere /\ inside = Nowhere
    /\ \/ lines # <<>> /\ inside' = Last(lines)
       \/ inside' = headers
    /\ read' = "none"
    /\ first' = inside'.from
    /\ UNCHANGED <<vars, headers, lines, key, words>>

ReadKey ==
    /\ inside # Nowhere /\ read = "none"
    /\ LET r == HeaderKey(inside)
       IN  /\ inside' = r.s /\ first' = r.s.from
           /\ key' = IF r.out = Nowhere THEN key ELSE <<r.out>>
           /\ read' = r.status
    /\ UNCHANGED <<vars, headers, lines, words>>

ReadValue ==
    /\ inside # Nowhere /\ read \in {"none", "OK"}
    /\ LET r == HeaderValue(inside)
       IN  /\ inside' = r.s
           /\ words' = IF r.status = "OK" THEN Append(words, r.out) ELSE words
           /\ read' = r.status
    /\ UNCHANGED <<vars, headers, lines, key, first>>

\* the program turns to the next line
LookOutside ==
    /\ inside # Nowhere
    /\ inside' = Nowhere /\ first' = 0 /\ key' = <<>> /\ words' = <<>> /\ read' = "OK"
    /\ UNCHANGED <<vars, headers, lines>>

\* with the next message all of it begins again
ReuseAll ==
    /\ Reuse
    /\ headers' = Nowhere /\ inside' = Nowhere /\ first' = 0
    /\ lines' = <<>> /\ key' = <<>> /\ words' = <<>> /\ read' = "none"

HeadersInit == Init /\ NotYet

HeadersNext ==
    \/ msg = <<>> /\ (\E m \in Messages : Receive(m)) /\ UNCHANGED iteration
    \/ MsgRequest /\ UNCHANGED iteration
    \/ ReuseAll
    \/ TakeHeaders \/ NextLine \/ LookInside \/ ReadKey \/ ReadValue \/ LookOutside

HeadersSpec == HeadersInit /\ [][HeadersNext]_headersVars

-----------------------------------------------------------------------------
(* Properties *)

\* the members of S, which are positions of the message, in order
InOrder(S) ==
    LET upto[i \in 0 .. Len(msg)] ==
            IF i = 0 THEN <<>>
            ELSE IF i \in S THEN Append(upto[i - 1], i) ELSE upto[i - 1]
    IN  upto[Len(msg)]

\* header_next returns the lines of an accepted request's headers one by one,
\* whatever the program does with a line in between: none twice, none left
\* out, a CRLF or LF at the end of none, and then SLICE_END.  It never finds
\* a line without its newline: that much msg_request has made sure of.
HeaderLines ==
    LET ends == InOrder({i \in req.headers.from .. req.headers.to - 1 : msg[i] = "LF"})
        line(n) == LET from == IF n = 1 THEN req.headers.from ELSE ends[n - 1] + 1
                   IN  [from |-> from, to |-> IF ends[n] > from /\ msg[ends[n] - 1] = "CR"
                                              THEN ends[n] - 1 ELSE ends[n]]
    IN  headers # Nowhere =>
            /\ Len(lines) <= Len(ends)
            /\ lines = [n \in 1 .. Len(lines) |-> line(n)]
            /\ read # "NEWLINE_EXPECTED"
            /\ inside = Nowhere /\ read = "SLICE_END" => Len(lines) = Len(ends)

\* The key is what comes before the first colon, and the values are what lies
\* between separators, one after the other, with nothing lost in between: a
\* separator is a space, or a comma or newline with at most one space behind.
\* In a line from header_next what follows the last separator is never
\* returned; in the whole section, where a newline follows, it is.
HeaderWords ==
    LET mark(i) == msg[i] \in {"LF", ","}
        separates(i) == mark(i) \/ (msg[i] = "SP" /\ ~(i > first /\ mark(i - 1)))
        cuts == InOrder({i \in first .. inside.to - 1 : separates(i)})
        begin(n) == IF n = 1 THEN first
                    ELSE IF mark(cuts[n - 1]) /\ cuts[n - 1] + 1 < inside.to
                            /\ msg[cuts[n - 1] + 1] = "SP"
                    THEN cuts[n - 1] + 2 ELSE cuts[n - 1] + 1
        end(n) == IF cuts[n] > begin(n) /\ msg[cuts[n] - 1] = "CR"
                  THEN cuts[n] - 1 ELSE cuts[n]
    IN  inside # Nowhere =>
            /\ Len(words) <= Len(cuts)
            /\ words = [n \in 1 .. Len(words) |-> [from |-> begin(n), to |-> end(n)]]
            /\ read = "SLICE_END" => Len(words) = Len(cuts)
            /\ key # <<>> =>
                 /\ \A i \in key[1].from .. key[1].to - 1 : msg[i] # ":"
                 /\ msg[key[1].to] = ":"
                 /\ first = key[1].to + (IF key[1].to + 1 < inside.to
                                            /\ msg[key[1].to + 1] = "SP" THEN 2 ELSE 1)
=============================================================================
