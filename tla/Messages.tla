------------------------------ MODULE Messages ------------------------------
(***************************************************************************)
(* Both directions of src/msg/msg.c: a program that reads requests         *)
(* (modules Request and Headers) and writes responses (module Response).   *)
(* The two share no state: the program resets its slice between them, and  *)
(* is done with the slices of a request before it writes a response over   *)
(* them, as in every example of the repository.  So there is nothing to    *)
(* interleave, and a behaviour of this module reads or it writes.          *)
(***************************************************************************)
EXTENDS Headers

CONSTANTS Reasons, MaxHeaders, MaxBody, MaxRoom, MaxCalls

VARIABLES
    direction,                                      \* reading or writing
    size, cells, begin, end, res, room, sent, calls,
    answer                                          \* the status of Response

writing == <<size, cells, begin, end, res, room, sent, calls, answer>>

Resp == INSTANCE Response WITH status <- answer

ASSUME ResponseAssumption == Resp!ResponseConstants

MessagesInit ==
    /\ direction \in {"reading", "writing"}
    /\ HeadersInit
    /\ Resp!Init
    /\ direction = "reading" => size = 0       \* not used then

Reads == direction = "reading" /\ HeadersNext /\ UNCHANGED <<writing, direction>>
Writes == direction = "writing" /\ Resp!Next /\ UNCHANGED <<headersVars, direction>>

MessagesSpec ==
    MessagesInit /\ [][Reads \/ Writes]_<<headersVars, writing, direction>>

-----------------------------------------------------------------------------
(* Properties of the writing half, stated in module Response *)

\* What goes to the socket is the whole response or nothing: see module Response.
WholeOrNothing == Resp!WholeOrNothing

\* A failed call names the first part that failed: see module Response.
VersionBeforeEnd == Resp!VersionBeforeEnd

\* the types of both halves
MessagesTypeOK ==
    /\ direction \in {"reading", "writing"}
    /\ HeadersTypeOK
    /\ Resp!TypeOK
=============================================================================
