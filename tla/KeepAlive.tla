------------------------------ MODULE KeepAlive ------------------------------
(***************************************************************************)
(* libshttp with keep-alive, src/keep_alive.c: the connection table of     *)
(* module Sock, a queue of keep-alive timers over its slots, and the       *)
(* SIGALRM handler that closes the slot at the head of the queue.          *)
(*                                                                         *)
(* The handler runs between any two steps of the server: between two slots *)
(* of a scan and within a call, after its poll, its recv or its send, as   *)
(* well as between two calls.  The timers are the queue that module        *)
(* TimerPaced proves the delta list to implement, with the time left out:  *)
(* a timer that is armed may go off at any moment, on the connection that  *)
(* the program is busy with too.                                           *)
(***************************************************************************)
EXTENDS Sock, SequencesExt

CONSTANTS
    MaxSends,   \* bound: responses to one request
    Handlers    \* what the program may run on SIGALRM

ASSUME KeepAliveAssumption ==
    /\ MaxSends \in Nat
    /\ Handlers \subseteq {"shttp_keep_alive_signal_handler", "shttp_signal_handler"}

VARIABLES
    timers,     \* the list: conn, and as history the peer it was started for
    armed,      \* the POSIX timer runs
    handler,    \* what this program runs on SIGALRM
    sends,      \* bound: responses to the current request so far
    several,    \* history: a request was answered more than once
    late,       \* history: the slot of the request was closed by its own timer
    kept        \* history: slots that were answered and have not asked again

timerVars == <<timers, armed>>
program == <<handler, sends, several>>
kaVars == <<vars, timers, armed, program, late, kept>>

KATypeOK ==
    /\ TypeOK
    /\ timers \in Seq([conn : Slots, owner : Peers]) /\ Len(timers) <= ConnCount
    /\ armed \in BOOLEAN
    /\ handler \in Handlers
    /\ sends \in 0 .. MaxSends
    /\ several \in BOOLEAN /\ late \in BOOLEAN
    /\ kept \subseteq Slots

-----------------------------------------------------------------------------
(* The queue of timers *)

IndexOf(c) == SelectInSeq(timers, LAMBDA t : t.conn = c)

\* mutant of TimerStop: the timer is not armed for what follows the head
TimerStopDisarms(c) ==
    LET k == IndexOf(c)
    IN  /\ timers' = IF k = 0 THEN timers ELSE RemoveAt(timers, k)
        /\ armed' = IF k = 1 THEN FALSE ELSE armed

\* shttp_timer_stop; stopping the head arms the timer for what follows it
TimerStop(c) ==
    LET k == IndexOf(c)
    IN  /\ timers' = IF k = 0 THEN timers ELSE RemoveAt(timers, k)
        /\ armed' = IF k = 1 THEN Len(timers) > 1 ELSE armed

\* shttp_timer_start; a timer that is not running reads 0 and is armed
TimerStart(c, owner) ==
    /\ Len(timers) < ConnCount
    /\ timers' = Append(timers, [conn |-> c, owner |-> owner])
    /\ armed' = TRUE

-----------------------------------------------------------------------------
(* The calls *)

\* if the timer cannot be created the socket is left listening
KeepAliveInit ==
    /\ \/ InitFails /\ UNCHANGED timerVars
       \/ /\ InitListens
          /\ pc' = "down" /\ status' = "TIMER_CREATE"
          /\ UNCHANGED timerVars
       \/ /\ InitListens
          /\ pc' = "app" /\ status' = "OK"
          /\ timers' = <<>> /\ armed' = FALSE
    /\ kept' = {}
    /\ UNCHANGED <<program, late>>

\* the timer is deleted whatever becomes of the sockets
KeepAliveDeinit(force) ==
    /\ SockDeinit(force)
    /\ armed' = FALSE
    /\ UNCHANGED <<timers, program, late, kept>>

\* shttp_keep_alive_next up to the point where a request is there
KeepAliveNext ==
    /\ NextCall \/ NextNblk
    /\ sends' = 0 /\ late' = FALSE
    /\ UNCHANGED <<timers, armed, handler, several, kept>>

KeepAliveScan ==
    /\ RoundBegin \/ ScanHangUp \/ ScanRequest \/ ScanNothing \/ RoundEnd
    /\ UNCHANGED <<timers, armed, program, late, kept>>

\* closes the slot without a word to the timers
KeepAliveHangUp ==
    /\ ScanClose
    /\ kept' = kept \ {slot}
    /\ UNCHANGED <<timers, armed, program, late>>

\* mutant of KeepAliveRequest: no timer is stopped
KeepAliveRequestForgets ==
    /\ MsgRequest
    /\ kept' = IF status' = "OK" THEN kept \ {cur} ELSE kept
    /\ UNCHANGED <<timers, armed, program, late>>

\* the timer is stopped only for a request that could be parsed
KeepAliveRequest ==
    /\ MsgRequest
    /\ IF status' = "OK"
       THEN TimerStop(cur) /\ kept' = kept \ {cur}
       ELSE UNCHANGED <<timers, armed, kept>>
    /\ UNCHANGED <<program, late>>

\* shttp_keep_alive_send: the response leaves, a connection is accepted, and
\* the timer of the slot is started, whoever is in it by then
KeepAliveSend ==
    /\ sends < MaxSends
    /\ Sent
    /\ sends' = sends + 1
    /\ several' = (several \/ sends > 0)
    /\ UNCHANGED <<timers, armed, handler, late, kept>>

KeepAliveAccept ==
    /\ SendAccepts
    /\ pc' = "start"
    /\ UNCHANGED <<status, timers, armed, program, late, kept>>

KeepAliveStart ==
    /\ pc = "start" /\ pc' = "app"
    /\ \/ TimerStart(cur, asker) /\ status' = "OK"
       \/ /\ Len(timers) = ConnCount
          /\ status' = "TIMER_LIMIT"
          /\ UNCHANGED timerVars
    /\ kept' = kept \cup {cur}
    /\ UNCHANGED <<conns, sock, kernel, scan, cur, asker, answered, inits, failed,
                   program, late>>

KeepAliveSendRefused == SendRefused /\ UNCHANGED <<timers, armed, program, late, kept>>

\* mutant of KeepAliveClose: no timer is stopped
KeepAliveCloseForgets ==
    /\ Close
    /\ kept' = kept \ {cur}
    /\ UNCHANGED <<timers, armed, program, late>>

KeepAliveClose ==
    /\ TimerStop(cur)
    /\ Close
    /\ kept' = kept \ {cur}
    /\ UNCHANGED <<program, late>>

-----------------------------------------------------------------------------
(* The handler *)

\* the head of the queue has run out
Expired == armed /\ timers # <<>>

\* the timer of the request's slot runs: shttp_timer_stop has yet to come, or
\* shttp_timer_start was there
TimerRuns == pc = "read" \/ (pc = "app" /\ sends > 0)

\* shttp_keep_alive_signal_handler
SignalHandler ==
    LET id == Head(timers).conn
    IN  /\ handler = "shttp_keep_alive_signal_handler" /\ Expired
        /\ timers' = Tail(timers)
        /\ armed' = (Len(timers) > 1)
        /\ \/ /\ Drop(id)
              /\ \/ conns' = [conns EXCEPT ![id].fd = -1]
                 \/ CloseFails /\ UNCHANGED conns
              /\ UNCHANGED failed
           \/ Aborts(id, "handler")
        /\ late' = (late \/ (id = cur /\ TimerRuns))
        /\ kept' = kept \ {id}
        /\ UNCHANGED <<sock, backlog, pc, scan, cur, asker, answered, inits, status, program>>

\* shttp_signal_handler, which shttp.h does not redirect to the above
NoopHandler ==
    /\ handler = "shttp_signal_handler" /\ Expired
    /\ armed' = FALSE
    /\ UNCHANGED <<vars, timers, program, late, kept>>

-----------------------------------------------------------------------------

KAInit ==
    /\ Init
    /\ timers = <<>> /\ armed = FALSE
    /\ handler \in Handlers
    /\ sends = 0 /\ several = FALSE
    /\ late = FALSE
    /\ kept = {}

KAPeer == (\E p \in Peers : Peer(p)) /\ UNCHANGED <<timers, armed, program, late, kept>>

Server ==
    \/ KeepAliveScan \/ KeepAliveHangUp \/ KeepAliveRequest
    \/ KeepAliveAccept \/ KeepAliveStart

KANext ==
    /\ failed = "nobody"
    /\ \/ KeepAliveInit
       \/ \E force \in BOOLEAN : KeepAliveDeinit(force)
       \/ KeepAliveNext \/ Server
       \/ KeepAliveSend \/ KeepAliveSendRefused \/ KeepAliveClose
       \/ SignalHandler \/ NoopHandler
       \/ KAPeer

KASpec == KAInit /\ [][KANext]_kaVars

\* The program keeps calling shttp_next, the thread runs and signals arrive.
KAFairSpec ==
    /\ KASpec
    /\ WF_kaVars(failed = "nobody" /\ KeepAliveNext /\ pc' = "accept")
    /\ WF_kaVars(failed = "nobody" /\ Server)
    /\ WF_kaVars(failed = "nobody" /\ SignalHandler)

-----------------------------------------------------------------------------
(* Properties *)

\* A timer stands for the connection it was started for: its slot has not been
\* freed or given to somebody else meanwhile, through closes, accepts, earlier
\* expiries and a restart.  (Not through hang-ups: see keep_alive_stale.)
TimersOwnTheirSlots ==
    pc # "down" =>
        \A k \in DOMAIN timers :
            IsOpen(timers[k].conn) /\ PeerOf(timers[k].conn) = timers[k].owner

\* The assertions sock.c:134 and 135: shttp_sock_close finds an open connection
\* whenever the handler or a scan calls it.  When the program does, it finds none
\* only if the connection's own timer went off first: between the recv of the
\* request and shttp_timer_stop, or after the shttp_timer_start of the response.
\* In between, nothing closes the connection behind the program's back.
CloseFindsConnection == failed # "nobody" => failed = "program" /\ late

\* The assertion sock.c:134 for the handler's call; keep_alive_stale has it fail.
HandlerFindsConnection == failed # "handler"

\* The assertion sock.c:134 for the program's call on a connection whose request
\* it has just been given; keep_alive_late has it fail.
ProgramFindsConnection == failed = "program" => sends > 0

\* The first response to a request goes to the peer whose request it is, though
\* the handler closes connections and accepts fill their slots between any two
\* steps.  (An accept that follows it may give the slot away before the second.)
FirstReplyToAsker == sends <= 1 => ReplyToAsker

\* Every connection that was answered and is waited for has a timer, and the
\* timers are running: an idle client cannot hold its slot for ever.  Not so
\* under a handler that arms no timer, or after a list filled up by several
\* responses to one request.
KeptHaveTimers ==
    pc # "down" /\ handler = "shttp_keep_alive_signal_handler" /\ ~several =>
        /\ \A i \in kept : \E k \in DOMAIN timers : timers[k].conn = i
        /\ timers # <<>> => armed

\* A connection that was answered once has at most one timer, so the list,
\* which is as long as the table, has room for a response to each request.
NoTimerLimit == status = "TIMER_LIMIT" => several

\* An answered connection that asks nothing more is closed in the end, unless
\* the server is shut down or ends at an assertion.
IdleClosed ==
    \A i \in Slots : i \in kept ~> (i \notin kept \/ pc = "down" \/ failed # "nobody")
=============================================================================
