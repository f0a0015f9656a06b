------------------------------- MODULE Timer -------------------------------
(***************************************************************************)
(* The keep-alive timers of libshttp, src/timer/timer.c: the delta list    *)
(* conn_timers, kept in an array with -1 as terminator, and the one        *)
(* one-shot POSIX timer that runs for the head of the list.                *)
(*                                                                         *)
(* A call of the library is one action.  The signal handler runs as soon   *)
(* as the timer has expired, before the program's next call; a handler     *)
(* that interrupts a call half-way is not part of this module.             *)
(*                                                                         *)
(* Time runs in granules, GranulesPerMs of them in a millisecond, because  *)
(* the code reads the running timer in whole milliseconds and the rest is  *)
(* lost: that rounding is what most of the properties are about.           *)
(***************************************************************************)
EXTENDS Integers, FiniteSetsExt

CONSTANTS
    Conns,          \* connection ids
    ConnCount,      \* conn_count: entries of conn_timers
    KeepAlive,      \* SHTTP_KEEP_ALIVE_TIMEOUT in milliseconds
    GranulesPerMs   \* resolution of the clock behind the timer

\* timer.c reads conn_timers[1] without looking at conn_count (lines 110, 135)
ASSUME ConnCountAssumption == ConnCount \in Nat /\ ConnCount >= 2
ASSUME TimeAssumption == KeepAlive \in Nat \ {0} /\ GranulesPerMs \in Nat \ {0}

VARIABLES
    conn_timers,    \* array of [time, conn]; time = -1 ends the list
    rem,            \* granules until the POSIX timer expires, 0 = disarmed
    sigalrm,        \* the timer has expired and the handler has not run yet
    created,        \* the POSIX timer exists
    status,         \* what the last shttp_timer_init or _start returned
    failed          \* the assertions that have failed

vars == <<conn_timers, rem, sigalrm, created, status, failed>>

Slots == 0 .. ConnCount - 1
Assertions == {"settime", "head"}
Statuses == {"OK", "TIMER_CREATE", "TIMER_LIMIT"}

TypeOK ==
    /\ conn_timers \in [Slots -> [time : Int, conn : Conns]]
    /\ rem \in Nat
    /\ sigalrm \in BOOLEAN
    /\ created \in BOOLEAN
    /\ status \in Statuses
    /\ failed \subseteq Assertions

-----------------------------------------------------------------------------
(* The array *)

Valid(ct, i) == i < ConnCount /\ ct[i].time # -1

\* where a scan of the list stops: its length
Used(ct) == Min({i \in Slots : ct[i].time = -1} \cup {ConnCount})

\* mutant of FindIndex: the last timer of the connection
FindLastIndex(ct, c) ==
    LET found == {i \in 0 .. Used(ct) - 1 : ct[i].conn = c}
    IN  IF found = {} THEN Used(ct) ELSE Max(found)

FindIndex(ct, c) == Min({i \in Slots : ct[i].conn = c} \cup {Used(ct)})

\* the entry the shift of RemoveIndex(ct, i) ends on
LastFrom(ct, i) ==
    Min({k \in i .. ConnCount - 1 : k = ConnCount - 1 \/ ct[k + 1].time = -1})

ShiftDown(f, i, last) ==
    [k \in Slots |-> IF k \in i .. last - 1 THEN f[k + 1] ELSE f[k]]

\* mutant of HeadZeroed: the new head keeps its delta
HeadKept(ct) == ct

HeadZeroed(ct) == IF ct[0].time = -1 THEN ct ELSE [ct EXCEPT ![0].time = 0]

RemoveIndex(ct, i) ==
    LET last == LastFrom(ct, i)
    IN  HeadZeroed([ShiftDown(ct, i, last) EXCEPT ![last].time = -1])

\* the sum of the first n deltas
Combined(ct, n) ==
    LET sum[k \in 0 .. ConnCount] ==
            IF k = 0 THEN 0 ELSE sum[k - 1] + ct[k - 1].time
    IN  sum[n]

\* mutants of Added: the time left is added, or subtracted twice
AddedLater(ct, c, time) ==
    LET n == Used(ct)
    IN  [ct EXCEPT ![n] = [time |-> IF n = 0 THEN 0 ELSE KeepAlive + time - Combined(ct, n),
                           conn |-> c]]
AddedSooner(ct, c, time) ==
    LET n == Used(ct)
    IN  [ct EXCEPT ![n] = [time |-> IF n = 0 THEN 0
                                    ELSE KeepAlive - (2 * time + Combined(ct, n)),
                           conn |-> c]]

\* the list after timer_add found room for c, with `time' left on the timer
Added(ct, c, time) ==
    LET n == Used(ct)
    IN  IF n = 0 THEN [ct EXCEPT ![0] = [time |-> 0, conn |-> c]]
        ELSE [ct EXCEPT ![n] = [time |-> KeepAlive - (time + Combined(ct, n)),
                                conn |-> c]]

-----------------------------------------------------------------------------
(* The POSIX timer.  A zero it_value disarms it.  A negative one is        *)
(* refused and the assertion around timer_settime fails; whoever calls     *)
(* settime_time has the timer expired or disarmed, so it then stays off.   *)

Gettime == rem \div GranulesPerMs

\* mutant of ArmedFor: a negative value is not refused
ArmedForAny(time) == time * GranulesPerMs

ArmedFor(time) == IF time < 0 THEN 0 ELSE time * GranulesPerMs

Refused(time) == IF time < 0 THEN {"settime"} ELSE {}

-----------------------------------------------------------------------------
(* The calls *)

\* the program is between two calls; a failed assertion has ended it
Running == created /\ ~sigalrm /\ failed = {}

TimerInit ==
    /\ ~created
    /\ \/ /\ status' = "TIMER_CREATE"
          /\ UNCHANGED <<created, conn_timers>>
       \/ /\ status' = "OK"
          /\ created' = TRUE
          /\ conn_timers' = [i \in Slots |->
                                 [time |-> -1, conn |-> conn_timers[i].conn]]
    /\ UNCHANGED <<rem, sigalrm, failed>>

TimerDeinit ==
    /\ Running
    /\ created' = FALSE
    /\ rem' = 0
    /\ UNCHANGED <<conn_timers, sigalrm, status, failed>>

StartFull ==
    /\ Running
    /\ Used(conn_timers) = ConnCount
    /\ status' = "TIMER_LIMIT"
    /\ UNCHANGED <<conn_timers, rem, sigalrm, created, failed>>

StartRoom(c) ==
    LET time == IF conn_timers[0].time # -1 THEN Gettime ELSE 0
    IN  /\ Running
        /\ Used(conn_timers) < ConnCount
        /\ conn_timers' = Added(conn_timers, c, time)
        /\ rem' = IF time = 0 THEN KeepAlive * GranulesPerMs ELSE rem
        /\ status' = "OK"
        /\ UNCHANGED <<sigalrm, created, failed>>

TimerStart(c) == StartFull \/ StartRoom(c)

StopHead(c) ==
    /\ Running
    /\ FindIndex(conn_timers, c) = 0
    /\ Valid(conn_timers, 0)
    /\ conn_timers' = RemoveIndex(conn_timers, 0)
    /\ LET time == IF conn_timers[1].time # -1
                   THEN Gettime + conn_timers[1].time ELSE 0
       IN  rem' = ArmedFor(time) /\ failed' = failed \cup Refused(time)
    /\ UNCHANGED <<sigalrm, created, status>>

\* mutant of StopLater: the delta of the entry is lost with it
StopLaterUnmerged(c) ==
    LET i == FindIndex(conn_timers, c)
    IN  /\ Running
        /\ i # 0
        /\ Valid(conn_timers, i)
        /\ conn_timers' = RemoveIndex(conn_timers, i)
        /\ UNCHANGED <<rem, sigalrm, created, status, failed>>

StopLater(c) ==
    LET i == FindIndex(conn_timers, c)
        merged == IF Valid(conn_timers, i + 1)
                  THEN [conn_timers EXCEPT ![i + 1].time =
                           conn_timers[i + 1].time + conn_timers[i].time]
                  ELSE conn_timers
    IN  /\ Running
        /\ i # 0
        /\ Valid(conn_timers, i)
        /\ conn_timers' = RemoveIndex(merged, i)
        /\ UNCHANGED <<rem, sigalrm, created, status, failed>>

\* stopping a connection without a timer changes nothing
TimerStop(c) == StopHead(c) \/ StopLater(c)

\* mutant of SignalHandler: the next entry does not get the timer
HandlerRests ==
    /\ sigalrm
    /\ sigalrm' = FALSE
    /\ conn_timers' = RemoveIndex(conn_timers, 0)
    /\ UNCHANGED <<rem, created, status, failed>>

\* shttp_keep_alive_signal_handler up to its shttp_sock_close: both it and
\* shttp_timer_next assert that the list has a head
SignalHandler ==
    LET time == conn_timers[1].time
    IN  /\ sigalrm
        /\ sigalrm' = FALSE
        /\ conn_timers' = RemoveIndex(conn_timers, 0)
        /\ rem' = IF time # -1 THEN ArmedFor(time) ELSE rem
        /\ failed' = failed \cup (IF time # -1 THEN Refused(time) ELSE {})
                            \cup (IF Valid(conn_timers, 0) THEN {} ELSE {"head"})
        /\ UNCHANGED <<created, status>>

\* a granule passes; the handler, once due, is not kept waiting
Tick ==
    /\ rem > 0
    /\ rem' = rem - 1
    /\ sigalrm' = (rem = 1)
    /\ UNCHANGED <<conn_timers, created, status, failed>>

-----------------------------------------------------------------------------

\* conn_timers is a static array that nobody has touched yet
Init ==
    /\ \E c \in Conns :
           conn_timers = [i \in Slots |-> [time |-> 0, conn |-> c]]
    /\ rem = 0
    /\ sigalrm = FALSE
    /\ created = FALSE
    /\ status = "OK"
    /\ failed = {}

Next ==
    \/ TimerInit
    \/ TimerDeinit
    \/ \E c \in Conns : TimerStart(c) \/ TimerStop(c)
    \/ SignalHandler
    \/ Tick

Spec == Init /\ [][Next]_vars

\* A late start comes when other timers run and the POSIX timer has less than a
\* millisecond to go, or was disarmed by a delta of 0: shttp_timer_start reads
\* 0 and takes it for a timer that is off.  Nothing in the code keeps a program
\* from it; this is a program that happens to start all its timers in time.
StartsInTime ==
    (\E c \in Conns : TimerStart(c)) => Used(conn_timers) = 0 \/ Gettime > 0

InTimeSpec == Init /\ [][Next /\ StartsInTime]_vars

-----------------------------------------------------------------------------
(* Properties of every use of the timers, however starts are spaced *)

\* The delta list and the POSIX timer agree on whether there is a head: a
\* timer that runs or has expired belongs to an entry, so the handler always
\* finds the connection to close (the assertions keep_alive.c:19 and
\* timer.c:109), and the head's own delta is 0, as timer_stop and timer_add
\* take for granted when they add deltas up.
TimerHasHead ==
    created =>
        /\ conn_timers[0].time \in {-1, 0}
        /\ rem > 0 \/ sigalrm => Valid(conn_timers, 0)
        /\ sigalrm => rem = 0
        /\ "head" \notin failed

\* The assertion timer.c:83: timer_settime accepts every value it is given.
SettimeSucceeds == "settime" \notin failed
=============================================================================
