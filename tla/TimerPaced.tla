----------------------------- MODULE TimerPaced -----------------------------
(***************************************************************************)
(* The timers of module Timer under a program that spaces its responses,   *)
(* with a history variable that says when each entry ought to expire.      *)
(*                                                                         *)
(* shttp_keep_alive_send is what starts a timer.  A program that answers   *)
(* each request it is given starts timers at least as far apart as the     *)
(* sleep every round of shttp_sock_next begins with (src/sock/sock.c,      *)
(* lines 46 to 57): MinGap granules.  That much the code sees to, and it   *)
(* is not enough: SpacedSpec shows what a start in the last millisecond of *)
(* the running timer does.  PacedSpec is the program that is lucky enough, *)
(* besides, to start none then; nothing in the code makes sure of that.    *)
(***************************************************************************)
EXTENDS Timer, Sequences

CONSTANT MinGap     \* granules between two starts

ASSUME GapAssumption == MinGap \in Nat /\ MinGap >= GranulesPerMs

VARIABLES
    window,     \* history: the span in which each entry ought to expire
    gap         \* granules since the last start, up to MinGap

pacedVars == <<vars, window, gap>>

Period == KeepAlive * GranulesPerMs
Slack == GranulesPerMs - 1      \* what reading whole milliseconds drops

NoWindow == [from |-> 0, to |-> 0]

WindowRemoved(w, i) ==
    LET last == LastFrom(conn_timers, i)
    IN  [ShiftDown(w, i, last) EXCEPT ![last] = NoWindow]

\* the windows of the entries of the list, `from' and `to' granules sooner
Sooner(from, to) ==
    [i \in Slots |-> IF i < Used(conn_timers)
                     THEN [from |-> window[i].from - from, to |-> window[i].to - to]
                     ELSE window[i]]

PacedInit == Init /\ window = [i \in Slots |-> NoWindow] /\ gap = MinGap

PacedTimerInit == TimerInit /\ UNCHANGED <<window, gap>>

PacedTimerDeinit ==
    /\ TimerDeinit
    /\ window' = [i \in Slots |-> NoWindow]
    /\ UNCHANGED gap

SpacedStart(c) ==
    LET n == Used(conn_timers)
    IN  /\ TimerStart(c)
        /\ gap = MinGap
        /\ gap' = 0
        /\ window' = IF n < ConnCount
                     THEN [window EXCEPT ![n] = [from |-> Period, to |-> Period + Slack]]
                     ELSE window

\* the premise of everything below: the start is not a late one
PacedStart(c) ==
    /\ SpacedStart(c)
    /\ Used(conn_timers) > 0 => Gettime > 0

PacedStop(c) ==
    LET i == FindIndex(conn_timers, c)
    IN  /\ TimerStop(c)
        /\ window' = WindowRemoved(IF i = 0 THEN Sooner(Slack, 0) ELSE window, i)
        /\ UNCHANGED gap

PacedHandler ==
    /\ SignalHandler
    /\ window' = WindowRemoved(window, 0)
    /\ UNCHANGED gap

GapGrows == gap' = IF gap < MinGap THEN gap + 1 ELSE gap

PacedTick ==
    /\ Tick
    /\ window' = Sooner(1, 1)
    /\ GapGrows

\* time also passes while no timer runs
Idle ==
    /\ rem = 0 /\ ~sigalrm /\ gap < MinGap
    /\ GapGrows
    /\ UNCHANGED <<vars, window>>

PacedNext ==
    \/ PacedTimerInit
    \/ PacedTimerDeinit
    \/ \E c \in Conns : PacedStart(c) \/ PacedStop(c)
    \/ PacedHandler
    \/ PacedTick
    \/ Idle

PacedSpec == PacedInit /\ [][PacedNext]_pacedVars

SpacedSpec ==
    PacedInit /\ [][PacedNext \/ \E c \in Conns : SpacedStart(c)]_pacedVars

\* The clock runs and a delivered signal is handled; nothing obliges the
\* program to call the library.
FairSpec ==
    PacedSpec /\ WF_pacedVars(PacedTick) /\ WF_pacedVars(PacedHandler)

-----------------------------------------------------------------------------
(* Properties *)

PacedTypeOK ==
    /\ TypeOK
    /\ \A i \in Slots : conn_timers[i].time \in -1 .. KeepAlive
    /\ window \in [Slots -> [from : Int, to : Int]]
    /\ gap \in 0 .. MinGap

\* A list with entries has its POSIX timer running or its signal on the way:
\* no connection that waits for its keep-alive timeout is forgotten.  (One
\* timer serves all entries, and a zero handed to timer_settime stops it.)
NoLostTimer ==
    created /\ Valid(conn_timers, 0) => rem > 0 \/ sigalrm

\* granules from now until entry i will have fired, by the code's own sums
Expiry(i) == rem + GranulesPerMs * Combined(conn_timers, i + 1)

\* Every connection is closed on time: an entry expires less than one
\* millisecond after KeepAlive, and sooner by less than one millisecond for
\* each time the head of the list was stopped while it waited, whatever mix of
\* starts, stops and expiries the deltas went through.
OnTime ==
    created => \A i \in 0 .. Used(conn_timers) - 1 :
        Expiry(i) \in window[i].from .. window[i].to

\* If the program starts no further timers, calls no stop and does not shut
\* down, every timer fires in the end; so, for ever, the list is empty again
\* and again or it loses an entry again and again.
Shrinks == created' /\ Used(conn_timers') < Used(conn_timers)
TimersServed ==
    \/ []<>(~created \/ Used(conn_timers) = 0)
    \/ []<><<Shrinks>>_pacedVars

\* The delta list implements the queue of independent timers.
Queue == INSTANCE TimerQueue WITH
    Capacity <- ConnCount,
    open  <- created,
    queue <- IF created
             THEN [i \in 1 .. Used(conn_timers) |->
                      [conn |-> conn_timers[i - 1].conn,
                       from |-> window[i - 1].from,
                       to   |-> window[i - 1].to]]
             ELSE <<>>

QueueSpec == Queue!Spec
=============================================================================
