----------------------------- MODULE TimerQueue -----------------------------
(***************************************************************************)
(* What the keep-alive timers of libshttp promise, without the delta list  *)
(* and without the one POSIX timer all of them share: a queue of timers,   *)
(* each with the span of time in which it must fire.                       *)
(*                                                                         *)
(* A timer fires no sooner than `from' granules and no later than `to'     *)
(* granules from now.  Starting grants Slack granules of lateness;         *)
(* stopping the timer at the head costs the ones behind it up to Slack     *)
(* granules, that is how much sooner they may then fire.                   *)
(***************************************************************************)
EXTENDS Integers, SequencesExt

CONSTANTS
    Conns,      \* connection ids
    Capacity,   \* how many timers there may be at once, a natural number
    Period,     \* granules a connection is kept alive for, one or more
    Slack       \* granules lost when the running timer is read

VARIABLES open, queue, status

vars == <<open, queue, status>>

Fresh(c) == [conn |-> c, from |-> Period, to |-> Period + Slack]

Earlier(timer, from, to) == [timer EXCEPT !.from = @ - from, !.to = @ - to]

MapQueue(q, from, to) == [i \in DOMAIN q |-> Earlier(q[i], from, to)]

Init == open = FALSE /\ queue = <<>> /\ status = "OK"

Open ==
    /\ ~open
    /\ \/ status' = "OK" /\ open' = TRUE
       \/ status' = "TIMER_CREATE" /\ open' = FALSE
    /\ queue' = <<>>

Close ==
    /\ open
    /\ open' = FALSE
    /\ queue' = <<>>
    /\ UNCHANGED status

Start(c) ==
    /\ open
    /\ Len(queue) < Capacity
    /\ queue' = Append(queue, Fresh(c))
    /\ status' = "OK"
    /\ UNCHANGED open

StartRefused ==
    /\ open
    /\ Len(queue) = Capacity
    /\ status' = "TIMER_LIMIT"
    /\ UNCHANGED <<open, queue>>

\* the oldest timer of the connection goes
Stop(c) ==
    /\ open
    /\ \E i \in DOMAIN queue :
           /\ queue[i].conn = c
           /\ \A j \in 1 .. i - 1 : queue[j].conn # c
           /\ queue' = RemoveAt(IF i = 1 THEN MapQueue(queue, Slack, 0) ELSE queue, i)
    /\ UNCHANGED <<open, status>>

\* timers fire in the order they were started, each in its span
Fire ==
    /\ open
    /\ queue # <<>>
    /\ queue[1].from <= 0
    /\ queue' = Tail(queue)
    /\ UNCHANGED <<open, status>>

\* no timer is left behind when time passes
Tick ==
    /\ open
    /\ queue # <<>>
    /\ \A i \in DOMAIN queue : queue[i].to > 0
    /\ queue' = MapQueue(queue, 1, 1)
    /\ UNCHANGED <<open, status>>

Next ==
    \/ Open
    \/ Close
    \/ \E c \in Conns : Start(c) \/ Stop(c)
    \/ StartRefused
    \/ Fire
    \/ Tick

Spec == Init /\ [][Next]_vars
=============================================================================
