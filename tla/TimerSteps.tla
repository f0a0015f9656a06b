----------------------------- MODULE TimerSteps -----------------------------
(***************************************************************************)
(* The calls of module Timer statement by statement: one step is one test  *)
(* or turn of a loop, one assignment or one system call.  The SIGALRM      *)
(* handler, which itself is not interrupted, may come between any two of   *)
(* them if Interrupts, for nothing in the library blocks the signal; if    *)
(* not, a call takes no time, and what it does is one action of Timer.     *)
(***************************************************************************)
EXTENDS Timer

CONSTANT Interrupts

ASSUME InterruptsAssumption == Interrupts \in BOOLEAN

VARIABLES
    call,       \* the call in progress: where it is, and its variables
    before      \* history: the list and the timer when it began

stepVars == <<vars, call, before>>

Idle == [pc |-> "idle", conn |-> CHOOSE c \in Conns : TRUE, i |-> 0,
         time |-> 0, combined |-> 0, arm |-> FALSE]

\* the program executes a system call, or a statement unless a handler is due
AtSystemCall(label) == call.pc = label /\ failed = {}
At(label) == AtSystemCall(label) /\ ~sigalrm

Goto(label) == call' = [call EXCEPT !.pc = label]

Begin(label, c) ==
    /\ Running /\ call = Idle
    /\ call' = [Idle EXCEPT !.pc = label, !.conn = c]
    /\ before' = [conn_timers |-> conn_timers, rem |-> rem]
    /\ UNCHANGED vars

\* a system call may find that the timer has expired on the way into it;
\* POSIX leaves open whether setting a timer takes back a pending signal
Setting == sigalrm' \in (IF sigalrm THEN BOOLEAN ELSE {FALSE})

-----------------------------------------------------------------------------
(* shttp_timer_stop *)

\* timer_find_index
Find ==
    /\ At("find")
    /\ IF ~Valid(conn_timers, call.i) THEN call' = Idle
       ELSE IF conn_timers[call.i].conn = call.conn THEN Goto("found")
       ELSE call' = [call EXCEPT !.i = @ + 1]
    /\ UNCHANGED <<vars, before>>

Found ==
    /\ At("found")
    /\ IF ~Valid(conn_timers, call.i) THEN call' = Idle
       ELSE Goto(IF call.i = 0 THEN "getsettime" ELSE "merge")
    /\ UNCHANGED <<vars, before>>

GetSettime ==
    /\ AtSystemCall("getsettime")
    /\ call' = [call EXCEPT !.pc = "look", !.time = Gettime]
    /\ rem' = 0
    /\ Setting
    /\ UNCHANGED <<conn_timers, created, status, failed, before>>

Look ==
    /\ At("look")
    /\ call' = IF conn_timers[1].time = -1 THEN [call EXCEPT !.pc = "shift"]
               ELSE [call EXCEPT !.pc = "shift", !.arm = TRUE,
                                 !.time = @ + conn_timers[1].time]
    /\ UNCHANGED <<vars, before>>

\* mutant of Merge: the delta goes to the entry before
MergeBack ==
    /\ At("merge")
    /\ conn_timers' = [conn_timers EXCEPT ![call.i - 1].time =
                          @ + conn_timers[call.i].time]
    /\ Goto("shift")
    /\ UNCHANGED <<rem, sigalrm, created, status, failed, before>>

Merge ==
    /\ At("merge")
    /\ conn_timers' = IF Valid(conn_timers, call.i + 1)
                      THEN [conn_timers EXCEPT ![call.i + 1].time =
                               @ + conn_timers[call.i].time]
                      ELSE conn_timers
    /\ Goto("shift")
    /\ UNCHANGED <<rem, sigalrm, created, status, failed, before>>

\* timer_remove_index: one copy, or the new end of the list
Shift ==
    /\ At("shift")
    /\ IF Valid(conn_timers, call.i + 1)
       THEN /\ conn_timers' = [conn_timers EXCEPT ![call.i] = conn_timers[call.i + 1]]
            /\ call' = [call EXCEPT !.i = @ + 1]
       ELSE /\ conn_timers' = [conn_timers EXCEPT ![call.i].time = -1]
            /\ Goto("zero")
    /\ UNCHANGED <<rem, sigalrm, created, status, failed, before>>

Zero ==
    /\ At("zero")
    /\ conn_timers' = HeadZeroed(conn_timers)
    /\ IF call.arm THEN Goto("settime") ELSE call' = Idle
    /\ UNCHANGED <<rem, sigalrm, created, status, failed, before>>

Settime ==
    /\ AtSystemCall("settime")
    /\ rem' = ArmedFor(call.time)
    /\ failed' = failed \cup Refused(call.time)
    /\ Setting
    /\ call' = Idle
    /\ UNCHANGED <<conn_timers, created, status, before>>

-----------------------------------------------------------------------------
(* shttp_timer_start *)

StartLook ==
    /\ At("start")
    /\ Goto(IF conn_timers[0].time # -1 THEN "gettime" ELSE "add")
    /\ UNCHANGED <<vars, before>>

GetTime ==
    /\ AtSystemCall("gettime")
    /\ call' = [call EXCEPT !.pc = "add", !.time = Gettime, !.combined = Gettime]
    /\ UNCHANGED <<vars, before>>

\* timer_add of an empty list, or the begin of its loop
Add ==
    /\ At("add")
    /\ IF conn_timers[0].time = -1
       THEN conn_timers' = [conn_timers EXCEPT ![0].time = 0] /\ Goto("conn")
       ELSE Goto("sum") /\ UNCHANGED conn_timers
    /\ UNCHANGED <<rem, sigalrm, created, status, failed, before>>

Sum ==
    /\ At("sum")
    /\ Valid(conn_timers, call.i)
    /\ call' = [call EXCEPT !.i = @ + 1, !.combined = @ + conn_timers[call.i].time]
    /\ UNCHANGED <<vars, before>>

Limit ==
    /\ At("sum")
    /\ call.i = ConnCount
    /\ status' = "TIMER_LIMIT"
    /\ call' = Idle
    /\ UNCHANGED <<conn_timers, rem, sigalrm, created, failed, before>>

WriteTime ==
    /\ At("sum")
    /\ call.i < ConnCount /\ ~Valid(conn_timers, call.i)
    /\ conn_timers' = [conn_timers EXCEPT ![call.i].time = KeepAlive - call.combined]
    /\ Goto("conn")
    /\ UNCHANGED <<rem, sigalrm, created, status, failed, before>>

WriteConn ==
    /\ At("conn")
    /\ conn_timers' = [conn_timers EXCEPT ![call.i].conn = call.conn]
    /\ IF call.time = 0 THEN Goto("settime_full") /\ UNCHANGED status
       ELSE call' = Idle /\ status' = "OK"
    /\ UNCHANGED <<rem, sigalrm, created, failed, before>>

SettimeFull ==
    /\ AtSystemCall("settime_full")
    /\ rem' = KeepAlive * GranulesPerMs
    /\ Setting
    /\ status' = "OK"
    /\ call' = Idle
    /\ UNCHANGED <<conn_timers, created, failed, before>>

-----------------------------------------------------------------------------

StepsInit ==
    /\ Init
    /\ call = Idle
    /\ before = [conn_timers |-> conn_timers, rem |-> rem]

\* what module Timer has as one action
InitOrDeinit == call = Idle /\ (TimerInit \/ TimerDeinit) /\ UNCHANGED <<call, before>>
Handler == SignalHandler /\ UNCHANGED <<call, before>>
Clock == (call # Idle => Interrupts) /\ Tick /\ UNCHANGED <<call, before>>

Stop == Find \/ Found \/ GetSettime \/ Look \/ Merge \/ Shift \/ Zero \/ Settime

Start ==
    StartLook \/ GetTime \/ Add \/ Sum \/ Limit \/ WriteTime \/ WriteConn \/ SettimeFull

StepsNext ==
    \/ InitOrDeinit
    \/ \E c \in Conns : Begin("find", c) \/ Begin("start", c)
    \/ Stop
    \/ Start
    \/ Handler
    \/ Clock

StepsSpec == StepsInit /\ [][StepsNext]_stepVars

-----------------------------------------------------------------------------
(* Properties *)

\* Statement by statement, the loops, copies and sums of timer.c do what the
\* actions of Timer say they do, in every state of the list: what is checked
\* and proved of Timer is about this code, as long as no handler interrupts a
\* call.
Atomic == INSTANCE Timer WITH
    conn_timers <- IF call = Idle THEN conn_timers ELSE before.conn_timers,
    rem <- IF call = Idle THEN rem ELSE before.rem

CallsAreAtomic == Atomic!Spec

\* The assertion keep_alive.c:19, and timer.c:109 behind it: SIGALRM finds a
\* timer at the head of the list.
HandlerHasTimer == "head" \notin failed
=============================================================================
