-------------------------- MODULE TimerStepsProofs --------------------------
(***************************************************************************)
(* Statement by statement, the calls of timer.c do what the actions of     *)
(* module Timer say, for every number of connections, any keep-alive       *)
(* timeout and any resolution of the clock, as long as no handler          *)
(* interrupts a call.                                                      *)
(***************************************************************************)
EXTENDS TimerSteps, TimerProofs

\* The operators of the instance are those of Timer: they have no variables.
LEMMA SameArrays ==
    /\ Atomic!Slots = Slots
    /\ \A ct, i : Atomic!Valid(ct, i) = Valid(ct, i)
    /\ \A ct : Atomic!Used(ct) = Used(ct)
    /\ \A ct, c : Atomic!FindIndex(ct, c) = FindIndex(ct, c)
    /\ \A ct, i : Atomic!RemoveIndex(ct, i) = RemoveIndex(ct, i)
    /\ \A ct, c, time : Atomic!Added(ct, c, time) = Added(ct, c, time)
<1>1. Atomic!Slots = Slots
  BY DEF Atomic!Slots, Slots
<1>2. \A S : Atomic!Min(S) = Min(S)
  BY DEF Atomic!Min, Min
<1>3. \A ct, i : Atomic!Valid(ct, i) = Valid(ct, i)
  BY DEF Atomic!Valid, Valid
<1>4. \A ct : Atomic!Used(ct) = Used(ct)
  BY <1>1, <1>2 DEF Atomic!Used, Used
<1>5. \A ct, c : Atomic!FindIndex(ct, c) = FindIndex(ct, c)
  BY <1>1, <1>2, <1>4 DEF Atomic!FindIndex, FindIndex
<1>6. \A ct, i : Atomic!RemoveIndex(ct, i) = RemoveIndex(ct, i)
  <2>1. \A ct, i : Atomic!LastFrom(ct, i) = LastFrom(ct, i)
    BY <1>2 DEF Atomic!LastFrom, LastFrom
  <2>2. \A ct, i, last : Atomic!ShiftDown(ct, i, last) = ShiftDown(ct, i, last)
    BY <1>1 DEF Atomic!ShiftDown, ShiftDown
  <2>3. \A ct : Atomic!HeadZeroed(ct) = HeadZeroed(ct)
    BY DEF Atomic!HeadZeroed, HeadZeroed
  <2> QED
    BY <2>1, <2>2, <2>3 DEF Atomic!RemoveIndex, RemoveIndex
<1>7. \A ct, n : Atomic!Combined(ct, n) = Combined(ct, n)
  BY DEF Atomic!Combined, Combined
<1>8. \A ct, c, time : Atomic!Added(ct, c, time) = Added(ct, c, time)
  BY <1>4, <1>7 DEF Atomic!Added, Added
<1> QED
  BY <1>1, <1>3, <1>4, <1>5, <1>6, <1>8
-----------------------------------------------------------------------------
(* The loops of timer_find_index and timer_remove_index *)

\* What timer_stop removes an entry from, when it is not the head.
Merged(ct, i) ==
    IF Valid(ct, i + 1)
    THEN [ct EXCEPT ![i + 1].time = ct[i + 1].time + ct[i].time]
    ELSE ct

\* Adding a delta to the next keeps the shape of the array.
LEMMA MergedTyped ==
    ASSUME NEW ct \in Arrays, NEW i \in Slots
    PROVE  Merged(ct, i) \in Arrays
<1>1. CASE Valid(ct, i + 1)
  <2>1. i + 1 \in Slots
    BY <1>1, ConnCountAssumption DEF Valid, Slots
  <2>2. ct[i].time \in Int /\ ct[i + 1].time \in Int
    BY <2>1 DEF Arrays
  <2> QED
    BY <1>1, <2>1, <2>2 DEF Merged, Arrays
<1>2. CASE ~Valid(ct, i + 1)
  BY <1>2 DEF Merged
<1> QED
  BY <1>1, <1>2

\* The search of timer_find_index stops on the first entry of the connection,
\* or where the list ends.
LEMMA SearchEnds ==
    ASSUME NEW ct \in Arrays, NEW c, NEW i \in 0 .. ConnCount,
           \A j \in 0 .. i - 1 : Valid(ct, j) /\ ct[j].conn # c
    PROVE  /\ Valid(ct, i) /\ ct[i].conn = c => FindIndex(ct, c) = i
           /\ ~Valid(ct, i) => FindIndex(ct, c) = i
<1> USE ConnCountAssumption
<1> DEFINE S == {k \in Slots : ct[k].conn = c} \cup {Used(ct)}
<1>1. /\ Used(ct) \in 0 .. ConnCount
      /\ \A k \in Slots : k < Used(ct) => ct[k].time # -1
      /\ Used(ct) < ConnCount => ct[Used(ct)].time = -1
  BY UsedBounds
<1>2. Min(S) \in S /\ \A y \in S : Min(S) <= y
  <2>1. S \subseteq Nat /\ S # {}
    BY <1>1 DEF Slots
  <2> QED
    BY <2>1, MinIsLeast
<1>3. FindIndex(ct, c) = Min(S)
  BY DEF FindIndex
<1>4. i <= Used(ct)
  <2>1. SUFFICES ASSUME Used(ct) < i PROVE FALSE
    BY <1>1
  <2>2. Valid(ct, Used(ct)) /\ Used(ct) < ConnCount
    BY <1>1, <2>1
  <2> QED
    BY <1>1, <2>2 DEF Valid
<1>5. \A y \in S : i <= y
  BY <1>1, <1>4 DEF Slots
<1>6. i \in S => Min(S) = i
  <2>1. Min(S) \in Int
    BY <1>1, <1>2 DEF Slots
  <2> QED
    BY <1>2, <1>5, <2>1
<1>7. Valid(ct, i) /\ ct[i].conn = c => i \in S
  BY DEF Valid, Slots
<1>8. ~Valid(ct, i) => i \in S
  BY <1>1, <1>4 DEF Valid, Slots
<1> QED
  BY <1>3, <1>6, <1>7, <1>8

\* The copies of timer_remove_index, one by one, and the -1 behind the last.
LEMMA ShiftTurn ==
    ASSUME NEW s \in Arrays, NEW i \in Slots, NEW k \in i .. LastFrom(s, i),
           NEW ct, ct = ShiftDown(s, i, k)
    PROVE  /\ ct \in Arrays
           /\ Valid(ct, k + 1) <=> k < LastFrom(s, i)
           /\ k < LastFrom(s, i) => [ct EXCEPT ![k] = ct[k + 1]] = ShiftDown(s, i, k + 1)
           /\ k = LastFrom(s, i) => HeadZeroed([ct EXCEPT ![k].time = -1]) = RemoveIndex(s, i)
<1> USE ConnCountAssumption
<1>1. /\ LastFrom(s, i) \in i .. ConnCount - 1
      /\ LastFrom(s, i) # ConnCount - 1 => s[LastFrom(s, i) + 1].time = -1
      /\ \A j \in i .. LastFrom(s, i) - 1 : s[j + 1].time # -1
  BY LastFromBounds
<1>2. /\ k \in Slots /\ i \in Nat /\ k \in Nat
      /\ \A j \in i .. k - 1 : j \in Slots /\ j + 1 \in Slots
  BY <1>1 DEF Slots
<1>3. DOMAIN ct = Slots
  BY DEF ShiftDown
<1>4. \A j \in Slots : ct[j] = IF j \in i .. k - 1 THEN s[j + 1] ELSE s[j]
  BY DEF ShiftDown
<1>5. ct \in Arrays
  BY <1>2 DEF ShiftDown, Arrays
<1>6. Valid(ct, k + 1) <=> k < LastFrom(s, i)
  <2>1. k + 1 \in Slots => ct[k + 1] = s[k + 1]
    BY <1>2, <1>4
  <2>2. k < LastFrom(s, i) => k \in i .. LastFrom(s, i) - 1 /\ k + 1 \in Slots
    BY <1>1, <1>2 DEF Slots
  <2>3. CASE k < LastFrom(s, i)
    BY <1>1, <2>1, <2>2, <2>3 DEF Valid, Slots
  <2>4. CASE k = LastFrom(s, i)
    <3>1. k # ConnCount - 1 => k + 1 \in Slots
      BY <1>1, <2>4 DEF Slots
    <3> QED
      BY <1>1, <1>2, <2>1, <2>4, <3>1 DEF Valid, Slots
  <2> QED
    BY <1>1, <1>2, <2>3, <2>4 DEF Slots
<1>7. ASSUME k < LastFrom(s, i)
      PROVE  [ct EXCEPT ![k] = ct[k + 1]] = ShiftDown(s, i, k + 1)
  <2>1. k + 1 \in Slots
    BY <1>1, <1>2, <1>7 DEF Slots
  <2>2. \A j \in Slots : j \in i .. (k + 1) - 1 <=> j \in i .. k - 1 \/ j = k
    BY <1>2 DEF Slots
  <2>3. ct[k + 1] = s[k + 1]
    BY <1>2, <1>4, <2>1
  <2>4. \A j \in Slots : [ct EXCEPT ![k] = ct[k + 1]][j] = ShiftDown(s, i, k + 1)[j]
    BY <1>2, <1>3, <1>4, <2>2, <2>3 DEF ShiftDown
  <2>5. DOMAIN [ct EXCEPT ![k] = ct[k + 1]] = Slots
        /\ DOMAIN ShiftDown(s, i, k + 1) = Slots
    BY <1>3 DEF ShiftDown
  <2>6. /\ [ct EXCEPT ![k] = ct[k + 1]] = [j \in Slots |-> [ct EXCEPT ![k] = ct[k + 1]][j]]
        /\ ShiftDown(s, i, k + 1) = [j \in Slots |-> ShiftDown(s, i, k + 1)[j]]
    BY <2>5 DEF ShiftDown
  <2> QED
    BY <2>4, <2>6
<1>8. k = LastFrom(s, i) => HeadZeroed([ct EXCEPT ![k].time = -1]) = RemoveIndex(s, i)
  BY DEF RemoveIndex
<1> QED
  BY <1>5, <1>6, <1>7, <1>8
-----------------------------------------------------------------------------
(* The inductive invariant: what each statement finds *)

Labels == {"find", "found", "getsettime", "look", "merge", "shift", "zero", "settime",
           "start", "gettime", "add", "sum", "conn", "settime_full"}

Calls == [pc : Labels \cup {"idle"}, conn : Conns, i : 0 .. ConnCount,
          time : Int, combined : Int, arm : BOOLEAN]

\* the list when the call began, the entry a stop is about and the list it is
\* removed from, and what a start reads of the timer
Old == before.conn_timers
Entry == FindIndex(Old, call.conn)
Source == IF Entry = 0 THEN Old ELSE Merged(Old, Entry)
OldTime == before.rem \div GranulesPerMs
TimeRead == IF Old[0].time # -1 THEN OldTime ELSE 0

\* the two halves of an entry that timer_add writes
Timed(ct, n, t) == [ct EXCEPT ![n].time = t]
Linked(ct, n, c) == [ct EXCEPT ![n].conn = c]

StepsTyped ==
    /\ TypeOK
    /\ call \in Calls
    /\ before \in [conn_timers : Arrays, rem : Nat]

BetweenCalls == call.pc = "idle" => call = Idle
InCall == call.pc # "idle" => created /\ ~sigalrm /\ failed = {}

Finding == call.pc = "find" =>
    /\ conn_timers = Old /\ rem = before.rem /\ ~call.arm
    /\ \A j \in 0 .. call.i - 1 : Valid(Old, j) /\ Old[j].conn # call.conn

Standing == call.pc \in {"found", "getsettime", "merge"} =>
    /\ conn_timers = Old /\ rem = before.rem /\ ~call.arm
    /\ call.i = Entry /\ Valid(Old, Entry)
    /\ call.pc = "getsettime" => Entry = 0
    /\ call.pc = "merge" => Entry # 0

Looking == call.pc = "look" =>
    /\ conn_timers = Old /\ rem = 0 /\ ~call.arm
    /\ call.i = 0 /\ Entry = 0 /\ Valid(Old, 0)
    /\ call.time = OldTime

Removing == call.pc \in {"shift", "zero", "settime"} =>
    /\ Valid(Old, Entry)
    /\ Entry # 0 => rem = before.rem /\ ~call.arm
    /\ Entry = 0 => rem = 0 /\ (call.arm <=> Old[1].time # -1)
    /\ Entry = 0 /\ call.arm => call.time = OldTime + Old[1].time

Shifting == call.pc = "shift" =>
    /\ call.i \in Entry .. LastFrom(Source, Entry)
    /\ conn_timers = ShiftDown(Source, Entry, call.i)

Zeroing == call.pc = "zero" => HeadZeroed(conn_timers) = RemoveIndex(Source, Entry)

Removed == call.pc = "settime" => call.arm /\ conn_timers = RemoveIndex(Source, Entry)

Starting == call.pc \in {"start", "gettime", "add"} =>
    /\ conn_timers = Old /\ rem = before.rem /\ call.i = 0
    /\ call.pc = "start" => call.time = 0 /\ call.combined = 0
    /\ call.pc = "gettime" => Old[0].time # -1
    /\ call.pc = "add" => call.time = TimeRead /\ call.combined = TimeRead

Summing == call.pc = "sum" =>
    /\ conn_timers = Old /\ rem = before.rem
    /\ call.time = TimeRead /\ Old[0].time # -1
    /\ call.i <= Used(Old) /\ call.combined = TimeRead + Combined(Old, call.i)

Linking == call.pc = "conn" =>
    /\ rem = before.rem /\ call.time = TimeRead
    /\ call.i = Used(Old) /\ Used(Old) < ConnCount
    /\ Linked(conn_timers, Used(Old), call.conn) = Added(Old, call.conn, TimeRead)

Arming == call.pc = "settime_full" =>
    /\ rem = before.rem /\ call.time = TimeRead /\ TimeRead = 0
    /\ Used(Old) < ConnCount
    /\ conn_timers = Added(Old, call.conn, TimeRead)

StepsInv ==
    /\ StepsTyped /\ BetweenCalls /\ InCall
    /\ Finding /\ Standing /\ Looking /\ Removing /\ Shifting /\ Zeroing /\ Removed
    /\ Starting /\ Summing /\ Linking /\ Arming

\* A statement that neither begins nor ends a call
Silent ==
    /\ call # Idle /\ call' # Idle
    /\ UNCHANGED <<sigalrm, created, status, failed, before>>

\* The variables of a call after a statement that only goes on.
LEMMA FieldsMoved ==
    ASSUME NEW r \in Calls, NEW p \in Labels
    PROVE  [r EXCEPT !.pc = p] =
               [pc |-> p, conn |-> r.conn, i |-> r.i, time |-> r.time,
                combined |-> r.combined, arm |-> r.arm]
<1> DEFINE q == [r EXCEPT !.pc = p]
<1>1. q \in Calls
  BY DEF Calls
<1>2. /\ q.pc = p /\ q.conn = r.conn /\ q.i = r.i
      /\ q.time = r.time /\ q.combined = r.combined /\ q.arm = r.arm
  BY DEF Calls
<1> HIDE DEF q
<1>3. q = [pc |-> p, conn |-> r.conn, i |-> r.i, time |-> r.time,
           combined |-> r.combined, arm |-> r.arm]
  BY <1>1, <1>2 DEF Calls
<1> QED
  BY <1>3 DEF q

\* The same, after a statement that sets the time.
LEMMA FieldsTimed ==
    ASSUME NEW r \in Calls, NEW p \in Labels, NEW t \in Int
    PROVE  [r EXCEPT !.pc = p, !.time = t] =
               [pc |-> p, conn |-> r.conn, i |-> r.i, time |-> t,
                combined |-> r.combined, arm |-> r.arm]
<1> DEFINE q == [r EXCEPT !.pc = p, !.time = t]
<1>1. q \in Calls
  BY DEF Calls
<1>2. /\ q.pc = p /\ q.conn = r.conn /\ q.i = r.i
      /\ q.time = t /\ q.combined = r.combined /\ q.arm = r.arm
  BY DEF Calls
<1> HIDE DEF q
<1>3. q = [pc |-> p, conn |-> r.conn, i |-> r.i, time |-> t,
           combined |-> r.combined, arm |-> r.arm]
  BY <1>1, <1>2 DEF Calls
<1> QED
  BY <1>3 DEF q

\* The same, after a statement that decides to arm the timer.
LEMMA FieldsArmed ==
    ASSUME NEW r \in Calls, NEW p \in Labels, NEW t \in Int
    PROVE  [r EXCEPT !.pc = p, !.arm = TRUE, !.time = t] =
               [pc |-> p, conn |-> r.conn, i |-> r.i, time |-> t,
                combined |-> r.combined, arm |-> TRUE]
<1> DEFINE q == [r EXCEPT !.pc = p, !.arm = TRUE, !.time = t]
<1>1. q \in Calls
  BY DEF Calls
<1>2. /\ q.pc = p /\ q.conn = r.conn /\ q.i = r.i
      /\ q.time = t /\ q.combined = r.combined /\ q.arm = TRUE
  BY DEF Calls
<1> HIDE DEF q
<1>3. q = [pc |-> p, conn |-> r.conn, i |-> r.i, time |-> t,
           combined |-> r.combined, arm |-> TRUE]
  BY <1>1, <1>2 DEF Calls
<1> QED
  BY <1>3 DEF q

\* The same, after a statement that begins a sum.
LEMMA FieldsSummed ==
    ASSUME NEW r \in Calls, NEW p \in Labels, NEW t \in Int
    PROVE  [r EXCEPT !.pc = p, !.time = t, !.combined = t] =
               [pc |-> p, conn |-> r.conn, i |-> r.i, time |-> t,
                combined |-> t, arm |-> r.arm]
<1> DEFINE q == [r EXCEPT !.pc = p, !.time = t, !.combined = t]
<1>1. q \in Calls
  BY DEF Calls
<1>2. /\ q.pc = p /\ q.conn = r.conn /\ q.i = r.i
      /\ q.time = t /\ q.combined = t /\ q.arm = r.arm
  BY DEF Calls
<1> HIDE DEF q
<1>3. q = [pc |-> p, conn |-> r.conn, i |-> r.i, time |-> t,
           combined |-> t, arm |-> r.arm]
  BY <1>1, <1>2 DEF Calls
<1> QED
  BY <1>3 DEF q

\* The same, after a statement that ends a turn of a loop.
LEMMA FieldsTurned ==
    ASSUME NEW r \in Calls, NEW k \in 0 .. ConnCount
    PROVE  [r EXCEPT !.i = k] =
               [pc |-> r.pc, conn |-> r.conn, i |-> k, time |-> r.time,
                combined |-> r.combined, arm |-> r.arm]
<1> DEFINE q == [r EXCEPT !.i = k]
<1>1. q \in Calls
  BY DEF Calls
<1>2. /\ q.pc = r.pc /\ q.conn = r.conn /\ q.i = k
      /\ q.time = r.time /\ q.combined = r.combined /\ q.arm = r.arm
  BY DEF Calls
<1> HIDE DEF q
<1>3. q = [pc |-> r.pc, conn |-> r.conn, i |-> k, time |-> r.time,
           combined |-> r.combined, arm |-> r.arm]
  BY <1>1, <1>2 DEF Calls
<1> QED
  BY <1>3 DEF q

\* The same, after a statement that ends a turn of the loop of timer_add.
LEMMA FieldsAdded ==
    ASSUME NEW r \in Calls, NEW k \in 0 .. ConnCount, NEW s \in Int
    PROVE  [r EXCEPT !.i = k, !.combined = s] =
               [pc |-> r.pc, conn |-> r.conn, i |-> k, time |-> r.time,
                combined |-> s, arm |-> r.arm]
<1> DEFINE q == [r EXCEPT !.i = k, !.combined = s]
<1>1. q \in Calls
  BY DEF Calls
<1>2. /\ q.pc = r.pc /\ q.conn = r.conn /\ q.i = k
      /\ q.time = r.time /\ q.combined = s /\ q.arm = r.arm
  BY DEF Calls
<1> HIDE DEF q
<1>3. q = [pc |-> r.pc, conn |-> r.conn, i |-> k, time |-> r.time,
           combined |-> s, arm |-> r.arm]
  BY <1>1, <1>2 DEF Calls
<1> QED
  BY <1>3 DEF q

\* Between calls there is nothing left of the last one.
LEMMA IdleTyped ==
    ASSUME NEW c \in Conns
    PROVE  /\ Idle \in Calls /\ Idle.pc = "idle" /\ ~Idle.arm
           /\ Idle.i = 0 /\ Idle.time = 0 /\ Idle.combined = 0
<1>1. (CHOOSE x \in Conns : TRUE) \in Conns
  OBVIOUS
<1>2. 0 \in 0 .. ConnCount
  BY ConnCountAssumption
<1> QED
  BY <1>1, <1>2 DEF Idle, Calls
\* A call that is over leaves nothing to say but the types.
LEMMA Over ==
    ASSUME StepsTyped', call' = Idle
    PROVE  StepsInv'
<1>1. call'.pc = "idle"
  BY IdleTyped DEF Idle
<1> QED
  BY <1>1 DEF StepsInv, BetweenCalls, InCall, Finding, Standing, Looking, Removing, Shifting,
     Zeroing, Removed, Starting, Summing, Linking, Arming

\* What every statement of a call finds.
LEMMA InTheCall ==
    ASSUME StepsInv, call.pc # "idle"
    PROVE  /\ call # Idle /\ created /\ ~sigalrm /\ failed = {}
           /\ call \in Calls /\ call.conn \in Conns /\ call.i \in 0 .. ConnCount
           /\ call.time \in Int /\ call.combined \in Int /\ call.arm \in BOOLEAN
           /\ conn_timers \in Arrays /\ Old \in Arrays /\ Source \in Arrays
           /\ rem \in Nat /\ before.rem \in Nat /\ OldTime \in Nat /\ TimeRead \in Nat
           /\ Entry \in 0 .. Used(Old) /\ Used(Old) \in 0 .. ConnCount
           /\ Valid(Old, Entry) => Entry \in Slots /\ Entry < Used(Old)
<1>1. /\ call # Idle /\ created /\ ~sigalrm /\ failed = {}
  BY DEF StepsInv, InCall, Idle
<1>2. /\ call \in Calls /\ call.conn \in Conns /\ call.i \in 0 .. ConnCount
      /\ call.time \in Int /\ call.combined \in Int /\ call.arm \in BOOLEAN
  BY DEF StepsInv, StepsTyped, Calls
<1>3. /\ conn_timers \in Arrays /\ Old \in Arrays
      /\ rem \in Nat /\ before.rem \in Nat
  BY DEF StepsInv, StepsTyped, TypeOK, Arrays, Old
<1>4. OldTime \in Nat /\ TimeRead \in Nat
  <2>1. OldTime \in Nat
    BY <1>3, TimeAssumption DEF OldTime
  <2> QED
    BY <2>1 DEF TimeRead
<1>5. Entry \in 0 .. Used(Old) /\ Used(Old) \in 0 .. ConnCount
      /\ (Used(Old) < ConnCount => Old[Used(Old)].time = -1)
  BY <1>3, UsedBounds, FindIndexBounds DEF Entry
<1>6. Valid(Old, Entry) => Entry \in Slots /\ Entry < Used(Old)
  BY <1>5, ConnCountAssumption DEF Valid, Slots
<1>7. Source \in Arrays
  <2>1. CASE Entry \in Slots
    BY <1>3, <2>1, MergedTyped DEF Source
  <2>2. CASE Entry \notin Slots
    <3>1. Entry = ConnCount
      BY <1>5, <2>2, ConnCountAssumption DEF Slots
    <3>2. Merged(Old, Entry) = Old
      BY <3>1, ConnCountAssumption DEF Merged, Valid
    <3> QED
      BY <1>3, <3>2 DEF Source
  <2> QED
    BY <2>1, <2>2
<1> QED
  BY <1>1, <1>2, <1>3, <1>4, <1>5, <1>6, <1>7

-----------------------------------------------------------------------------
(* shttp_timer_stop: each statement *)

\* A turn of the search passes an entry of another connection, or ends the
\* search, or the call.
LEMMA FindStep ==
    ASSUME StepsInv, Find
    PROVE  /\ StepsInv'
           /\ \/ Silent
              \/ call # Idle /\ call' = Idle /\ UNCHANGED <<vars, before>>
                 /\ conn_timers = Old /\ rem = before.rem
<1>1. call.pc = "find" /\ call.pc # "idle" /\ UNCHANGED <<vars, before>>
  BY DEF Find, At, AtSystemCall
<1>2. /\ conn_timers = Old /\ rem = before.rem /\ ~call.arm
      /\ \A j \in 0 .. call.i - 1 : Valid(Old, j) /\ Old[j].conn # call.conn
  BY <1>1 DEF StepsInv, Finding
<1>3. /\ call # Idle /\ created /\ ~sigalrm /\ failed = {}
      /\ call \in Calls /\ call.conn \in Conns /\ call.i \in 0 .. ConnCount
      /\ call.time \in Int /\ Old \in Arrays /\ conn_timers \in Arrays
  BY <1>1, InTheCall
<1>4. TypeOK' /\ before' \in [conn_timers : Arrays, rem : Nat]
  BY <1>1 DEF StepsInv, StepsTyped, TypeOK, vars
<1>5. CASE ~Valid(conn_timers, call.i)
  <2>1. call' = Idle
    BY <1>5 DEF Find
  <2>2. StepsTyped'
    BY <1>3, <1>4, <2>1, IdleTyped DEF StepsTyped
  <2> QED
    BY <1>1, <1>2, <1>3, <2>1, <2>2, Over
<1>6. CASE Valid(conn_timers, call.i) /\ conn_timers[call.i].conn = call.conn
  <2>1. call' = [pc |-> "found", conn |-> call.conn, i |-> call.i, time |-> call.time,
                 combined |-> call.combined, arm |-> call.arm]
    BY <1>3, <1>6, FieldsMoved DEF Find, Goto, Labels
  <2>2. call' \in Calls
    BY <1>3, <2>1 DEF Calls, Labels
  <2>3. FindIndex(Old, call.conn) = call.i
    BY <1>2, <1>3, <1>6, SearchEnds
  <2>4. Old' = Old /\ before' = before
    BY <1>1 DEF Old
  <2>5. Standing'
    BY <1>1, <1>2, <1>6, <2>1, <2>3, <2>4 DEF Standing, Entry, vars
  <2>6. StepsInv'
    BY <1>1, <1>3, <1>4, <2>1, <2>2, <2>5
       DEF StepsInv, StepsTyped, BetweenCalls, InCall, Finding, Looking, Removing, Shifting,
           Zeroing, Removed, Starting, Summing, Linking, Arming, vars
  <2>7. call' # Idle
    BY <2>1 DEF Idle
  <2> QED
    BY <1>1, <1>3, <2>6, <2>7 DEF Silent, vars
<1>7. CASE Valid(conn_timers, call.i) /\ conn_timers[call.i].conn # call.conn
  <2>1. call.i + 1 \in 0 .. ConnCount
    BY <1>3, <1>7, ConnCountAssumption DEF Valid
  <2>2. call' = [pc |-> "find", conn |-> call.conn, i |-> call.i + 1, time |-> call.time,
                 combined |-> call.combined, arm |-> call.arm]
    <3>1. call' = [call EXCEPT !.i = call.i + 1]
      BY <1>7 DEF Find
    <3> QED
      BY <1>1, <1>3, <2>1, <3>1, FieldsTurned
  <2>3. call' \in Calls
    BY <1>3, <2>1, <2>2 DEF Calls, Labels
  <2>4. Old' = Old /\ before' = before
    BY <1>1 DEF Old
  <2>5. Finding'
    <3>1. \A j \in 0 .. (call.i + 1) - 1 : Valid(Old, j) /\ Old[j].conn # call.conn
      BY <1>2, <1>3, <1>7
    <3> QED
      BY <1>1, <1>2, <2>2, <2>4, <3>1 DEF Finding, vars
  <2>6. StepsInv'
    BY <1>1, <1>3, <1>4, <2>2, <2>3, <2>5
       DEF StepsInv, StepsTyped, BetweenCalls, InCall, Standing, Looking, Removing, Shifting,
           Zeroing, Removed, Starting, Summing, Linking, Arming, vars
  <2>7. call' # Idle
    BY <2>2 DEF Idle
  <2> QED
    BY <1>1, <1>3, <2>6, <2>7 DEF Silent, vars
<1> QED
  BY <1>5, <1>6, <1>7

\* The entry that was found is taken out, in one way at the head and in another
\* behind it.
LEMMA FoundStep ==
    ASSUME StepsInv, Found
    PROVE  StepsInv' /\ Silent
<1>1. call.pc = "found" /\ call.pc # "idle" /\ UNCHANGED <<vars, before>>
  BY DEF Found, At, AtSystemCall
<1>2. /\ conn_timers = Old /\ rem = before.rem /\ ~call.arm
      /\ call.i = Entry /\ Valid(Old, Entry)
  BY <1>1 DEF StepsInv, Standing
<1>3. /\ call # Idle /\ created /\ ~sigalrm /\ failed = {}
      /\ call \in Calls /\ call.conn \in Conns /\ call.i \in 0 .. ConnCount
      /\ call.time \in Int
  BY <1>1, InTheCall
<1>4. TypeOK' /\ before' \in [conn_timers : Arrays, rem : Nat]
  BY <1>1 DEF StepsInv, StepsTyped, TypeOK, vars
<1> DEFINE p == IF call.i = 0 THEN "getsettime" ELSE "merge"
<1>5. p \in Labels /\ p \in {"getsettime", "merge"} /\ (p = "getsettime" <=> call.i = 0)
  BY DEF Labels
<1>6. call' = [call EXCEPT !.pc = p]
  BY <1>2 DEF Found, Goto
<1> HIDE DEF p
<1>7. call' = [pc |-> p, conn |-> call.conn, i |-> call.i, time |-> call.time,
               combined |-> call.combined, arm |-> call.arm]
  BY <1>3, <1>5, <1>6, FieldsMoved
<1>8. call' \in Calls
  BY <1>3, <1>5, <1>7 DEF Calls
<1>9. Old' = Old /\ before' = before
  BY <1>1 DEF Old
<1>10. Standing'
  BY <1>1, <1>2, <1>5, <1>7, <1>9 DEF Standing, Entry, vars
<1>11. StepsInv'
  BY <1>1, <1>3, <1>4, <1>5, <1>7, <1>8, <1>10
     DEF StepsInv, StepsTyped, BetweenCalls, InCall, Finding, Looking, Removing, Shifting,
         Zeroing, Removed, Starting, Summing, Linking, Arming, vars
<1>12. call' # Idle
  BY <1>5, <1>7 DEF Idle
<1> QED
  BY <1>1, <1>3, <1>11, <1>12 DEF Silent, vars
\* timer_gettime and timer_settime(0): the time is read, and the timer is off.
LEMMA GetSettimeStep ==
    ASSUME StepsInv, GetSettime
    PROVE  StepsInv' /\ Silent
<1>1. call.pc = "getsettime" /\ call.pc # "idle" /\ rem' = 0
      /\ UNCHANGED <<conn_timers, created, status, failed, before>>
  BY DEF GetSettime, AtSystemCall
<1>2. /\ conn_timers = Old /\ rem = before.rem /\ ~call.arm
      /\ call.i = Entry /\ Valid(Old, Entry) /\ Entry = 0
  BY <1>1 DEF StepsInv, Standing
<1>3. /\ call # Idle /\ created /\ ~sigalrm /\ failed = {}
      /\ call \in Calls /\ call.conn \in Conns /\ call.i \in 0 .. ConnCount
      /\ call.combined \in Int /\ OldTime \in Nat
  BY <1>1, InTheCall
<1>4. sigalrm' = FALSE /\ sigalrm = FALSE
  BY <1>3 DEF GetSettime, Setting, StepsInv, StepsTyped, TypeOK
<1>5. TypeOK' /\ before' \in [conn_timers : Arrays, rem : Nat]
  BY <1>1, <1>4 DEF StepsInv, StepsTyped, TypeOK
<1>6. call' = [pc |-> "look", conn |-> call.conn, i |-> call.i, time |-> OldTime,
               combined |-> call.combined, arm |-> call.arm]
  <2>1. call' = [call EXCEPT !.pc = "look", !.time = OldTime]
    BY <1>2 DEF GetSettime, Gettime, OldTime
  <2>2. "look" \in Labels /\ OldTime \in Int
    BY <1>3 DEF Labels
  <2> QED
    BY <1>3, <2>1, <2>2, FieldsTimed, Zenon
<1>7. call' \in Calls
  BY <1>3, <1>6 DEF Calls, Labels
<1>8. Old' = Old /\ before' = before /\ OldTime' = OldTime
  BY <1>1 DEF Old, OldTime
<1>9. Looking'
  BY <1>1, <1>2, <1>6, <1>8 DEF Looking, Entry
<1>10. StepsInv'
  BY <1>1, <1>3, <1>4, <1>5, <1>6, <1>7, <1>9
     DEF StepsInv, StepsTyped, BetweenCalls, InCall, Finding, Standing, Removing, Shifting,
         Zeroing, Removed, Starting, Summing, Linking, Arming
<1>11. call' # Idle
  BY <1>6 DEF Idle
<1> QED
  BY <1>1, <1>3, <1>4, <1>10, <1>11 DEF Silent

\* The new time is what the next entry has to go, if there is one.
LEMMA LookStep ==
    ASSUME StepsInv, Look
    PROVE  StepsInv' /\ Silent
<1>1. call.pc = "look" /\ call.pc # "idle" /\ UNCHANGED <<vars, before>>
  BY DEF Look, At, AtSystemCall
<1>2. /\ conn_timers = Old /\ rem = 0 /\ ~call.arm
      /\ call.i = 0 /\ Entry = 0 /\ Valid(Old, 0) /\ call.time = OldTime
  BY <1>1 DEF StepsInv, Looking
<1>3. /\ call # Idle /\ created /\ ~sigalrm /\ failed = {}
      /\ call \in Calls /\ call.conn \in Conns /\ call.i \in 0 .. ConnCount
      /\ call.combined \in Int /\ call.time \in Int /\ OldTime \in Nat
      /\ call.arm \in BOOLEAN /\ Old \in Arrays
  BY <1>1, InTheCall
<1>4. TypeOK' /\ before' \in [conn_timers : Arrays, rem : Nat]
  BY <1>1 DEF StepsInv, StepsTyped, TypeOK, vars
<1>5. Old[1].time \in Int
  BY <1>3, ConnCountAssumption DEF Arrays, Slots
<1> DEFINE some == Old[1].time # -1
           t == IF some THEN OldTime + Old[1].time ELSE OldTime
<1>6. call' = [pc |-> "shift", conn |-> call.conn, i |-> call.i, time |-> t,
               combined |-> call.combined, arm |-> some]
  <2>1. CASE some
    <3>1. call' = [call EXCEPT !.pc = "shift", !.arm = TRUE, !.time = OldTime + Old[1].time]
      BY <1>2, <2>1 DEF Look
    <3>2. "shift" \in Labels /\ OldTime + Old[1].time \in Int
      BY <1>3, <1>5 DEF Labels
    <3>3. call' = [pc |-> "shift", conn |-> call.conn, i |-> call.i,
                   time |-> OldTime + Old[1].time,
                   combined |-> call.combined, arm |-> TRUE]
      BY <1>3, <3>1, <3>2, FieldsArmed, Zenon
    <3> QED
      BY <2>1, <3>3
  <2>2. CASE ~some
    <3>1. call' = [call EXCEPT !.pc = "shift"]
      BY <1>2, <2>2 DEF Look
    <3>2. call.arm = FALSE
      BY <1>2, <1>3
    <3>3. call' = [pc |-> "shift", conn |-> call.conn, i |-> call.i, time |-> call.time,
                   combined |-> call.combined, arm |-> call.arm]
      BY <1>3, <3>1, FieldsMoved DEF Labels
    <3> QED
      BY <1>2, <2>2, <3>2, <3>3
  <2> QED
    BY <2>1, <2>2
<1>7. t \in Int /\ some \in BOOLEAN /\ (some => t = OldTime + Old[1].time)
      /\ (some <=> Old[1].time # -1)
  BY <1>3, <1>5
<1> HIDE DEF t, some
<1>8. call' \in Calls
  BY <1>3, <1>6, <1>7 DEF Calls, Labels
<1>9. Old' = Old /\ before' = before /\ OldTime' = OldTime /\ Entry' = Entry
      /\ Source = Old /\ Source' = Old
  BY <1>1, <1>2, <1>6 DEF Old, OldTime, Entry, Source
<1>10. Removing'
  BY <1>1, <1>2, <1>6, <1>7, <1>9 DEF Removing, vars
<1>11. Shifting'
  <2>1. LastFrom(Old, 0) \in 0 .. ConnCount - 1
    BY <1>3, LastFromBounds, ConnCountAssumption DEF Slots
  <2>2. Old = ShiftDown(Old, 0, 0)
    <3>1. \A k \in Slots : k \notin 0 .. 0 - 1
      OBVIOUS
    <3> QED
      BY <1>3, <3>1 DEF ShiftDown, Arrays
  <2> QED
    BY <1>1, <1>2, <1>6, <1>9, <2>1, <2>2 DEF Shifting, vars
<1>12. StepsInv'
  BY <1>1, <1>3, <1>4, <1>6, <1>8, <1>10, <1>11
     DEF StepsInv, StepsTyped, BetweenCalls, InCall, Finding, Standing, Looking,
         Zeroing, Removed, Starting, Summing, Linking, Arming, vars
<1>13. call' # Idle
  BY <1>6 DEF Idle
<1> QED
  BY <1>1, <1>3, <1>12, <1>13 DEF Silent, vars

\* The delta of the entry goes to the next one, if there is one.
LEMMA MergeStep ==
    ASSUME StepsInv, Merge
    PROVE  StepsInv' /\ Silent
<1>1. call.pc = "merge" /\ call.pc # "idle"
      /\ UNCHANGED <<rem, sigalrm, created, status, failed, before>>
  BY DEF Merge, At, AtSystemCall
<1>2. /\ conn_timers = Old /\ rem = before.rem /\ ~call.arm
      /\ call.i = Entry /\ Valid(Old, Entry) /\ Entry # 0
  BY <1>1 DEF StepsInv, Standing
<1>3. /\ call # Idle /\ created /\ ~sigalrm /\ failed = {}
      /\ call \in Calls /\ call.conn \in Conns /\ call.i \in 0 .. ConnCount
      /\ call.time \in Int /\ Old \in Arrays /\ Source \in Arrays
      /\ Entry \in Slots
  BY <1>1, <1>2, InTheCall
<1>4. call' = [pc |-> "shift", conn |-> call.conn, i |-> call.i, time |-> call.time,
               combined |-> call.combined, arm |-> call.arm]
  BY <1>3, FieldsMoved DEF Merge, Goto, Labels
<1>5. call' \in Calls
  BY <1>3, <1>4 DEF Calls, Labels
<1>6. conn_timers' = Merged(Old, Entry) /\ conn_timers' = Source
  <2>1. conn_timers' = Merged(Old, Entry)
    BY <1>2, <1>3 DEF Merge, Merged
  <2> QED
    BY <1>2, <2>1 DEF Source
<1>7. TypeOK' /\ before' \in [conn_timers : Arrays, rem : Nat]
  BY <1>1, <1>3, <1>6 DEF StepsInv, StepsTyped, TypeOK, Arrays
<1>8. Old' = Old /\ before' = before /\ Entry' = Entry /\ Source' = Source
  BY <1>1, <1>4 DEF Old, Entry, Source
<1>9. Removing'
  BY <1>1, <1>2, <1>4, <1>8 DEF Removing
<1>10. Shifting'
  <2>1. LastFrom(Source, Entry) \in Entry .. ConnCount - 1 /\ Entry \in Nat
    BY <1>3, LastFromBounds DEF Slots
  <2>2. Source = ShiftDown(Source, Entry, Entry)
    <3>1. \A k \in Slots : k \notin Entry .. Entry - 1
      BY <2>1
    <3> QED
      BY <1>3, <3>1 DEF ShiftDown, Arrays
  <2>3. Entry \in Entry .. LastFrom(Source, Entry)
    BY <2>1, ConnCountAssumption
  <2> QED
    BY <1>2, <1>4, <1>6, <1>8, <2>2, <2>3 DEF Shifting
<1>11. StepsInv'
  BY <1>1, <1>3, <1>4, <1>5, <1>7, <1>9, <1>10
     DEF StepsInv, StepsTyped, BetweenCalls, InCall, Finding, Standing, Looking,
         Zeroing, Removed, Starting, Summing, Linking, Arming
<1>12. call' # Idle
  BY <1>4 DEF Idle
<1> QED
  BY <1>1, <1>3, <1>11, <1>12 DEF Silent
\* A copy, or the new end of the list.
LEMMA ShiftStep ==
    ASSUME StepsInv, Shift
    PROVE  StepsInv' /\ Silent
<1>1. call.pc = "shift" /\ call.pc # "idle"
      /\ UNCHANGED <<rem, sigalrm, created, status, failed, before>>
  BY DEF Shift, At, AtSystemCall
<1>2. /\ call.i \in Entry .. LastFrom(Source, Entry)
      /\ conn_timers = ShiftDown(Source, Entry, call.i)
      /\ Valid(Old, Entry)
  BY <1>1 DEF StepsInv, Shifting, Removing
<1>3. /\ call # Idle /\ created /\ ~sigalrm /\ failed = {}
      /\ call \in Calls /\ call.conn \in Conns /\ call.i \in 0 .. ConnCount
      /\ call.time \in Int /\ Old \in Arrays /\ Source \in Arrays
      /\ Entry \in Slots /\ conn_timers \in Arrays
  BY <1>1, <1>2, InTheCall
<1>4. /\ Valid(conn_timers, call.i + 1) <=> call.i < LastFrom(Source, Entry)
      /\ call.i < LastFrom(Source, Entry) =>
             [conn_timers EXCEPT ![call.i] = conn_timers[call.i + 1]]
                 = ShiftDown(Source, Entry, call.i + 1)
      /\ call.i = LastFrom(Source, Entry) =>
             HeadZeroed([conn_timers EXCEPT ![call.i].time = -1]) = RemoveIndex(Source, Entry)
  BY <1>2, <1>3, ShiftTurn
<1>5. /\ LastFrom(Source, Entry) \in Entry .. ConnCount - 1
      /\ Entry \in Nat
  BY <1>3, LastFromBounds DEF Slots
<1>6. before' \in [conn_timers : Arrays, rem : Nat] /\ before' = before /\ Old' = Old
  BY <1>1 DEF StepsInv, StepsTyped, Old
<1>7. CASE Valid(conn_timers, call.i + 1)
  <2>1. conn_timers' = ShiftDown(Source, Entry, call.i + 1)
    BY <1>2, <1>4, <1>5, <1>7 DEF Shift
  <2>2. call.i + 1 \in 0 .. ConnCount /\ call.i + 1 \in Entry .. LastFrom(Source, Entry)
    BY <1>2, <1>3, <1>4, <1>5, <1>7, ConnCountAssumption
  <2>3. call' = [pc |-> "shift", conn |-> call.conn, i |-> call.i + 1, time |-> call.time,
                 combined |-> call.combined, arm |-> call.arm]
    <3>1. call' = [call EXCEPT !.i = call.i + 1]
      BY <1>7 DEF Shift
    <3> QED
      BY <1>1, <1>3, <2>2, <3>1, FieldsTurned
  <2>4. call' \in Calls
    BY <1>3, <2>2, <2>3 DEF Calls, Labels
  <2>5. conn_timers' \in Arrays
    BY <1>3, <2>1, <2>2, ShiftTurn
  <2>6. TypeOK'
    BY <1>1, <2>5 DEF StepsInv, StepsTyped, TypeOK, Arrays
  <2>7. Entry' = Entry /\ Source' = Source
    BY <1>6, <2>3 DEF Entry, Source
  <2>8. Removing' /\ Shifting'
    BY <1>1, <1>6, <2>1, <2>2, <2>3, <2>7 DEF StepsInv, Removing, Shifting, OldTime
  <2>9. StepsInv'
    BY <1>1, <1>3, <1>6, <2>3, <2>4, <2>6, <2>8
       DEF StepsInv, StepsTyped, BetweenCalls, InCall, Finding, Standing, Looking,
           Zeroing, Removed, Starting, Summing, Linking, Arming
  <2>10. call' # Idle
    BY <2>3 DEF Idle
  <2> QED
    BY <1>1, <1>3, <2>9, <2>10 DEF Silent
<1>8. CASE ~Valid(conn_timers, call.i + 1)
  <2>1. call.i = LastFrom(Source, Entry)
    BY <1>2, <1>3, <1>4, <1>5, <1>8
  <2>2. conn_timers' = [conn_timers EXCEPT ![call.i].time = -1]
    BY <1>8 DEF Shift
  <2>3. call' = [pc |-> "zero", conn |-> call.conn, i |-> call.i, time |-> call.time,
                 combined |-> call.combined, arm |-> call.arm]
    BY <1>3, <1>8, FieldsMoved DEF Shift, Goto, Labels
  <2>4. call' \in Calls
    BY <1>3, <2>3 DEF Calls, Labels
  <2>5. conn_timers' \in Arrays
    <3>1. call.i \in Slots
      BY <1>5, <2>1 DEF Slots
    <3> QED
      BY <1>3, <2>2, <3>1 DEF Arrays
  <2>6. TypeOK'
    BY <1>1, <2>5 DEF StepsInv, StepsTyped, TypeOK, Arrays
  <2>7. Entry' = Entry /\ Source' = Source
    BY <1>6, <2>3 DEF Entry, Source
  <2>8. Removing'
    BY <1>1, <1>6, <2>3, <2>7 DEF StepsInv, Removing, OldTime
  <2>9. Zeroing'
    BY <1>4, <2>1, <2>2, <2>7 DEF Zeroing
  <2>10. StepsInv'
    BY <1>1, <1>3, <1>6, <2>3, <2>4, <2>6, <2>8, <2>9
       DEF StepsInv, StepsTyped, BetweenCalls, InCall, Finding, Standing, Looking,
           Shifting, Removed, Starting, Summing, Linking, Arming
  <2>11. call' # Idle
    BY <2>3 DEF Idle
  <2> QED
    BY <1>1, <1>3, <2>10, <2>11 DEF Silent
<1> QED
  BY <1>7, <1>8

\* The end of a call that has stopped the head is StopHead of Timer, as far as
\* anybody outside the call sees.
LEMMA HeadStopped ==
    ASSUME call # Idle, call' = Idle, created, ~sigalrm, failed = {},
           NEW c \in Conns, FindIndex(Old, c) = 0, Valid(Old, 0),
           conn_timers' = RemoveIndex(Old, 0),
           NEW t, t = IF Old[1].time # -1 THEN OldTime + Old[1].time ELSE 0,
           rem' = ArmedFor(t), failed' = failed \cup Refused(t),
           UNCHANGED <<sigalrm, created, status>>
    PROVE  Atomic!StopHead(c)
<1>1. Atomic!FindIndex(Old, c) = 0 /\ Atomic!Valid(Old, 0)
      /\ Atomic!RemoveIndex(Old, 0) = RemoveIndex(Old, 0)
  BY SameArrays
<1>2. Atomic!Running
  BY DEF Atomic!Running
<1>3. Atomic!ArmedFor(t) = ArmedFor(t) /\ Atomic!Refused(t) = Refused(t)
  BY DEF Atomic!ArmedFor, ArmedFor, Atomic!Refused, Refused
<1>4. Atomic!Gettime = OldTime
  BY DEF Atomic!Gettime, OldTime
<1> QED
  BY <1>1, <1>2, <1>3, <1>4 DEF Atomic!StopHead, Old

\* The same for an entry behind the head.
LEMMA LaterStopped ==
    ASSUME call # Idle, call' = Idle, created, ~sigalrm, failed = {},
           NEW c \in Conns, FindIndex(Old, c) # 0, Valid(Old, FindIndex(Old, c)),
           conn_timers' = RemoveIndex(Merged(Old, FindIndex(Old, c)), FindIndex(Old, c)),
           rem' = before.rem,
           UNCHANGED <<sigalrm, created, status, failed>>
    PROVE  Atomic!StopLater(c)
<1> DEFINE i == FindIndex(Old, c)
           merged == IF Atomic!Valid(Old, i + 1)
                     THEN [Old EXCEPT ![i + 1].time = Old[i + 1].time + Old[i].time]
                     ELSE Old
<1>1. merged = Merged(Old, i)
  BY SameArrays DEF Merged
<1>2. Atomic!FindIndex(Old, c) = i /\ Atomic!Valid(Old, i)
      /\ Atomic!RemoveIndex(merged, i) = RemoveIndex(Merged(Old, i), i)
  BY <1>1, SameArrays
<1>3. Atomic!Running
  BY DEF Atomic!Running
<1> QED
  BY <1>2, <1>3 DEF Atomic!StopLater, Old

\* The delta of the new head is set to 0; without a next entry, or behind the
\* head, the stop is over.
LEMMA ZeroStep ==
    ASSUME StepsInv, Zero
    PROVE  StepsInv' /\ (Silent \/ Atomic!TimerStop(call.conn))
<1>1. call.pc = "zero" /\ call.pc # "idle" /\ conn_timers' = HeadZeroed(conn_timers)
      /\ UNCHANGED <<rem, sigalrm, created, status, failed, before>>
  BY DEF Zero, At, AtSystemCall
<1>2. /\ conn_timers' = RemoveIndex(Source, Entry)
      /\ Valid(Old, Entry)
      /\ Entry # 0 => rem = before.rem /\ ~call.arm
      /\ Entry = 0 => rem = 0 /\ (call.arm <=> Old[1].time # -1)
  BY <1>1 DEF StepsInv, Zeroing, Removing
<1>3. /\ call # Idle /\ created /\ ~sigalrm /\ failed = {}
      /\ call \in Calls /\ call.conn \in Conns /\ call.i \in 0 .. ConnCount
      /\ call.time \in Int /\ Source \in Arrays /\ Entry \in Slots
  BY <1>1, <1>2, InTheCall
<1>4. conn_timers' \in Arrays
  BY <1>2, <1>3, RemoveIndexHead
<1>5. TypeOK'
  BY <1>1, <1>4 DEF StepsInv, StepsTyped, TypeOK, Arrays
<1>6. before' \in [conn_timers : Arrays, rem : Nat] /\ before' = before /\ Old' = Old
  BY <1>1 DEF StepsInv, StepsTyped, Old
<1>7. CASE call.arm
  <2>1. call' = [pc |-> "settime", conn |-> call.conn, i |-> call.i, time |-> call.time,
                 combined |-> call.combined, arm |-> call.arm]
    BY <1>3, <1>7, FieldsMoved DEF Zero, Goto, Labels
  <2>2. call' \in Calls
    BY <1>3, <2>1 DEF Calls, Labels
  <2>3. Entry' = Entry /\ Source' = Source
    BY <1>6, <2>1 DEF Entry, Source
  <2>4. Removing' /\ Removed'
    BY <1>1, <1>2, <1>6, <1>7, <2>1, <2>3 DEF StepsInv, Removing, Removed, OldTime
  <2>5. StepsInv'
    BY <1>1, <1>3, <1>5, <1>6, <2>1, <2>2, <2>4
       DEF StepsInv, StepsTyped, BetweenCalls, InCall, Finding, Standing, Looking,
           Shifting, Zeroing, Starting, Summing, Linking, Arming
  <2>6. call' # Idle
    BY <2>1 DEF Idle
  <2> QED
    BY <1>1, <1>3, <2>5, <2>6 DEF Silent
<1>8. CASE ~call.arm
  <2>1. call' = Idle
    BY <1>8 DEF Zero
  <2>2. StepsInv'
    BY <1>3, <1>5, <1>6, <2>1, IdleTyped, Over DEF StepsTyped
  <2>3. CASE Entry = 0
    <3>1. Old[1].time = -1 /\ rem' = 0 /\ Source = Old
      BY <1>1, <1>2, <1>8, <2>3 DEF Source
    <3>2. ArmedFor(0) = 0 /\ Refused(0) = {}
      BY TimeAssumption DEF ArmedFor, Refused
    <3>3. Atomic!StopHead(call.conn)
      BY <1>1, <1>2, <1>3, <2>1, <2>3, <3>1, <3>2, HeadStopped DEF Entry
    <3> QED
      BY <2>2, <3>3 DEF Atomic!TimerStop
  <2>4. CASE Entry # 0
    <3>1. Source = Merged(Old, Entry) /\ rem' = before.rem
      BY <1>1, <1>2, <2>4 DEF Source
    <3>2. Atomic!StopLater(call.conn)
      BY <1>1, <1>2, <1>3, <2>1, <2>4, <3>1, LaterStopped DEF Entry
    <3> QED
      BY <2>2, <3>2 DEF Atomic!TimerStop
  <2> QED
    BY <2>3, <2>4
<1> QED
  BY <1>7, <1>8

\* The timer is armed for the next entry, and the stop of the head is over.
LEMMA SettimeStep ==
    ASSUME StepsInv, Settime
    PROVE  StepsInv' /\ Atomic!TimerStop(call.conn)
<1>1. call.pc = "settime" /\ call.pc # "idle" /\ call' = Idle
      /\ rem' = ArmedFor(call.time) /\ failed' = failed \cup Refused(call.time)
      /\ UNCHANGED <<conn_timers, created, status, before>>
  BY DEF Settime, AtSystemCall
<1>2. /\ conn_timers = RemoveIndex(Source, Entry) /\ Valid(Old, Entry)
      /\ Entry = 0 /\ call.time = OldTime + Old[1].time /\ Old[1].time # -1
      /\ Source = Old
  BY <1>1 DEF StepsInv, Removing, Removed, Source
<1>3. /\ call # Idle /\ created /\ ~sigalrm /\ failed = {}
      /\ call.conn \in Conns /\ call.time \in Int
  BY <1>1, InTheCall
<1>4. sigalrm' = FALSE /\ sigalrm = FALSE
  BY <1>3 DEF Settime, Setting, StepsInv, StepsTyped, TypeOK
<1>5. rem' \in Nat
  BY <1>1, <1>3, TimeAssumption DEF ArmedFor
<1>6. TypeOK'
  BY <1>1, <1>4, <1>5 DEF StepsInv, StepsTyped, TypeOK, Refused, Assertions
<1>7. StepsInv'
  BY <1>1, <1>3, <1>6, IdleTyped, Over DEF StepsInv, StepsTyped
<1>8. Atomic!StopHead(call.conn)
  BY <1>1, <1>2, <1>3, <1>4, HeadStopped DEF Entry
<1> QED
  BY <1>7, <1>8 DEF Atomic!TimerStop
-----------------------------------------------------------------------------
(* shttp_timer_start: each statement *)

\* An entry that gets its time and then its connection has both.
LEMMA EntryWritten ==
    ASSUME NEW ct \in Arrays, NEW n \in Slots, NEW t \in Int, NEW c \in Conns
    PROVE  /\ Timed(ct, n, t) \in Arrays
           /\ Linked(Timed(ct, n, t), n, c) = [ct EXCEPT ![n] = [time |-> t, conn |-> c]]
<1> DEFINE timed == Timed(ct, n, t)
           linked == Linked(timed, n, c)
           whole == [ct EXCEPT ![n] = [time |-> t, conn |-> c]]
<1>1. /\ timed \in Arrays
      /\ timed[n].time = t
      /\ \A k \in Slots : k # n => timed[k] = ct[k]
  BY DEF Arrays, Timed
<1> HIDE DEF timed
<1>2. /\ linked \in Arrays
      /\ linked[n].time = t /\ linked[n].conn = c
      /\ \A k \in Slots : k # n => linked[k] = ct[k]
  BY <1>1 DEF Arrays, Linked
<1>3. /\ whole \in Arrays
      /\ whole[n] = [time |-> t, conn |-> c]
      /\ \A k \in Slots : k # n => whole[k] = ct[k]
  BY DEF Arrays
<1> HIDE DEF linked, whole
<1>4. linked[n] = [time |-> t, conn |-> c]
  <2>1. linked[n] \in [time : Int, conn : Conns]
    BY <1>2 DEF Arrays
  <2> QED
    BY <1>2, <2>1
<1>5. \A k \in Slots : linked[k] = whole[k]
  BY <1>2, <1>3, <1>4
<1>6. linked = whole
  BY <1>2, <1>3, <1>5 DEF Arrays
<1> QED
  BY <1>1, <1>6 DEF timed, linked, whole

\* The end of a call that has added an entry is StartRoom of Timer.
LEMMA Started ==
    ASSUME call # Idle, call' = Idle, created, ~sigalrm, failed = {},
           NEW c \in Conns, Used(Old) < ConnCount,
           conn_timers' = Added(Old, c, TimeRead),
           rem' = IF TimeRead = 0 THEN KeepAlive * GranulesPerMs ELSE before.rem,
           status' = "OK",
           UNCHANGED <<sigalrm, created, failed>>
    PROVE  Atomic!StartRoom(c)
<1>1. Atomic!Used(Old) = Used(Old) /\ Atomic!Added(Old, c, TimeRead) = Added(Old, c, TimeRead)
  BY SameArrays
<1>2. Atomic!Running
  BY DEF Atomic!Running
<1>3. Atomic!Gettime = OldTime
  BY DEF Atomic!Gettime, OldTime
<1> QED
  BY <1>1, <1>2, <1>3 DEF Atomic!StartRoom, Old, TimeRead

\* The timer is read only if it runs for somebody.
LEMMA StartLookStep ==
    ASSUME StepsInv, StartLook
    PROVE  StepsInv' /\ Silent
<1>1. call.pc = "start" /\ call.pc # "idle" /\ UNCHANGED <<vars, before>>
  BY DEF StartLook, At, AtSystemCall
<1>2. /\ conn_timers = Old /\ rem = before.rem /\ call.i = 0
      /\ call.time = 0 /\ call.combined = 0
  BY <1>1 DEF StepsInv, Starting
<1>3. /\ call # Idle /\ created /\ ~sigalrm /\ failed = {} /\ call \in Calls
      /\ call.conn \in Conns /\ call.i \in 0 .. ConnCount /\ call.arm \in BOOLEAN
  BY <1>1, InTheCall
<1>4. TypeOK' /\ before' \in [conn_timers : Arrays, rem : Nat]
  BY <1>1 DEF StepsInv, StepsTyped, TypeOK, vars
<1> DEFINE p == IF Old[0].time # -1 THEN "gettime" ELSE "add"
<1>5. /\ p \in Labels /\ p \in {"gettime", "add"}
      /\ p = "gettime" => Old[0].time # -1
      /\ p = "add" => Old[0].time = -1
  BY DEF Labels
<1>6. call' = [call EXCEPT !.pc = p]
  BY <1>2 DEF StartLook, Goto
<1> HIDE DEF p
<1>7. call' = [pc |-> p, conn |-> call.conn, i |-> call.i, time |-> call.time,
               combined |-> call.combined, arm |-> call.arm]
  BY <1>3, <1>5, <1>6, FieldsMoved
<1>8. call' \in Calls
  BY <1>2, <1>3, <1>5, <1>7 DEF Calls
<1>9. Old' = Old /\ before' = before /\ TimeRead' = TimeRead
  BY <1>1 DEF Old, TimeRead, OldTime
<1>10. Starting'
  BY <1>1, <1>2, <1>5, <1>7, <1>9 DEF Starting, vars, TimeRead
<1>11. StepsInv'
  BY <1>1, <1>3, <1>4, <1>5, <1>7, <1>8, <1>10
     DEF StepsInv, StepsTyped, BetweenCalls, InCall, Finding, Standing, Looking, Removing,
         Shifting, Zeroing, Removed, Summing, Linking, Arming, vars
<1>12. call' # Idle
  BY <1>5, <1>7 DEF Idle
<1> QED
  BY <1>1, <1>3, <1>11, <1>12 DEF Silent, vars

\* What is read goes into both variables.
LEMMA GetTimeStep ==
    ASSUME StepsInv, GetTime
    PROVE  StepsInv' /\ Silent
<1>1. call.pc = "gettime" /\ call.pc # "idle" /\ UNCHANGED <<vars, before>>
  BY DEF GetTime, AtSystemCall
<1>2. /\ conn_timers = Old /\ rem = before.rem /\ call.i = 0 /\ Old[0].time # -1
  BY <1>1 DEF StepsInv, Starting
<1>3. /\ call # Idle /\ created /\ ~sigalrm /\ failed = {} /\ call \in Calls
      /\ call.conn \in Conns /\ call.i \in 0 .. ConnCount /\ call.arm \in BOOLEAN
      /\ OldTime \in Nat
  BY <1>1, InTheCall
<1>4. TypeOK' /\ before' \in [conn_timers : Arrays, rem : Nat]
  BY <1>1 DEF StepsInv, StepsTyped, TypeOK, vars
<1>5. call' = [pc |-> "add", conn |-> call.conn, i |-> call.i, time |-> OldTime,
               combined |-> OldTime, arm |-> call.arm]
  <2>1. call' = [call EXCEPT !.pc = "add", !.time = OldTime, !.combined = OldTime]
    BY <1>2 DEF GetTime, Gettime, OldTime
  <2>2. "add" \in Labels /\ OldTime \in Int
    BY <1>3 DEF Labels
  <2> QED
    BY <1>3, <2>1, <2>2, FieldsSummed, Zenon
<1>6. call' \in Calls
  BY <1>3, <1>5 DEF Calls, Labels
<1>7. Old' = Old /\ before' = before /\ TimeRead' = TimeRead /\ TimeRead = OldTime
  BY <1>1, <1>2 DEF Old, TimeRead, OldTime
<1>8. Starting'
  BY <1>1, <1>2, <1>5, <1>7 DEF Starting, vars
<1>9. StepsInv'
  BY <1>1, <1>3, <1>4, <1>5, <1>6, <1>8
     DEF StepsInv, StepsTyped, BetweenCalls, InCall, Finding, Standing, Looking, Removing,
         Shifting, Zeroing, Removed, Summing, Linking, Arming, vars
<1>10. call' # Idle
  BY <1>5 DEF Idle
<1> QED
  BY <1>1, <1>3, <1>9, <1>10 DEF Silent, vars

\* The first entry of an empty list has delta 0; behind others the sum begins.
LEMMA AddStep ==
    ASSUME StepsInv, Add
    PROVE  StepsInv' /\ Silent
<1>1. call.pc = "add" /\ call.pc # "idle"
      /\ UNCHANGED <<rem, sigalrm, created, status, failed, before>>
  BY DEF Add, At, AtSystemCall
<1>2. /\ conn_timers = Old /\ rem = before.rem /\ call.i = 0
      /\ call.time = TimeRead /\ call.combined = TimeRead
  BY <1>1 DEF StepsInv, Starting
<1>3. /\ call # Idle /\ created /\ ~sigalrm /\ failed = {} /\ call \in Calls
      /\ call.conn \in Conns /\ call.i \in 0 .. ConnCount /\ call.arm \in BOOLEAN
      /\ call.time \in Int /\ call.combined \in Int
      /\ TimeRead \in Nat /\ Old \in Arrays /\ Used(Old) \in 0 .. ConnCount
  BY <1>1, InTheCall
<1>4. before' \in [conn_timers : Arrays, rem : Nat] /\ before' = before
      /\ Old' = Old /\ TimeRead' = TimeRead
  BY <1>1 DEF StepsInv, StepsTyped, Old, TimeRead, OldTime
<1>5. CASE Old[0].time = -1
  <2>1. call' = [pc |-> "conn", conn |-> call.conn, i |-> call.i, time |-> call.time,
                 combined |-> call.combined, arm |-> call.arm]
    BY <1>2, <1>3, <1>5, FieldsMoved DEF Add, Goto, Labels
  <2>2. call' \in Calls
    BY <1>3, <2>1 DEF Calls, Labels
  <2>3. Used(Old) = 0 /\ 0 \in Slots /\ TimeRead = 0
    BY <1>3, <1>5, UsedBounds, ConnCountAssumption DEF Slots, TimeRead
  <2>4. conn_timers' = Timed(Old, 0, 0)
    BY <1>2, <1>5 DEF Add, Timed
  <2>5. /\ conn_timers' \in Arrays
        /\ Linked(conn_timers', 0, call.conn) =
               [Old EXCEPT ![0] = [time |-> 0, conn |-> call.conn]]
    <3>1. 0 \in Int
      OBVIOUS
    <3> QED
      BY <1>3, <2>3, <2>4, <3>1, EntryWritten
  <2>6. Added(Old, call.conn, TimeRead) = [Old EXCEPT ![0] = [time |-> 0, conn |-> call.conn]]
    BY <2>3 DEF Added
  <2>7. Linking'
    BY <1>1, <1>2, <1>4, <2>1, <2>3, <2>5, <2>6, ConnCountAssumption DEF Linking
  <2>8. TypeOK'
    BY <1>1, <2>5 DEF StepsInv, StepsTyped, TypeOK, Arrays
  <2>9. StepsInv'
    BY <1>1, <1>3, <1>4, <2>1, <2>2, <2>7, <2>8
       DEF StepsInv, StepsTyped, BetweenCalls, InCall, Finding, Standing, Looking, Removing,
           Shifting, Zeroing, Removed, Starting, Summing, Arming
  <2>10. call' # Idle
    BY <2>1 DEF Idle
  <2> QED
    BY <1>1, <1>3, <2>9, <2>10 DEF Silent
<1>6. CASE Old[0].time # -1
  <2>1. call' = [pc |-> "sum", conn |-> call.conn, i |-> call.i, time |-> call.time,
                 combined |-> call.combined, arm |-> call.arm]
        /\ UNCHANGED conn_timers
    BY <1>2, <1>3, <1>6, FieldsMoved DEF Add, Goto, Labels
  <2>2. call' \in Calls
    BY <1>3, <2>1 DEF Calls, Labels
  <2>3. Combined(Old, 0) = 0
    BY <1>3, CombinedStep
  <2>4. Summing'
    BY <1>1, <1>2, <1>3, <1>4, <1>6, <2>1, <2>3 DEF Summing
  <2>5. TypeOK'
    BY <1>1, <2>1 DEF StepsInv, StepsTyped, TypeOK
  <2>6. StepsInv'
    BY <1>1, <1>3, <1>4, <2>1, <2>2, <2>4, <2>5
       DEF StepsInv, StepsTyped, BetweenCalls, InCall, Finding, Standing, Looking, Removing,
           Shifting, Zeroing, Removed, Starting, Linking, Arming
  <2>7. call' # Idle
    BY <2>1 DEF Idle
  <2> QED
    BY <1>1, <1>3, <2>1, <2>6, <2>7 DEF Silent
<1> QED
  BY <1>5, <1>6

\* A turn of the sum adds a delta.
LEMMA SumStep ==
    ASSUME StepsInv, Sum
    PROVE  StepsInv' /\ Silent
<1>1. call.pc = "sum" /\ call.pc # "idle" /\ UNCHANGED <<vars, before>>
      /\ Valid(conn_timers, call.i)
  BY DEF Sum, At, AtSystemCall
<1>2. /\ conn_timers = Old /\ rem = before.rem
      /\ call.time = TimeRead /\ Old[0].time # -1
      /\ call.i <= Used(Old) /\ call.combined = TimeRead + Combined(Old, call.i)
  BY <1>1 DEF StepsInv, Summing
<1>3. /\ call # Idle /\ created /\ ~sigalrm /\ failed = {} /\ call \in Calls
      /\ call.conn \in Conns /\ call.i \in 0 .. ConnCount /\ call.arm \in BOOLEAN
      /\ call.time \in Int /\ call.combined \in Int
      /\ TimeRead \in Nat /\ Old \in Arrays /\ Used(Old) \in 0 .. ConnCount
  BY <1>1, InTheCall
<1>4. TypeOK' /\ before' \in [conn_timers : Arrays, rem : Nat]
  BY <1>1 DEF StepsInv, StepsTyped, TypeOK, vars
<1>5. call.i < Used(Old) /\ call.i < ConnCount /\ call.i \in Slots
  <2>1. call.i < ConnCount /\ Old[call.i].time # -1
    BY <1>1, <1>2 DEF Valid
  <2>2. call.i # Used(Old)
    BY <1>3, <2>1, UsedBounds
  <2> QED
    BY <1>2, <1>3, <2>1, <2>2, ConnCountAssumption DEF Slots
<1>6. Old[call.i].time \in Int /\ Combined(Old, call.i) \in Int
  BY <1>3, <1>5, CombinedInt DEF Arrays
<1>7. Combined(Old, call.i + 1) = Combined(Old, call.i) + Old[call.i].time
  <2>1. call.i + 1 \in 1 .. ConnCount /\ (call.i + 1) - 1 = call.i
    BY <1>3, <1>5, ConnCountAssumption
  <2> QED
    BY <1>3, <2>1, CombinedStep
<1>8. call' = [pc |-> "sum", conn |-> call.conn, i |-> call.i + 1, time |-> call.time,
               combined |-> call.combined + Old[call.i].time, arm |-> call.arm]
  <2>1. call' = [call EXCEPT !.i = call.i + 1, !.combined = call.combined + Old[call.i].time]
    BY <1>2 DEF Sum
  <2>2. call.i + 1 \in 0 .. ConnCount /\ call.combined + Old[call.i].time \in Int
    BY <1>3, <1>5, <1>6, ConnCountAssumption
  <2>3. call' = [pc |-> call.pc, conn |-> call.conn, i |-> call.i + 1, time |-> call.time,
               combined |-> call.combined + Old[call.i].time, arm |-> call.arm]
    BY <1>3, <2>1, <2>2, FieldsAdded, Zenon
  <2> QED
    BY <1>1, <2>3
<1>9. call' \in Calls
  BY <1>3, <1>5, <1>6, <1>8, ConnCountAssumption DEF Calls, Labels
<1>10. Old' = Old /\ before' = before /\ TimeRead' = TimeRead
  BY <1>1 DEF Old, TimeRead, OldTime
<1>11. Summing'
  <2>1. call.combined + Old[call.i].time = TimeRead + Combined(Old, call.i + 1)
    BY <1>2, <1>3, <1>6, <1>7
  <2>2. call.i + 1 <= Used(Old)
    BY <1>3, <1>5
  <2> QED
    BY <1>1, <1>2, <1>8, <1>10, <2>1, <2>2 DEF Summing, vars
<1>12. StepsInv'
  BY <1>1, <1>3, <1>4, <1>8, <1>9, <1>11
     DEF StepsInv, StepsTyped, BetweenCalls, InCall, Finding, Standing, Looking, Removing,
         Shifting, Zeroing, Removed, Starting, Linking, Arming, vars
<1>13. call' # Idle
  BY <1>8 DEF Idle
<1> QED
  BY <1>1, <1>3, <1>12, <1>13 DEF Silent, vars
\* A list that is full ends the call, as StartFull of Timer.
LEMMA LimitStep ==
    ASSUME StepsInv, Limit
    PROVE  StepsInv' /\ Atomic!TimerStart(call.conn)
<1>1. call.pc = "sum" /\ call.pc # "idle" /\ call.i = ConnCount
      /\ status' = "TIMER_LIMIT" /\ call' = Idle
      /\ UNCHANGED <<conn_timers, rem, sigalrm, created, failed, before>>
  BY DEF Limit, At, AtSystemCall
<1>2. conn_timers = Old /\ rem = before.rem /\ call.i <= Used(Old)
  BY <1>1 DEF StepsInv, Summing
<1>3. /\ call # Idle /\ created /\ ~sigalrm /\ failed = {} /\ call.conn \in Conns
      /\ Used(Old) \in 0 .. ConnCount
  BY <1>1, InTheCall
<1>4. StepsTyped'
  BY <1>1, <1>3, IdleTyped DEF StepsInv, StepsTyped, TypeOK, Statuses
<1>5. StepsInv'
  BY <1>1, <1>4, Over
<1>6. Used(Old) = ConnCount
  BY <1>1, <1>2, <1>3, ConnCountAssumption
<1>7. Atomic!Used(Old) = ConnCount
  BY <1>6, SameArrays
<1>8. Atomic!Running
  BY <1>3 DEF Atomic!Running
<1>9. Atomic!StartFull
  BY <1>1, <1>2, <1>3, <1>7, <1>8 DEF Atomic!StartFull, Old
<1> QED
  BY <1>5, <1>9 DEF Atomic!TimerStart

\* The delta of the new entry is what the sum leaves of the timeout.
LEMMA WriteTimeStep ==
    ASSUME StepsInv, WriteTime
    PROVE  StepsInv' /\ Silent
<1>1. call.pc = "sum" /\ call.pc # "idle"
      /\ call.i < ConnCount /\ ~Valid(conn_timers, call.i)
      /\ UNCHANGED <<rem, sigalrm, created, status, failed, before>>
  BY DEF WriteTime, At, AtSystemCall
<1>2. /\ conn_timers = Old /\ rem = before.rem
      /\ call.time = TimeRead /\ Old[0].time # -1
      /\ call.i <= Used(Old) /\ call.combined = TimeRead + Combined(Old, call.i)
  BY <1>1 DEF StepsInv, Summing
<1>3. /\ call # Idle /\ created /\ ~sigalrm /\ failed = {} /\ call \in Calls
      /\ call.conn \in Conns /\ call.i \in 0 .. ConnCount /\ call.arm \in BOOLEAN
      /\ call.time \in Int /\ call.combined \in Int
      /\ TimeRead \in Nat /\ Old \in Arrays /\ Used(Old) \in 0 .. ConnCount
  BY <1>1, InTheCall
<1>4. call.i = Used(Old) /\ Used(Old) \in Slots /\ Used(Old) # 0
  <2>1. Old[call.i].time = -1
    BY <1>1, <1>2 DEF Valid
  <2>2. call.i \in Slots
    BY <1>1, <1>3, ConnCountAssumption DEF Slots
  <2>3. ~(call.i < Used(Old))
    BY <1>3, <2>1, <2>2, UsedBounds
  <2> QED
    BY <1>2, <1>3, <2>1, <2>2, <2>3
<1> DEFINE t == KeepAlive - call.combined
<1>5. t \in Int
  BY <1>3, TimeAssumption
<1>6. conn_timers' = Timed(Old, Used(Old), t)
  BY <1>2, <1>4 DEF WriteTime, Timed
<1>7. Added(Old, call.conn, TimeRead) =
          [Old EXCEPT ![Used(Old)] = [time |-> t, conn |-> call.conn]]
  BY <1>2, <1>4 DEF Added
<1> HIDE DEF t
<1>8. /\ conn_timers' \in Arrays
      /\ Linked(conn_timers', Used(Old), call.conn) =
             [Old EXCEPT ![Used(Old)] = [time |-> t, conn |-> call.conn]]
  <2>1. Old \in Arrays /\ Used(Old) \in Slots /\ t \in Int /\ call.conn \in Conns
    BY <1>3, <1>4, <1>5
  <2>2. /\ Timed(Old, Used(Old), t) \in Arrays
        /\ Linked(Timed(Old, Used(Old), t), Used(Old), call.conn) =
               [Old EXCEPT ![Used(Old)] = [time |-> t, conn |-> call.conn]]
    BY <2>1, EntryWritten
  <2> QED
    BY <1>6, <2>2
<1>9. /\ conn_timers' \in Arrays
      /\ Linked(conn_timers', Used(Old), call.conn) =
             Added(Old, call.conn, TimeRead)
  BY <1>7, <1>8
<1>10. call' = [pc |-> "conn", conn |-> call.conn, i |-> call.i, time |-> call.time,
                combined |-> call.combined, arm |-> call.arm]
  BY <1>3, FieldsMoved DEF WriteTime, Goto, Labels
<1>11. call' \in Calls
  BY <1>3, <1>10 DEF Calls, Labels
<1>12. before' \in [conn_timers : Arrays, rem : Nat] /\ before' = before
       /\ Old' = Old /\ TimeRead' = TimeRead /\ Used(Old) < ConnCount
  BY <1>1, <1>4 DEF StepsInv, StepsTyped, Old, TimeRead, OldTime
<1>13. Linking'
  BY <1>1, <1>2, <1>4, <1>9, <1>10, <1>12 DEF Linking
<1>14. TypeOK'
  BY <1>1, <1>9 DEF StepsInv, StepsTyped, TypeOK, Arrays
<1>15. StepsInv'
  BY <1>1, <1>3, <1>10, <1>11, <1>12, <1>13, <1>14
     DEF StepsInv, StepsTyped, BetweenCalls, InCall, Finding, Standing, Looking, Removing,
         Shifting, Zeroing, Removed, Starting, Summing, Arming
<1>16. call' # Idle
  BY <1>10 DEF Idle
<1> QED
  BY <1>1, <1>3, <1>15, <1>16 DEF Silent

\* The entry gets its connection.  If the timer runs, the call is over.
LEMMA WriteConnStep ==
    ASSUME StepsInv, WriteConn
    PROVE  StepsInv' /\ (Silent \/ Atomic!TimerStart(call.conn))
<1>1. call.pc = "conn" /\ call.pc # "idle"
      /\ conn_timers' = [conn_timers EXCEPT ![call.i].conn = call.conn]
      /\ UNCHANGED <<rem, sigalrm, created, failed, before>>
  BY DEF WriteConn, At, AtSystemCall
<1>2. /\ rem = before.rem /\ call.time = TimeRead
      /\ call.i = Used(Old) /\ Used(Old) < ConnCount
      /\ conn_timers' = Added(Old, call.conn, TimeRead)
  BY <1>1 DEF StepsInv, Linking, Linked
<1>3. /\ call # Idle /\ created /\ ~sigalrm /\ failed = {} /\ call \in Calls
      /\ call.conn \in Conns /\ call.i \in 0 .. ConnCount /\ call.arm \in BOOLEAN
      /\ call.time \in Int /\ call.combined \in Int
      /\ TimeRead \in Nat /\ Old \in Arrays
  BY <1>1, InTheCall
<1>4. before' \in [conn_timers : Arrays, rem : Nat] /\ before' = before
      /\ Old' = Old /\ TimeRead' = TimeRead
  BY <1>1 DEF StepsInv, StepsTyped, Old, TimeRead, OldTime
<1>5. conn_timers' \in Arrays
  BY <1>2, <1>3, AddedHead
<1>6. CASE call.time = 0
  <2>1. call' = [pc |-> "settime_full", conn |-> call.conn, i |-> call.i, time |-> call.time,
                 combined |-> call.combined, arm |-> call.arm]
        /\ UNCHANGED status
    BY <1>3, <1>6, FieldsMoved DEF WriteConn, Goto, Labels
  <2>2. call' \in Calls
    BY <1>3, <2>1 DEF Calls, Labels
  <2>3. Arming'
    BY <1>1, <1>2, <1>4, <1>6, <2>1 DEF Arming
  <2>4. TypeOK'
    BY <1>1, <1>5, <2>1 DEF StepsInv, StepsTyped, TypeOK, Arrays
  <2>5. StepsInv'
    BY <1>1, <1>3, <1>4, <2>1, <2>2, <2>3, <2>4
       DEF StepsInv, StepsTyped, BetweenCalls, InCall, Finding, Standing, Looking, Removing,
           Shifting, Zeroing, Removed, Starting, Summing, Linking
  <2>6. call' # Idle
    BY <2>1 DEF Idle
  <2> QED
    BY <1>1, <1>3, <2>1, <2>5, <2>6 DEF Silent
<1>7. CASE call.time # 0
  <2>1. call' = Idle /\ status' = "OK"
    BY <1>7 DEF WriteConn
  <2>2. TypeOK'
    BY <1>1, <1>5, <2>1 DEF StepsInv, StepsTyped, TypeOK, Arrays, Statuses
  <2>3. StepsInv'
    BY <1>3, <1>4, <2>1, <2>2, IdleTyped, Over DEF StepsTyped
  <2>4. Atomic!StartRoom(call.conn)
    BY <1>1, <1>2, <1>3, <1>7, <2>1, Started
  <2> QED
    BY <2>3, <2>4 DEF Atomic!TimerStart
<1> QED
  BY <1>6, <1>7

\* The timer is armed for the whole timeout, and the call is over.
LEMMA SettimeFullStep ==
    ASSUME StepsInv, SettimeFull
    PROVE  StepsInv' /\ Atomic!TimerStart(call.conn)
<1>1. call.pc = "settime_full" /\ call.pc # "idle"
      /\ rem' = KeepAlive * GranulesPerMs /\ status' = "OK" /\ call' = Idle
      /\ UNCHANGED <<conn_timers, created, failed, before>>
  BY DEF SettimeFull, AtSystemCall
<1>2. /\ TimeRead = 0 /\ Used(Old) < ConnCount
      /\ conn_timers = Added(Old, call.conn, TimeRead)
  BY <1>1 DEF StepsInv, Arming
<1>3. /\ call # Idle /\ created /\ ~sigalrm /\ failed = {} /\ call.conn \in Conns
  BY <1>1, InTheCall
<1>4. sigalrm' = FALSE /\ sigalrm = FALSE
  BY <1>3 DEF SettimeFull, Setting, StepsInv, StepsTyped, TypeOK
<1>5. rem' \in Nat
  BY <1>1, TimeAssumption
<1>6. StepsTyped'
  BY <1>1, <1>3, <1>4, <1>5, IdleTyped DEF StepsInv, StepsTyped, TypeOK, Statuses
<1>7. StepsInv'
  BY <1>1, <1>6, Over
<1>8. Atomic!StartRoom(call.conn)
  BY <1>1, <1>2, <1>3, <1>4, Started
<1> QED
  BY <1>7, <1>8 DEF Atomic!TimerStart

-----------------------------------------------------------------------------
(* The step of the whole *)

\* Before shttp_timer_init nothing is known but the types.
LEMMA StepsInvInit == StepsInit => StepsInv /\ Atomic!Init
<1> SUFFICES ASSUME StepsInit PROVE StepsInv /\ Atomic!Init
  OBVIOUS
<1>1. Inv /\ call = Idle /\ before = [conn_timers |-> conn_timers, rem |-> rem]
  BY InitInv DEF StepsInit
<1>2. TypeOK /\ \E c \in Conns : TRUE
  BY <1>1 DEF Inv, StepsInit, Init
<1>3. conn_timers \in Arrays /\ rem \in Nat
  BY <1>2 DEF TypeOK, Arrays
<1>4. StepsTyped
  BY <1>1, <1>2, <1>3, IdleTyped DEF StepsTyped
<1>5. call.pc = "idle"
  BY <1>1 DEF Idle
<1>6. StepsInv
  BY <1>1, <1>4, <1>5
     DEF StepsInv, BetweenCalls, InCall, Finding, Standing, Looking, Removing, Shifting,
         Zeroing, Removed, Starting, Summing, Linking, Arming
<1>7. Atomic!Init
  BY <1>1, SameArrays DEF StepsInit, Init, Atomic!Init
<1> QED
  BY <1>6, <1>7

\* A call begins: nothing that Timer has in its state changes.
LEMMA BeginStep ==
    ASSUME StepsInv, NEW c \in Conns, NEW label \in {"find", "start"}, Begin(label, c)
    PROVE  /\ StepsInv' /\ call = Idle /\ UNCHANGED vars
           /\ before'.conn_timers = conn_timers /\ before'.rem = rem
<1>1. /\ created /\ ~sigalrm /\ failed = {} /\ call = Idle /\ UNCHANGED vars
      /\ before' = [conn_timers |-> conn_timers, rem |-> rem]
  BY DEF Begin, Running
<1>2. conn_timers \in Arrays /\ rem \in Nat /\ TypeOK' /\ before' \in [conn_timers : Arrays, rem : Nat]
  BY <1>1 DEF StepsInv, StepsTyped, TypeOK, Arrays, vars
<1>3. call' = [pc |-> label, conn |-> c, i |-> 0, time |-> 0, combined |-> 0, arm |-> FALSE]
  BY DEF Begin, Idle
<1>4. call' \in Calls
  BY <1>3, ConnCountAssumption DEF Calls, Labels
<1>5. Old' = conn_timers /\ before'.rem = rem
  BY <1>1 DEF Old
<1>6. Finding' /\ Starting'
  BY <1>1, <1>3, <1>5 DEF Finding, Starting, vars
<1>7. StepsInv'
  BY <1>1, <1>2, <1>3, <1>4, <1>6
     DEF StepsInv, StepsTyped, BetweenCalls, InCall, Standing, Looking, Removing,
         Shifting, Zeroing, Removed, Summing, Linking, Arming, vars
<1> QED
  BY <1>1, <1>5, <1>7 DEF Old
\* What is one action of Timer is one action of it here.
LEMMA WholeStep ==
    ASSUME StepsInv, InitOrDeinit \/ Handler \/ Clock, ~Interrupts
    PROVE  StepsInv' /\ Atomic!Next
<1>1. call = Idle
  <2>1. CASE InitOrDeinit
    BY <2>1 DEF InitOrDeinit
  <2>2. CASE Handler
    <3>1. sigalrm
      BY <2>2 DEF Handler, SignalHandler
    <3> QED
      BY <3>1 DEF StepsInv, InCall, BetweenCalls
  <2>3. CASE Clock
    BY <2>3 DEF Clock
  <2> QED
    BY <2>1, <2>2, <2>3
<1>2. UNCHANGED <<call, before>>
  BY DEF InitOrDeinit, Handler, Clock
<1>3. /\ conn_timers \in Arrays /\ rem \in Nat /\ created \in BOOLEAN /\ failed \subseteq Assertions
      /\ 0 \in Slots /\ 1 \in Slots
  BY ConnCountAssumption DEF StepsInv, StepsTyped, TypeOK, Arrays, Slots
<1>4. TypeOK'
  <2>1. CASE InitOrDeinit
    <3>1. CASE TimerInit
      <4>1. \A i \in Slots : conn_timers[i].conn \in Conns
        BY <1>3 DEF Arrays
      <4>2. conn_timers' \in Arrays
        BY <1>3, <3>1, <4>1 DEF TimerInit, Arrays
      <4> QED
        BY <1>3, <3>1, <4>2 DEF TimerInit, StepsInv, StepsTyped, TypeOK, Arrays, Statuses
    <3>2. CASE TimerDeinit
      BY <1>3, <3>2 DEF TimerDeinit, StepsInv, StepsTyped, TypeOK
    <3> QED
      BY <2>1, <3>1, <3>2 DEF InitOrDeinit
  <2>2. CASE Handler
    <3> DEFINE time == conn_timers[1].time
    <3>1. time \in Int
      BY <1>3 DEF Arrays
    <3>2. ArmedFor(time) \in Nat /\ Refused(time) \subseteq Assertions
      BY <3>1, TimeAssumption DEF ArmedFor, Refused, Assertions
    <3>3. RemoveIndex(conn_timers, 0) \in Arrays
      BY <1>3, RemoveIndexHead
    <3>4. /\ sigalrm' = FALSE /\ conn_timers' = RemoveIndex(conn_timers, 0)
          /\ rem' = IF time # -1 THEN ArmedFor(time) ELSE rem
          /\ failed' = failed \cup (IF time # -1 THEN Refused(time) ELSE {})
                              \cup (IF Valid(conn_timers, 0) THEN {} ELSE {"head"})
          /\ UNCHANGED <<created, status>>
      BY <2>2 DEF Handler, SignalHandler
    <3> HIDE DEF time
    <3>5. rem' \in Nat /\ failed' \subseteq Assertions
      BY <1>3, <3>2, <3>4 DEF Assertions
    <3> QED
      BY <1>3, <3>3, <3>4, <3>5 DEF StepsInv, StepsTyped, TypeOK, Arrays
  <2>3. CASE Clock
    <3>1. rem' \in Nat /\ sigalrm' \in BOOLEAN
      BY <1>3, <2>3 DEF Clock, Tick
    <3> QED
      BY <2>3, <3>1 DEF Clock, Tick, StepsInv, StepsTyped, TypeOK
  <2> QED
    BY <2>1, <2>2, <2>3
<1>5. StepsInv'
  BY <1>1, <1>2, <1>4, Over DEF StepsInv, StepsTyped
<1>6. Atomic!Next
  <2>1. CASE InitOrDeinit
    <3>1. TimerInit => Atomic!TimerInit
      BY <1>1, <1>2, SameArrays DEF TimerInit, Atomic!TimerInit
    <3>2. TimerDeinit => Atomic!TimerDeinit
      BY <1>1, <1>2 DEF TimerDeinit, Running, Atomic!TimerDeinit, Atomic!Running
    <3> QED
      BY <2>1, <3>1, <3>2 DEF InitOrDeinit, Atomic!Next
  <2>2. CASE Handler
    <3>1. /\ Atomic!RemoveIndex(conn_timers, 0) = RemoveIndex(conn_timers, 0)
          /\ Atomic!Valid(conn_timers, 0) = Valid(conn_timers, 0)
      BY SameArrays
    <3>2. \A t : Atomic!ArmedFor(t) = ArmedFor(t) /\ Atomic!Refused(t) = Refused(t)
      BY DEF Atomic!ArmedFor, ArmedFor, Atomic!Refused, Refused
    <3>3. Atomic!SignalHandler
      BY <1>1, <1>2, <2>2, <3>1, <3>2 DEF Handler, SignalHandler, Atomic!SignalHandler
    <3> QED
      BY <3>3 DEF Atomic!Next
  <2>3. CASE Clock
    BY <1>1, <1>2, <2>3 DEF Clock, Tick, Atomic!Tick, Atomic!Next
  <2> QED
    BY <2>1, <2>2, <2>3
<1> QED
  BY <1>5, <1>6

\* Every statement keeps the invariant, and is a step of Timer or none.
LEMMA StepsInvStep ==
    ASSUME StepsInv, [StepsNext]_stepVars, ~Interrupts
    PROVE  StepsInv' /\ [Atomic!Next]_Atomic!vars
<1>1. CASE UNCHANGED stepVars
  BY <1>1 DEF stepVars, vars, Atomic!vars, StepsInv, StepsTyped, TypeOK, BetweenCalls, InCall,
     Finding, Standing, Looking, Removing, Shifting, Zeroing, Removed, Starting, Summing,
     Linking, Arming, Old, Entry, Source, OldTime, TimeRead
<1>2. CASE InitOrDeinit \/ Handler \/ Clock
  BY <1>2, WholeStep
<1>3. CASE \E c \in Conns : Begin("find", c) \/ Begin("start", c)
  <2>1. /\ StepsInv' /\ call = Idle /\ UNCHANGED vars
        /\ before'.conn_timers = conn_timers /\ before'.rem = rem
    BY <1>3, BeginStep
  <2> QED
    BY <2>1 DEF vars, Atomic!vars
<1>4. ASSUME StepsInv', Silent
      PROVE  UNCHANGED Atomic!vars
  BY <1>4 DEF Silent, Atomic!vars
<1>5. CASE Stop
  <2>1. CASE Find
    <3>1. StepsInv' /\ (Silent \/ (call # Idle /\ call' = Idle /\ UNCHANGED <<vars, before>>
                                  /\ conn_timers = Old /\ rem = before.rem))
      BY <2>1, FindStep
    <3>2. ASSUME call # Idle, call' = Idle, UNCHANGED <<vars, before>>,
                 conn_timers = Old, rem = before.rem
          PROVE  UNCHANGED Atomic!vars
      BY <3>2 DEF Atomic!vars, vars, Old
    <3> QED
      BY <1>4, <3>1, <3>2
  <2>2. CASE Found
    BY <1>4, <2>2, FoundStep
  <2>3. CASE GetSettime
    BY <1>4, <2>3, GetSettimeStep
  <2>4. CASE Look
    BY <1>4, <2>4, LookStep
  <2>5. CASE Merge
    BY <1>4, <2>5, MergeStep
  <2>6. CASE Shift
    BY <1>4, <2>6, ShiftStep
  <2>7. CASE Zero
    <3>1. call.conn \in Conns
      BY DEF StepsInv, StepsTyped, Calls
    <3> QED
      BY <1>4, <2>7, <3>1, ZeroStep DEF Atomic!Next
  <2>8. CASE Settime
    <3>1. call.conn \in Conns
      BY DEF StepsInv, StepsTyped, Calls
    <3> QED
      BY <2>8, <3>1, SettimeStep DEF Atomic!Next
  <2> QED
    BY <1>5, <2>1, <2>2, <2>3, <2>4, <2>5, <2>6, <2>7, <2>8 DEF Stop
<1>6. CASE Start
  <2>0. call.conn \in Conns
    BY DEF StepsInv, StepsTyped, Calls
  <2>1. CASE StartLook
    BY <1>4, <2>1, StartLookStep
  <2>2. CASE GetTime
    BY <1>4, <2>2, GetTimeStep
  <2>3. CASE Add
    BY <1>4, <2>3, AddStep
  <2>4. CASE Sum
    BY <1>4, <2>4, SumStep
  <2>5. CASE Limit
    BY <2>0, <2>5, LimitStep DEF Atomic!Next
  <2>6. CASE WriteTime
    BY <1>4, <2>6, WriteTimeStep
  <2>7. CASE WriteConn
    BY <1>4, <2>0, <2>7, WriteConnStep DEF Atomic!Next
  <2>8. CASE SettimeFull
    BY <2>0, <2>8, SettimeFullStep DEF Atomic!Next
  <2> QED
    BY <1>6, <2>1, <2>2, <2>3, <2>4, <2>5, <2>6, <2>7, <2>8 DEF Start
<1> QED
  BY <1>1, <1>2, <1>3, <1>5, <1>6 DEF StepsNext

-----------------------------------------------------------------------------
(* Theorem *)

\* Statement by statement, the calls of timer.c are the actions of Timer, as
\* long as no signal handler interrupts them: loops, copies, sums and the order
\* of the system calls come to what Timer says, in every state of the list.
THEOREM StatementsImplementTimer ==
    ASSUME ~Interrupts
    PROVE  StepsSpec => CallsAreAtomic
<1>1. StepsInv /\ [StepsNext]_stepVars => StepsInv' /\ [Atomic!Next]_Atomic!vars
  BY StepsInvStep
<1> QED
  BY StepsInvInit, <1>1, PTL DEF StepsSpec, CallsAreAtomic, Atomic!Spec
=============================================================================
