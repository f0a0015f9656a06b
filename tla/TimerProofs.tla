---------------------------- MODULE TimerProofs ----------------------------
(***************************************************************************)
(* Theorems about module Timer, for every number of connections, every     *)
(* keep-alive timeout and every resolution of the clock.                   *)
(***************************************************************************)
EXTENDS Timer, Least

Arrays == [Slots -> [time : Int, conn : Conns]]

-----------------------------------------------------------------------------
(* The array *)

\* A scan of the list passes only entries in use, and stops on the first -1 or
\* at the end of the array.
LEMMA UsedBounds ==
    ASSUME NEW ct \in Arrays
    PROVE  /\ Used(ct) \in 0 .. ConnCount
           /\ \A i \in Slots : i < Used(ct) => ct[i].time # -1
           /\ Used(ct) < ConnCount => ct[Used(ct)].time = -1
           /\ Used(ct) = 0 <=> ct[0].time = -1
<1> DEFINE S == {i \in Slots : ct[i].time = -1} \cup {ConnCount}
<1>1. S \subseteq Nat /\ S # {} /\ 0 \in Slots
  BY ConnCountAssumption DEF Slots
<1>2. Min(S) \in S /\ \A y \in S : Min(S) <= y
  BY <1>1, MinIsLeast
<1>3. Used(ct) = Min(S)
  BY DEF Used
<1>4. Used(ct) \in S /\ \A y \in S : Used(ct) <= y
  BY <1>2, <1>3
<1> HIDE DEF Used
<1>5. Used(ct) \in 0 .. ConnCount
  BY <1>4, ConnCountAssumption DEF Slots
<1>6. \A i \in Slots : i < Used(ct) => ct[i].time # -1
  BY <1>4, <1>5, ConnCountAssumption DEF Slots
<1>7. Used(ct) < ConnCount => ct[Used(ct)].time = -1
  BY <1>4, <1>5, ConnCountAssumption
<1>8. ct[0].time = -1 => Used(ct) = 0
  BY <1>1, <1>4, <1>5
<1> QED
  BY <1>5, <1>6, <1>7, <1>8, ConnCountAssumption

\* timer_find_index stays in the list, or stops where the list ends.
LEMMA FindIndexBounds ==
    ASSUME NEW ct \in Arrays, NEW c
    PROVE  /\ FindIndex(ct, c) \in 0 .. Used(ct)
           /\ FindIndex(ct, c) < Used(ct) => ct[FindIndex(ct, c)].conn = c
<1> DEFINE S == {i \in Slots : ct[i].conn = c} \cup {Used(ct)}
<1>1. S \subseteq Nat /\ S # {}
  BY UsedBounds, ConnCountAssumption DEF Slots
<1>2. Min(S) \in S /\ \A y \in S : Min(S) <= y
  BY <1>1, MinIsLeast
<1> HIDE DEF S
<1>3. FindIndex(ct, c) = Min(S)
  BY DEF FindIndex, S
<1> QED
  BY <1>1, <1>2, <1>3, UsedBounds DEF S

\* The shift of timer_remove_index ends in the array, on the last entry of the
\* list.
LEMMA LastFromBounds ==
    ASSUME NEW ct \in Arrays, NEW i \in Slots
    PROVE  /\ LastFrom(ct, i) \in i .. ConnCount - 1
           /\ LastFrom(ct, i) # ConnCount - 1 => ct[LastFrom(ct, i) + 1].time = -1
           /\ \A k \in i .. LastFrom(ct, i) - 1 : ct[k + 1].time # -1
<1> DEFINE S == {k \in i .. ConnCount - 1 : k = ConnCount - 1 \/ ct[k + 1].time = -1}
<1>1. S \subseteq Nat /\ ConnCount - 1 \in S
  BY ConnCountAssumption DEF Slots
<1>2. Min(S) \in S /\ \A y \in S : Min(S) <= y
  BY <1>1, MinIsLeast
<1>3. Min(S) = LastFrom(ct, i)
  BY DEF LastFrom
<1> QED
  BY <1>2, <1>3, ConnCountAssumption DEF Slots

\* Removing an entry leaves a list whose head, if it has one, has delta 0; the
\* head is gone only if it was removed with nothing behind it.
LEMMA RemoveIndexHead ==
    ASSUME NEW ct \in Arrays, NEW i \in Slots
    PROVE  /\ RemoveIndex(ct, i) \in Arrays
           /\ RemoveIndex(ct, i)[0].time \in {-1, 0}
           /\ i = 0 => (RemoveIndex(ct, 0)[0].time = -1 <=> ct[1].time = -1)
           /\ i # 0 => (RemoveIndex(ct, i)[0].time = -1 <=> ct[0].time = -1)
<1> DEFINE last == LastFrom(ct, i)
           shifted == ShiftDown(ct, i, last)
           ended == [shifted EXCEPT ![last].time = -1]
<1>1. /\ last \in i .. ConnCount - 1
      /\ last # ConnCount - 1 => ct[last + 1].time = -1
      /\ \A k \in i .. last - 1 : ct[k + 1].time # -1
  BY LastFromBounds
<1>2. /\ 0 \in Slots /\ 1 \in Slots /\ last \in Slots
      /\ \A k \in i .. last - 1 : k + 1 \in Slots
  BY <1>1, ConnCountAssumption DEF Slots
<1> HIDE DEF last
<1>3. shifted \in Arrays
  BY <1>2 DEF ShiftDown, Arrays
<1>4. ended \in Arrays
  BY <1>2, <1>3 DEF Arrays
<1>5. RemoveIndex(ct, i) = HeadZeroed(ended)
  BY DEF RemoveIndex, last
<1>6. HeadZeroed(ended) \in Arrays
  BY <1>2, <1>4 DEF HeadZeroed, Arrays
<1>7. HeadZeroed(ended)[0].time = IF ended[0].time = -1 THEN -1 ELSE 0
  BY <1>2, <1>4 DEF HeadZeroed, Arrays
<1>8. ended[0].time = IF last = 0 THEN -1 ELSE shifted[0].time
  BY <1>2, <1>3 DEF Arrays
<1>9. shifted[0] = IF 0 \in i .. last - 1 THEN ct[1] ELSE ct[0]
  BY <1>2 DEF ShiftDown
<1>10. i = 0 => (ended[0].time = -1 <=> ct[1].time = -1)
  BY <1>1, <1>8, <1>9, ConnCountAssumption
<1>11. i # 0 => (ended[0].time = -1 <=> ct[0].time = -1)
  BY <1>1, <1>8, <1>9, ConnCountAssumption DEF Slots
<1> QED
  BY <1>5, <1>6, <1>7, <1>10, <1>11

-----------------------------------------------------------------------------
(* Sums of deltas *)

\* f satisfies the recursion of Combined up to n
IsSum(f, ct, n) ==
    f = [k \in 0 .. n |-> IF k = 0 THEN 0 ELSE f[k - 1] + ct[k - 1].time]

\* There is a function that satisfies the recursion of Combined, for lists of
\* any length.
LEMMA SumExists ==
    ASSUME NEW ct \in Arrays
    PROVE  \E f : IsSum(f, ct, ConnCount)
<1> DEFINE S == {n \in 0 .. ConnCount : \E f : IsSum(f, ct, n)}
<1>1. 0 \in S
  <2>1. IsSum([k \in 0 .. 0 |-> 0], ct, 0)
    BY DEF IsSum
  <2> QED
    BY <2>1, ConnCountAssumption
<1>2. ASSUME NEW n \in 0 .. ConnCount - 1, n \in S
      PROVE  n + 1 \in S
  <2>1. PICK f : IsSum(f, ct, n)
    BY <1>2
  <2> DEFINE g == [k \in 0 .. n + 1 |->
                      IF k = n + 1 THEN f[n] + ct[n].time ELSE f[k]]
  <2>2. \A k \in 0 .. n : f[k] = IF k = 0 THEN 0 ELSE f[k - 1] + ct[k - 1].time
    BY <2>1 DEF IsSum
  <2>3. \A k \in 0 .. n + 1 :
            g[k] = IF k = 0 THEN 0 ELSE g[k - 1] + ct[k - 1].time
    BY <2>2
  <2>4. IsSum(g, ct, n + 1)
    BY <2>3 DEF IsSum
  <2> QED
    BY <2>4, ConnCountAssumption
<1> HIDE DEF S
<1>3. 0 .. ConnCount \subseteq S
  BY <1>1, <1>2, UpTo, ConnCountAssumption
<1>4. ConnCount \in S
  BY <1>3, ConnCountAssumption
<1> QED
  BY <1>4 DEF S

\* Combined is the sum that the loop of timer_add builds: 0 at first, and one
\* delta more with each turn.
LEMMA CombinedStep ==
    ASSUME NEW ct \in Arrays
    PROVE  /\ Combined(ct, 0) = 0
           /\ \A n \in 1 .. ConnCount :
                  Combined(ct, n) = Combined(ct, n - 1) + ct[n - 1].time
<1> DEFINE F == CHOOSE f : IsSum(f, ct, ConnCount)
<1>1. IsSum(F, ct, ConnCount)
  BY SumExists
<1>2. \A n : Combined(ct, n) = F[n]
  BY DEF Combined, IsSum
<1> HIDE DEF F
<1>3. \A k \in 0 .. ConnCount : F[k] = IF k = 0 THEN 0 ELSE F[k - 1] + ct[k - 1].time
  BY <1>1 DEF IsSum
<1>4. F[0] = 0 /\ \A k \in 1 .. ConnCount : F[k] = F[k - 1] + ct[k - 1].time
  BY <1>3, ConnCountAssumption
<1> QED
  BY <1>2, <1>4

\* The sum of deltas is a number.
LEMMA CombinedInt ==
    ASSUME NEW ct \in Arrays
    PROVE  \A n \in 0 .. ConnCount : Combined(ct, n) \in Int
<1> DEFINE S == {n \in Nat : Combined(ct, n) \in Int}
<1>1. 0 \in S
  BY CombinedStep
<1>2. ASSUME NEW n \in 0 .. ConnCount - 1, n \in S
      PROVE  n + 1 \in S
  <2>1. Combined(ct, n + 1) = Combined(ct, n) + ct[n].time
    <3>1. n + 1 \in 1 .. ConnCount /\ (n + 1) - 1 = n
      BY ConnCountAssumption
    <3> QED
      BY <3>1, CombinedStep
  <2>2. ct[n].time \in Int
    BY ConnCountAssumption DEF Arrays, Slots
  <2> QED
    BY <1>2, <2>1, <2>2
<1> HIDE DEF S
<1>3. 0 .. ConnCount \subseteq S
  BY <1>1, <1>2, UpTo, ConnCountAssumption
<1> QED
  BY <1>3 DEF S

-----------------------------------------------------------------------------
(* One timer, one head *)

Inv == TypeOK /\ TimerHasHead /\ (~created => rem = 0 /\ ~sigalrm) /\ "head" \notin failed

\* timer_add leaves the head alone, unless it is what it adds.
LEMMA AddedHead ==
    ASSUME NEW ct \in Arrays, NEW c \in Conns, NEW time \in Int,
           Used(ct) < ConnCount
    PROVE  /\ Added(ct, c, time) \in Arrays
           /\ ct[0].time = -1 => Added(ct, c, time)[0].time = 0
           /\ ct[0].time # -1 => Added(ct, c, time)[0] = ct[0]
<1>1. Used(ct) \in Slots /\ 0 \in Slots /\ (Used(ct) = 0 <=> ct[0].time = -1)
  BY UsedBounds, ConnCountAssumption DEF Slots
<1>2. Combined(ct, Used(ct)) \in Int
  BY UsedBounds, CombinedInt
<1>3. KeepAlive - (time + Combined(ct, Used(ct))) \in Int
  BY <1>2, TimeAssumption
<1>4. CASE Used(ct) = 0
  BY <1>1, <1>4 DEF Added, Arrays
<1>5. CASE Used(ct) # 0
  <2>1. Added(ct, c, time) =
            [ct EXCEPT ![Used(ct)] =
                [time |-> KeepAlive - (time + Combined(ct, Used(ct))), conn |-> c]]
    BY <1>5 DEF Added
  <2> QED
    BY <1>1, <1>3, <1>5, <2>1 DEF Arrays
<1> QED
  BY <1>4, <1>5

\* The untouched array satisfies the invariant.
LEMMA InitInv == Init => Inv
<1> SUFFICES ASSUME Init PROVE Inv
  OBVIOUS
<1>1. conn_timers \in [Slots -> [time : Int, conn : Conns]]
  <2>1. PICK c \in Conns : conn_timers = [i \in Slots |-> [time |-> 0, conn |-> c]]
    BY DEF Init
  <2> QED
    BY <2>1
<1> QED
  BY <1>1 DEF Init, Inv, TypeOK, TimerHasHead, Statuses, Assertions

\* No call, expiry or tick breaks the invariant.
LEMMA NextInv == Inv /\ [Next]_vars => Inv'
<1> SUFFICES ASSUME Inv, [Next]_vars
             PROVE  Inv'
  OBVIOUS
<1> USE ConnCountAssumption, TimeAssumption
<1>0. /\ conn_timers \in Arrays
      /\ 0 \in Slots /\ 1 \in Slots
      /\ rem \in Nat
      /\ GranulesPerMs \in Nat \ {0}
      /\ Gettime \in Nat
  BY DEF Inv, TypeOK, Arrays, Slots, Gettime
<1>1. CASE TimerInit
  <2>1. conn_timers' \in Arrays
    <3>1. CASE UNCHANGED conn_timers
      BY <1>0, <3>1
    <3>2. CASE conn_timers' = [i \in Slots |-> [time |-> -1, conn |-> conn_timers[i].conn]]
      <4>1. \A i \in Slots : conn_timers[i].conn \in Conns
        BY <1>0 DEF Arrays
      <4> QED
        BY <3>2, <4>1 DEF Arrays
    <3> QED
      BY <1>1, <3>1, <3>2 DEF TimerInit
  <2>2. created' => conn_timers'[0].time = -1
    <3>1. created' = created \/ conn_timers' =
              [i \in Slots |-> [time |-> -1, conn |-> conn_timers[i].conn]]
      BY <1>1 DEF TimerInit
    <3>2. ~created
      BY <1>1 DEF TimerInit
    <3>3. created' = created => ~created'
      BY <3>2 DEF Inv, TypeOK
    <3>4. ASSUME conn_timers' =
              [i \in Slots |-> [time |-> -1, conn |-> conn_timers[i].conn]]
          PROVE  conn_timers'[0].time = -1
      BY <1>0, <3>4
    <3> QED
      BY <3>1, <3>3, <3>4, Zenon
  <2>3. /\ created' \in BOOLEAN /\ status' \in Statuses
        /\ UNCHANGED <<rem, sigalrm, failed>> /\ rem = 0 /\ ~sigalrm
    BY <1>1 DEF TimerInit, Inv, TypeOK, Statuses
  <2> QED
    BY <2>1, <2>2, <2>3 DEF Inv, TypeOK, TimerHasHead, Arrays
<1>2. CASE TimerDeinit
  BY <1>0, <1>2 DEF TimerDeinit, Running, Inv, TypeOK, TimerHasHead
<1>3. ASSUME NEW c \in Conns, StartFull
      PROVE  Inv'
  BY <1>0, <1>3 DEF StartFull, Running, Inv, TypeOK, TimerHasHead, Valid, Statuses
<1>4. ASSUME NEW c \in Conns, StartRoom(c)
      PROVE  Inv'
  <2> DEFINE time == IF conn_timers[0].time # -1 THEN Gettime ELSE 0
  <2>1. time \in Int
    BY <1>0
  <2>2. /\ conn_timers' \in Arrays
        /\ conn_timers[0].time = -1 => conn_timers'[0].time = 0
        /\ conn_timers[0].time # -1 => conn_timers'[0] = conn_timers[0]
    BY <1>0, <1>4, <2>1, AddedHead DEF StartRoom
  <2>3. rem' \in Nat
    BY <1>0, <1>4 DEF StartRoom
  <2> QED
    BY <1>0, <1>4, <2>2, <2>3
       DEF StartRoom, Running, Inv, TypeOK, TimerHasHead, Valid, Statuses, Arrays
<1>5. ASSUME NEW c \in Conns, StopHead(c)
      PROVE  Inv'
  <2> DEFINE time == IF conn_timers[1].time # -1
                     THEN Gettime + conn_timers[1].time ELSE 0
  <2>1. time \in Int
    BY <1>0 DEF Arrays
  <2>2. /\ conn_timers' \in Arrays
        /\ conn_timers'[0].time \in {-1, 0}
        /\ conn_timers'[0].time = -1 <=> conn_timers[1].time = -1
    BY <1>0, <1>5, RemoveIndexHead DEF StopHead
  <2>3. rem' = ArmedFor(time) /\ failed' = failed \cup Refused(time)
    BY <1>5 DEF StopHead
  <2>4. rem' \in Nat /\ failed' \subseteq Assertions /\ "head" \notin failed'
    BY <1>0, <2>1, <2>3 DEF ArmedFor, Refused, Inv, TypeOK, Assertions
  <2>5. conn_timers[1].time = -1 => rem' = 0
    BY <1>0, <2>3 DEF ArmedFor
  <2> QED
    BY <1>0, <1>5, <2>2, <2>4, <2>5
       DEF StopHead, Running, Inv, TypeOK, TimerHasHead, Valid, Arrays
<1>6. ASSUME NEW c \in Conns, StopLater(c)
      PROVE  Inv'
  <2> DEFINE i == FindIndex(conn_timers, c)
             merged == IF Valid(conn_timers, i + 1)
                       THEN [conn_timers EXCEPT ![i + 1].time =
                                conn_timers[i + 1].time + conn_timers[i].time]
                       ELSE conn_timers
  <2>1. i \in Slots /\ i # 0
    BY <1>0, <1>6, FindIndexBounds, UsedBounds DEF StopLater, Valid, Slots
  <2>2. merged \in Arrays /\ merged[0] = conn_timers[0]
    <3>1. conn_timers[i].time \in Int
      BY <1>0, <2>1 DEF Arrays
    <3>2. CASE Valid(conn_timers, i + 1)
      <4>1. i + 1 \in Slots /\ i + 1 # 0 /\ conn_timers[i + 1].time \in Int
        BY <1>0, <2>1, <3>2 DEF Valid, Arrays, Slots
      <4> QED
        BY <1>0, <3>1, <3>2, <4>1 DEF Arrays
    <3>3. CASE ~Valid(conn_timers, i + 1)
      BY <1>0, <3>3
    <3> QED
      BY <3>2, <3>3
  <2>3. /\ RemoveIndex(merged, i) \in Arrays
        /\ RemoveIndex(merged, i)[0].time \in {-1, 0}
        /\ RemoveIndex(merged, i)[0].time = -1 <=> merged[0].time = -1
    BY <2>1, <2>2, RemoveIndexHead
  <2>4. conn_timers' = RemoveIndex(merged, i)
    BY <1>6 DEF StopLater
  <2> QED
    BY <1>0, <1>6, <2>2, <2>3, <2>4
       DEF StopLater, Running, Inv, TypeOK, TimerHasHead, Valid, Arrays
<1>7. CASE SignalHandler
  <2>1. /\ created /\ rem = 0 /\ Valid(conn_timers, 0)
    BY <1>7 DEF SignalHandler, Inv, TimerHasHead
  <2>2. /\ conn_timers' \in Arrays
        /\ conn_timers'[0].time \in {-1, 0}
        /\ conn_timers'[0].time = -1 <=> conn_timers[1].time = -1
    BY <1>0, <1>7, RemoveIndexHead DEF SignalHandler
  <2>3. /\ rem' = IF conn_timers[1].time # -1 THEN ArmedFor(conn_timers[1].time) ELSE 0
        /\ failed' = failed \cup (IF conn_timers[1].time # -1
                                  THEN Refused(conn_timers[1].time) ELSE {})
    BY <1>7, <2>1 DEF SignalHandler
  <2>4. rem' \in Nat /\ failed' \subseteq Assertions /\ "head" \notin failed'
    <3>1. conn_timers[1].time \in Int
      BY <1>0 DEF Arrays
    <3>2. ArmedFor(conn_timers[1].time) \in Nat
      BY <1>0, <3>1 DEF ArmedFor
    <3>3. Refused(conn_timers[1].time) \subseteq {"settime"}
      BY DEF Refused
    <3>4. rem' \in Nat
      BY <2>3, <3>2
    <3>5. failed' \subseteq failed \cup {"settime"}
      BY <2>3, <3>3
    <3> QED
      BY <3>4, <3>5 DEF Inv, TypeOK, Assertions
  <2>5. sigalrm' = FALSE /\ UNCHANGED <<created, status>>
    BY <1>7 DEF SignalHandler
  <2>6. rem' > 0 => Valid(conn_timers, 0)'
    BY <1>0, <2>2, <2>3 DEF Valid
  <2> QED
    BY <2>1, <2>2, <2>4, <2>5, <2>6 DEF Inv, TypeOK, TimerHasHead, Arrays
<1>8. CASE Tick
  BY <1>0, <1>8 DEF Tick, Inv, TypeOK, TimerHasHead, Valid
<1>9. CASE UNCHANGED vars
  BY <1>9 DEF vars, Inv, TypeOK, TimerHasHead, Valid
<1> QED
  BY <1>1, <1>2, <1>3, <1>4, <1>5, <1>6, <1>7, <1>8, <1>9
     DEF Next, TimerStart, TimerStop

\* Module Timer keeps its state well-typed: the array keeps its length, the
\* deltas stay integers and the running time never becomes negative.
THEOREM TypeCorrect == Spec => []TypeOK
<1>1. Inv => TypeOK
  BY DEF Inv
<1> QED
  BY InitInv, NextInv, <1>1, PTL DEF Spec

\* Whatever starts, stops and expiries came before, a timer that runs or has
\* just expired has an entry at the head of the list for the signal handler to
\* close, so the assertion keep_alive.c:19 cannot fail between calls.
THEOREM HandlerFindsHead == Spec => []TimerHasHead
<1>1. Inv => TimerHasHead
  BY DEF Inv
<1> QED
  BY InitInv, NextInv, <1>1, PTL DEF Spec
=============================================================================
