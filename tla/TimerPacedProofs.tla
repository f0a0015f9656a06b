-------------------------- MODULE TimerPacedProofs --------------------------
(***************************************************************************)
(* Theorems about module TimerPaced, for every number of connections, any  *)
(* keep-alive timeout, any resolution of the clock and any gap between two *)
(* starts of a millisecond or more.                                        *)
(***************************************************************************)
EXTENDS TimerPaced, TimerProofs, SequenceTheorems

-----------------------------------------------------------------------------
(* Sums of deltas of two arrays that agree, one shifted by off *)

\* Where the deltas of r from a on are those that ct has one place further
\* on, so are the sums of them.
LEMMA SumsShift ==
    ASSUME NEW ct \in Arrays, NEW r \in Arrays,
           NEW a \in Nat, NEW b \in Nat, a <= b, b < ConnCount,
           \A k \in a .. b - 1 : r[k].time = ct[k + 1].time
    PROVE  \A n \in a .. b :
               Combined(r, n) = Combined(r, a) + (Combined(ct, n + 1) - Combined(ct, a + 1))
<1> USE ConnCountAssumption
<1> DEFINE Shifted(n) ==
               Combined(r, n) = Combined(r, a) + (Combined(ct, n + 1) - Combined(ct, a + 1))
           S == {j \in Nat : Shifted(a + j)}
<1>0. \A n \in a .. b : Combined(r, n) \in Int /\ Combined(ct, n + 1) \in Int
  BY CombinedInt
<1>1. 0 \in S
  <2>1. a \in a .. b /\ a + 0 = a
    OBVIOUS
  <2> QED
    BY <1>0, <2>1
<1>2. ASSUME NEW j \in 0 .. (b - a) - 1, j \in S
      PROVE  j + 1 \in S
  <2> DEFINE n == a + j
  <2>1. n \in a .. b - 1 /\ n \in a .. b /\ n + 1 \in a .. b /\ a \in a .. b
        /\ a + (j + 1) = n + 1
    OBVIOUS
  <2>2. Shifted(n)
    BY <1>2
  <2> HIDE DEF n
  <2>3. Combined(r, n + 1) = Combined(r, n) + r[n].time
    <3>1. n + 1 \in 1 .. ConnCount /\ (n + 1) - 1 = n
      BY <2>1
    <3> QED
      BY <3>1, CombinedStep
  <2>4. Combined(ct, (n + 1) + 1) = Combined(ct, n + 1) + ct[n + 1].time
    <3>1. (n + 1) + 1 \in 1 .. ConnCount /\ ((n + 1) + 1) - 1 = n + 1
      BY <2>1
    <3> QED
      BY <3>1, CombinedStep
  <2>5. r[n].time = ct[n + 1].time /\ ct[n + 1].time \in Int
    <3>1. n + 1 \in Slots
      BY <2>1 DEF Slots
    <3> QED
      BY <2>1, <3>1 DEF Arrays
  <2>6. Shifted(n + 1)
    BY <1>0, <2>1, <2>2, <2>3, <2>4, <2>5
  <2> QED
    BY <2>1, <2>6
<1> HIDE DEF S
<1>3. 0 .. b - a \subseteq S
  BY <1>1, <1>2, UpTo
<1>4. ASSUME NEW n \in a .. b
      PROVE  Shifted(n)
  <2>1. n - a \in S /\ a + (n - a) = n
    BY <1>3
  <2> QED
    BY <2>1 DEF S
<1> QED
  BY <1>4

\* The sums of a list whose head has left, the next entry's delta zeroed.
LEMMA SumsBehindHead ==
    ASSUME NEW ct \in Arrays, NEW q \in Arrays, NEW n \in 2 .. ConnCount,
           ct[0].time = 0, q[0].time = 0,
           \A k \in 1 .. n - 2 : q[k].time = ct[k + 1].time
    PROVE  \A m \in 1 .. n - 1 : Combined(q, m) = Combined(ct, m + 1) - ct[1].time
<1> USE ConnCountAssumption
<1>1. ct[1].time \in Int
  BY DEF Arrays, Slots
<1>2. Combined(q, 1) = 0 /\ Combined(ct, 2) = ct[1].time
  <2>1. 1 \in 1 .. ConnCount /\ 2 \in 1 .. ConnCount /\ 1 - 1 = 0 /\ 2 - 1 = 1
    OBVIOUS
  <2>2. Combined(q, 0) = 0 /\ Combined(q, 1) = Combined(q, 0) + q[0].time
    BY <2>1, CombinedStep
  <2>3. Combined(ct, 0) = 0 /\ Combined(ct, 1) = Combined(ct, 0) + ct[0].time
    BY <2>1, CombinedStep
  <2>4. Combined(ct, 2) = Combined(ct, 1) + ct[1].time
    BY <2>1, CombinedStep
  <2> QED
    BY <1>1, <2>2, <2>3, <2>4
<1>3. \A m \in 1 .. n - 1 :
          Combined(q, m) = Combined(q, 1) + (Combined(ct, m + 1) - Combined(ct, 1 + 1))
  <2> DEFINE b == n - 1
  <2>1. /\ 1 <= b /\ b < ConnCount /\ b \in Nat /\ 1 \in Nat
        /\ \A k \in 1 .. b - 1 : q[k].time = ct[k + 1].time
    OBVIOUS
  <2> HIDE DEF b
  <2>2. \A m \in 1 .. b :
          Combined(q, m) = Combined(q, 1) + (Combined(ct, m + 1) - Combined(ct, 1 + 1))
    BY <2>1, SumsShift
  <2> QED
    BY <2>2 DEF b
<1>4. \A m \in 1 .. n - 1 : Combined(ct, m + 1) \in Int
  BY CombinedInt
<1> QED
  BY <1>1, <1>2, <1>3, <1>4

\* Arrays with the same first deltas have the same first sums.
LEMMA SumsPrefix ==
    ASSUME NEW ct \in Arrays, NEW r \in Arrays, NEW n \in 0 .. ConnCount,
           \A k \in 0 .. n - 1 : r[k].time = ct[k].time
    PROVE  \A m \in 0 .. n : Combined(r, m) = Combined(ct, m)
<1> USE ConnCountAssumption
<1> DEFINE S == {m \in Nat : Combined(r, m) = Combined(ct, m)}
<1>1. 0 \in S
  BY CombinedStep
<1>2. ASSUME NEW m \in 0 .. n - 1, m \in S
      PROVE  m + 1 \in S
  <2>1. m + 1 \in 1 .. ConnCount /\ (m + 1) - 1 = m
    OBVIOUS
  <2>2. /\ Combined(r, m + 1) = Combined(r, m) + r[m].time
        /\ Combined(ct, m + 1) = Combined(ct, m) + ct[m].time
    BY <2>1, CombinedStep
  <2> QED
    BY <1>2, <2>2
<1> HIDE DEF S
<1>3. 0 .. n \subseteq S
  BY <1>1, <1>2, UpTo
<1> QED
  BY <1>3 DEF S

\* Sums of deltas that are not negative grow.
LEMMA SumsGrow ==
    ASSUME NEW ct \in Arrays, NEW m \in 0 .. ConnCount,
           \A k \in 0 .. m - 1 : ct[k].time >= 0,
           NEW i \in 0 .. m
    PROVE  /\ Combined(ct, i) >= 0
           /\ Combined(ct, i) <= Combined(ct, m)
<1> USE ConnCountAssumption
<1> DEFINE S == {j \in Nat : Combined(ct, j) >= 0}
           T == {j \in Nat : Combined(ct, i) <= Combined(ct, i + j)}
<1>0. ASSUME NEW j \in 0 .. m - 1
      PROVE  /\ Combined(ct, j + 1) >= Combined(ct, j)
             /\ Combined(ct, j) \in Int /\ Combined(ct, j + 1) \in Int
  <2>1. j + 1 \in 1 .. ConnCount /\ (j + 1) - 1 = j
    OBVIOUS
  <2>2. Combined(ct, j + 1) = Combined(ct, j) + ct[j].time
    BY <2>1, CombinedStep
  <2>3. Combined(ct, j) \in Int /\ ct[j].time \in Int /\ ct[j].time >= 0
    BY CombinedInt DEF Arrays, Slots
  <2> QED
    BY <2>2, <2>3
<1>1. 0 .. m \subseteq S
  <2>1. 0 \in S
    BY CombinedStep
  <2>2. ASSUME NEW j \in 0 .. m - 1, j \in S
        PROVE  j + 1 \in S
    BY <1>0, <2>2
  <2> HIDE DEF S
  <2> QED
    BY <2>1, <2>2, UpTo
<1>2. 0 .. m - i \subseteq T
  <2>1. 0 \in T
    BY CombinedInt
  <2>2. ASSUME NEW j \in 0 .. (m - i) - 1, j \in T
        PROVE  j + 1 \in T
    <3>1. i + j \in 0 .. m - 1 /\ i + (j + 1) = (i + j) + 1
      OBVIOUS
    <3>2. /\ Combined(ct, (i + j) + 1) >= Combined(ct, i + j)
          /\ Combined(ct, i + j) \in Int /\ Combined(ct, (i + j) + 1) \in Int
      BY <1>0, <3>1
    <3>3. Combined(ct, i) \in Int /\ Combined(ct, i) <= Combined(ct, i + j)
      BY <2>2, CombinedInt
    <3>4. Combined(ct, i) <= Combined(ct, i + (j + 1))
      BY <3>1, <3>2, <3>3
    <3> QED
      BY <3>4
  <2> HIDE DEF T
  <2> QED
    BY <2>1, <2>2, UpTo
<1>3. i \in S
  BY <1>1
<1>4. m - i \in T /\ i + (m - i) = m
  BY <1>2
<1> QED
  BY <1>3, <1>4

-----------------------------------------------------------------------------
(* Entries that come and go *)

\* Where the list ends: all before it valid, it is not.
LEMMA UsedIs ==
    ASSUME NEW ct \in Arrays, NEW n \in 0 .. ConnCount,
           \A k \in 0 .. n - 1 : ct[k].time # -1,
           n < ConnCount => ct[n].time = -1
    PROVE  Used(ct) = n
<1> USE ConnCountAssumption
<1>1. /\ Used(ct) \in 0 .. ConnCount
      /\ \A i \in Slots : i < Used(ct) => ct[i].time # -1
      /\ Used(ct) < ConnCount => ct[Used(ct)].time = -1
  BY UsedBounds
<1>2. ~(Used(ct) < n)
  BY <1>1
<1>3. ~(n < Used(ct))
  BY <1>1 DEF Slots
<1> QED
  BY <1>1, <1>2, <1>3

\* The shift of RemoveIndex ends on the last entry of the list.
LEMMA LastFromUsed ==
    ASSUME NEW ct \in Arrays, NEW i \in 0 .. Used(ct) - 1
    PROVE  LastFrom(ct, i) = Used(ct) - 1
<1> USE ConnCountAssumption
<1>1. /\ Used(ct) \in 0 .. ConnCount
      /\ \A k \in Slots : k < Used(ct) => ct[k].time # -1
      /\ Used(ct) < ConnCount => ct[Used(ct)].time = -1
  BY UsedBounds
<1>2. i \in Slots
  BY <1>1 DEF Slots
<1>3. /\ LastFrom(ct, i) \in i .. ConnCount - 1
      /\ LastFrom(ct, i) # ConnCount - 1 => ct[LastFrom(ct, i) + 1].time = -1
      /\ \A k \in i .. LastFrom(ct, i) - 1 : ct[k + 1].time # -1
  BY <1>2, LastFromBounds
<1>4. ~(LastFrom(ct, i) < Used(ct) - 1)
  <2>1. SUFFICES ASSUME LastFrom(ct, i) < Used(ct) - 1
                 PROVE  FALSE
    OBVIOUS
  <2>2. LastFrom(ct, i) # ConnCount - 1 /\ LastFrom(ct, i) + 1 \in Slots
        /\ LastFrom(ct, i) + 1 < Used(ct)
    BY <1>1, <1>3, <2>1 DEF Slots
  <2> QED
    BY <1>1, <1>3, <2>2
<1>5. ~(LastFrom(ct, i) > Used(ct) - 1)
  <2>1. SUFFICES ASSUME LastFrom(ct, i) > Used(ct) - 1
                 PROVE  FALSE
    OBVIOUS
  <2>2. Used(ct) - 1 \in i .. LastFrom(ct, i) - 1 /\ Used(ct) < ConnCount
        /\ (Used(ct) - 1) + 1 = Used(ct)
    BY <1>1, <1>3, <2>1
  <2> QED
    BY <1>1, <1>3, <2>2
<1> QED
  BY <1>1, <1>3, <1>4, <1>5

\* What RemoveIndex leaves: the entries behind i move up by one, with their
\* deltas, except that the delta of a head is 0.
LEMMA RemoveIndexEntries ==
    ASSUME NEW ct \in Arrays, NEW i \in 0 .. Used(ct) - 1,
           \A k \in Slots : k >= Used(ct) => ct[k].time = -1
    PROVE  /\ RemoveIndex(ct, i) \in Arrays
           /\ Used(RemoveIndex(ct, i)) = Used(ct) - 1
           /\ \A k \in 0 .. Used(ct) - 2 :
                /\ RemoveIndex(ct, i)[k].conn = IF k < i THEN ct[k].conn ELSE ct[k + 1].conn
                /\ RemoveIndex(ct, i)[k].time =
                     IF k = 0 THEN 0 ELSE IF k < i THEN ct[k].time ELSE ct[k + 1].time
           /\ \A k \in Slots : k >= Used(ct) - 1 => RemoveIndex(ct, i)[k].time = -1
<1> USE ConnCountAssumption
<1> DEFINE n == Used(ct)
           shifted == ShiftDown(ct, i, n - 1)
           ended == [shifted EXCEPT ![n - 1].time = -1]
<1>1. /\ n \in 1 .. ConnCount /\ i \in Slots /\ n - 1 \in Slots /\ 0 \in Slots
      /\ \A k \in Slots : k < n => ct[k].time # -1
  BY UsedBounds DEF Slots
<1>2. RemoveIndex(ct, i) = HeadZeroed(ended)
  BY LastFromUsed DEF RemoveIndex
<1> HIDE DEF n
<1>3. shifted \in Arrays
  <2>1. \A k \in i .. n - 2 : k + 1 \in Slots
    BY <1>1 DEF Slots
  <2> QED
    BY <1>1, <2>1 DEF ShiftDown, Arrays
<1>4. /\ \A k \in 0 .. n - 2 : shifted[k] = IF k < i THEN ct[k] ELSE ct[k + 1]
      /\ \A k \in Slots : k >= n => shifted[k] = ct[k]
  BY <1>1 DEF ShiftDown, Slots
<1> HIDE DEF shifted
<1>5. /\ ended \in Arrays /\ ended[n - 1].time = -1
      /\ \A k \in Slots : k # n - 1 => ended[k] = shifted[k]
  BY <1>1, <1>3 DEF Arrays
<1> HIDE DEF ended
<1>6. \A k \in 0 .. n - 2 : k \in Slots /\ k # n - 1 /\ ended[k] = IF k < i THEN ct[k] ELSE ct[k + 1]
  BY <1>1, <1>4, <1>5 DEF Slots
<1>7. \A k \in 0 .. n - 2 : ended[k].time # -1
  BY <1>1, <1>6 DEF Slots
<1>8. HeadZeroed(ended) \in Arrays
  BY <1>1, <1>5 DEF HeadZeroed, Arrays
<1>9. /\ \A k \in Slots : k # 0 => HeadZeroed(ended)[k] = ended[k]
      /\ HeadZeroed(ended)[0].conn = ended[0].conn
      /\ HeadZeroed(ended)[0].time = IF ended[0].time = -1 THEN -1 ELSE 0
  BY <1>1, <1>5 DEF HeadZeroed, Arrays
<1>10. \A k \in Slots : k >= n - 1 => HeadZeroed(ended)[k].time = -1
  <2> TAKE k \in Slots
  <2>1. CASE k = n - 1
    BY <1>1, <1>5, <1>9, <2>1
  <2>2. CASE k >= n
    <3>1. k # 0 /\ k # n - 1
      BY <1>1, <2>2 DEF Slots
    <3> QED
      BY <1>1, <1>4, <1>5, <1>9, <2>2, <3>1 DEF n
  <2> QED
    BY <1>1, <2>1, <2>2 DEF Slots
<1>11. \A k \in 0 .. n - 2 :
          /\ HeadZeroed(ended)[k].conn = IF k < i THEN ct[k].conn ELSE ct[k + 1].conn
          /\ HeadZeroed(ended)[k].time =
               IF k = 0 THEN 0 ELSE IF k < i THEN ct[k].time ELSE ct[k + 1].time
  BY <1>1, <1>6, <1>7, <1>9
<1>12. Used(HeadZeroed(ended)) = n - 1
  <2>1. \A k \in 0 .. (n - 1) - 1 : HeadZeroed(ended)[k].time # -1
    BY <1>1, <1>6, <1>7, <1>9
  <2>2. n - 1 < ConnCount /\ n - 1 \in 0 .. ConnCount /\ HeadZeroed(ended)[n - 1].time = -1
    BY <1>1, <1>10
  <2> QED
    BY <1>8, <2>1, <2>2, UsedIs
<1> QED
  BY <1>2, <1>8, <1>10, <1>11, <1>12 DEF n

-----------------------------------------------------------------------------
(* Granules and milliseconds *)

\* A millisecond has GranulesPerMs granules, so products distribute and
\* compare as numbers of milliseconds do.
LEMMA Millis ==
    ASSUME NEW a \in Int, NEW b \in Int
    PROVE  /\ GranulesPerMs * a \in Int
           /\ GranulesPerMs * (a + b) = GranulesPerMs * a + GranulesPerMs * b
           /\ GranulesPerMs * (a - b) = GranulesPerMs * a - GranulesPerMs * b
           /\ a >= 1 => GranulesPerMs * a >= GranulesPerMs
           /\ a >= 0 => GranulesPerMs * a >= 0
           /\ GranulesPerMs * a < GranulesPerMs * b => a < b
           /\ a * GranulesPerMs = GranulesPerMs * a
<1>1. GranulesPerMs \in Nat /\ GranulesPerMs >= 1
  BY TimeAssumption
<1> DEFINE G == GranulesPerMs
<1> HIDE DEF G
<1>2. G \in Nat /\ G >= 1
  BY <1>1 DEF G
<1>3. G * a \in Int /\ G * b \in Int /\ a * G = G * a
  BY <1>2
<1>4. G * (a + b) = G * a + G * b /\ G * (a - b) = G * a - G * b
  BY <1>2
<1>5. a >= 1 => G * a >= G
  BY <1>2
<1>6. a >= 0 => G * a >= 0
  BY <1>2
<1>7. G * a < G * b => a < b
  <2>1. a >= b => G * (a - b) >= 0
    BY <1>2
  <2> QED
    BY <1>3, <1>4, <2>1
<1> QED
  BY <1>3, <1>4, <1>5, <1>6, <1>7 DEF G

\* The keep-alive timeout in granules, and what a reading of it may miss.
LEMMA PeriodFacts ==
    /\ Period \in Int /\ Period >= 1 /\ Period = GranulesPerMs * KeepAlive
    /\ Slack \in Int /\ Slack >= 0 /\ Slack = GranulesPerMs - 1
<1>1. GranulesPerMs \in Int /\ GranulesPerMs >= 1 /\ KeepAlive \in Int /\ KeepAlive >= 1
  BY TimeAssumption
<1> DEFINE p == GranulesPerMs * KeepAlive
<1>2. p \in Int /\ p >= GranulesPerMs /\ KeepAlive * GranulesPerMs = p
  BY <1>1, Millis
<1> HIDE DEF p
<1>3. Period = p
  BY <1>2 DEF Period
<1>4. Slack = GranulesPerMs - 1
  BY DEF Slack
<1> QED
  BY <1>1, <1>2, <1>3, <1>4 DEF p

\* What reading the running timer in whole milliseconds drops.
LEMMA Rounded ==
    ASSUME NEW r \in Nat
    PROVE  /\ r \div GranulesPerMs \in Nat
           /\ r - GranulesPerMs * (r \div GranulesPerMs) \in 0 .. Slack
<1>1. GranulesPerMs \in Nat /\ GranulesPerMs >= 1
  BY TimeAssumption
<1> QED
  BY <1>1 DEF Slack

-----------------------------------------------------------------------------
(* The list, the running timer and the windows belong together *)

Windows == [Slots -> [from : Int, to : Int]]

\* granules until entry i of ct fires, when the timer has r to go
ExpiryOf(ct, r, i) == r + GranulesPerMs * Combined(ct, i + 1)

\* Nothing but -1 lies behind the list, every delta but the head's is a
\* millisecond or more, every entry fires in its window, and no window ends
\* later than that of an entry started g granules ago.
OnChain(ct, w, r, g) ==
    /\ \A k \in Slots : k >= Used(ct) => ct[k].time = -1
    /\ \A k \in 1 .. Used(ct) - 1 : ct[k].time >= 1
    /\ Used(ct) > 0 => ct[0].time = 0
    /\ \A i \in 0 .. Used(ct) - 1 :
           /\ ExpiryOf(ct, r, i) \in w[i].from .. w[i].to
           /\ w[i].to <= Period + Slack - g

\* no delta is longer than the keep-alive timeout
Short(ct) == \A i \in Slots : ct[i].time \in -1 .. KeepAlive

\* The deltas before the end of the list are not negative.
LEMMA ChainSums ==
    ASSUME NEW ct \in Arrays, NEW w, NEW r, NEW g, OnChain(ct, w, r, g),
           NEW i \in 0 .. Used(ct)
    PROVE  /\ i \in 0 .. ConnCount
           /\ Combined(ct, i) \in Int
           /\ Combined(ct, i) >= 0
           /\ GranulesPerMs * Combined(ct, i) \in Int
           /\ GranulesPerMs * Combined(ct, i) >= 0
<1> USE ConnCountAssumption
<1>1. Used(ct) \in 0 .. ConnCount
  BY UsedBounds
<1>2. \A k \in 0 .. Used(ct) - 1 : ct[k].time >= 0
  <2> TAKE k \in 0 .. Used(ct) - 1
  <2>1. CASE k = 0
    BY <1>1, <2>1 DEF OnChain
  <2>2. CASE k # 0
    <3>1. k \in 1 .. Used(ct) - 1
      BY <1>1, <2>2
    <3>2. ct[k].time >= 1 /\ ct[k].time \in Int
      BY <1>1, <3>1 DEF OnChain, Arrays, Slots
    <3> QED
      BY <3>2
  <2> QED
    BY <2>1, <2>2
<1>3. Combined(ct, i) >= 0 /\ Combined(ct, i) \in Int
  BY <1>1, <1>2, SumsGrow, CombinedInt
<1>4. GranulesPerMs * Combined(ct, i) \in Int /\ GranulesPerMs * Combined(ct, i) >= 0
  <2> DEFINE s == Combined(ct, i)
  <2>1. s \in Int /\ s >= 0
    BY <1>3
  <2> HIDE DEF s
  <2>2. GranulesPerMs * s \in Int /\ GranulesPerMs * s >= 0
    BY <2>1, Millis
  <2> QED
    BY <2>2 DEF s
<1> QED
  BY <1>1, <1>3, <1>4

\* what shttp_timer_start reads off the running timer, and what it then has
TimeLeft(ct, r) == IF Used(ct) = 0 THEN 0 ELSE r \div GranulesPerMs
RemStarted(ct, r) == IF TimeLeft(ct, r) = 0 THEN Period ELSE r

\* timer_add on a list with room: the entry goes behind the others with a
\* delta of a millisecond or more, and fires in its window.
LEMMA ChainAdded ==
    ASSUME NEW ct \in Arrays, NEW w \in Windows, NEW r \in Nat, NEW c \in Conns,
           OnChain(ct, w, r, MinGap), Short(ct), Used(ct) < ConnCount,
           Used(ct) = 0 => r = 0,
           Used(ct) > 0 => r \div GranulesPerMs > 0,
           NEW w2 \in Windows,
           w2[Used(ct)] = [from |-> Period, to |-> Period + Slack],
           \A k \in Slots : k # Used(ct) => w2[k] = w[k]
    PROVE  /\ Used(Added(ct, c, TimeLeft(ct, r))) = Used(ct) + 1
           /\ Added(ct, c, TimeLeft(ct, r))[Used(ct)].conn = c
           /\ \A k \in Slots : k # Used(ct) => Added(ct, c, TimeLeft(ct, r))[k] = ct[k]
           /\ Short(Added(ct, c, TimeLeft(ct, r)))
           /\ OnChain(Added(ct, c, TimeLeft(ct, r)), w2, RemStarted(ct, r), 0)
<1> USE ConnCountAssumption, TimeAssumption, GapAssumption
<1> DEFINE time == TimeLeft(ct, r)
           r2 == RemStarted(ct, r)
<1>0. /\ time = IF Used(ct) = 0 THEN 0 ELSE r \div GranulesPerMs
      /\ r2 = IF time = 0 THEN Period ELSE r
  BY DEF TimeLeft, RemStarted
<1> HIDE DEF time, r2
<1> USE <1>0
<1> DEFINE n == Used(ct)
           a == Added(ct, c, time)
           delta == IF n = 0 THEN 0 ELSE KeepAlive - (time + Combined(ct, n))
<1>1. /\ n \in 0 .. ConnCount - 1 /\ n \in Slots
      /\ \A k \in Slots : k < n => ct[k].time # -1
  BY UsedBounds DEF Slots
<1>2. /\ Period \in Int /\ Slack \in Int /\ Slack >= 0 /\ Slack = GranulesPerMs - 1
      /\ Period >= 1 /\ Period = GranulesPerMs * KeepAlive
  BY PeriodFacts
<1>3. time \in Nat /\ (n > 0 => time >= 1 /\ r2 = r) /\ (n = 0 => time = 0 /\ r2 = Period)
  BY <1>1, Rounded
<1>4. Combined(ct, n) \in Int /\ Combined(ct, n) >= 0
  BY <1>1, ChainSums
<1>5. delta \in 0 .. KeepAlive /\ (n > 0 => delta >= 1)
  <2>1. ASSUME n > 0 PROVE time + Combined(ct, n) < KeepAlive
    <3>1. n - 1 \in 0 .. n - 1 /\ (n - 1) + 1 = n
      BY <1>1, <2>1
    <3>2. /\ r + GranulesPerMs * Combined(ct, n) \in w[n - 1].from .. w[n - 1].to
          /\ w[n - 1].to <= Period + Slack - MinGap
      BY <3>1 DEF OnChain, ExpiryOf
    <3>3. w[n - 1].to \in Int /\ w[n - 1].from \in Int
      <4>1. n - 1 \in Slots
        BY <1>1, <3>1 DEF Slots
      <4>2. w[n - 1] \in [from : Int, to : Int]
        BY <4>1 DEF Windows
      <4> QED
        BY <4>2
    <3>4. GranulesPerMs * Combined(ct, n) \in Int
      BY <1>4, Millis
    <3>5. GranulesPerMs * Combined(ct, n) + r <= Period + Slack - MinGap
      BY <1>2, <3>2, <3>3, <3>4
    <3>6. r >= GranulesPerMs * time /\ GranulesPerMs * time \in Int
      <4>1. time = r \div GranulesPerMs
        BY <1>1, <2>1
      <4>2. r - GranulesPerMs * time \in 0 .. Slack
        BY <4>1, Rounded
      <4>3. GranulesPerMs * time \in Int
        BY <1>3, Millis
      <4> QED
        BY <1>2, <4>2, <4>3
    <3>7. GranulesPerMs * (time + Combined(ct, n)) =
              GranulesPerMs * time + GranulesPerMs * Combined(ct, n)
      <4>1. time \in Int /\ Combined(ct, n) \in Int
        BY <1>3, <1>4
      <4> QED
        BY <4>1, Millis, Zenon
    <3>8. GranulesPerMs * (time + Combined(ct, n)) < GranulesPerMs * KeepAlive
      <4>1. r \in Int /\ MinGap \in Int /\ Slack - MinGap < 0
        BY <1>2
      <4>2. GranulesPerMs * time + GranulesPerMs * Combined(ct, n) < Period
        BY <1>2, <3>4, <3>5, <3>6, <4>1
      <4> QED
        BY <1>2, <3>7, <4>2
    <3>9. time + Combined(ct, n) \in Int
      BY <1>3, <1>4
    <3> QED
      BY <3>8, <3>9, Millis
  <2> QED
    BY <1>1, <1>3, <1>4, <2>1
<1>15. n # 0 => delta = KeepAlive - (time + Combined(ct, n))
  OBVIOUS
<1>6. a = [ct EXCEPT ![n] = [time |-> delta, conn |-> c]]
  <2>1. CASE n = 0
    BY <2>1 DEF Added
  <2>2. CASE n # 0
    BY <2>2 DEF Added
  <2> QED
    BY <2>1, <2>2
<1> HIDE DEF delta, a
<1>7. /\ a \in Arrays /\ a[n].time = delta /\ a[n].conn = c
      /\ \A k \in Slots : k # n => a[k] = ct[k]
  BY <1>1, <1>5, <1>6 DEF Arrays
<1>8. Used(a) = n + 1
  <2>1. \A k \in 0 .. (n + 1) - 1 : a[k].time # -1
    BY <1>1, <1>5, <1>7 DEF Slots
  <2>2. n + 1 \in 0 .. ConnCount
    BY <1>1
  <2>3. n + 1 < ConnCount => a[n + 1].time = -1
    <3>1. n + 1 < ConnCount => n + 1 \in Slots /\ n + 1 >= n /\ n + 1 # n
      BY <1>1 DEF Slots
    <3> QED
      BY <1>7, <3>1 DEF OnChain
  <2> QED
    BY <1>7, <2>1, <2>2, <2>3, UsedIs
<1>9. Short(a)
  BY <1>5, <1>7 DEF Short
<1>10. /\ w2[n].from = Period /\ w2[n].to = Period + Slack
       /\ \A k \in Slots : k # n => w2[k] = w[k]
  BY <1>1, <1>2 DEF Windows
<1>11. \A m \in 0 .. n : Combined(a, m) = Combined(ct, m)
  <2>1. \A k \in 0 .. n - 1 : a[k].time = ct[k].time
    BY <1>1, <1>7 DEF Slots
  <2>2. n \in 0 .. ConnCount
    BY <1>1
  <2> QED
    BY <1>7, <2>1, <2>2, SumsPrefix
<1>12. Combined(a, n + 1) = Combined(ct, n) + delta
  <2>1. n + 1 \in 1 .. ConnCount /\ (n + 1) - 1 = n /\ n \in 0 .. n
    BY <1>1
  <2>2. Combined(a, n + 1) = Combined(a, n) + a[n].time
    BY <1>7, <2>1, CombinedStep
  <2> QED
    BY <1>7, <1>11, <2>1, <2>2
<1>13. ExpiryOf(a, r2, n) \in Period .. Period + Slack
  <2>1. CASE n = 0
    <3>1. Combined(a, n + 1) = 0
      BY <1>12, <2>1, CombinedStep DEF delta
    <3>2. GranulesPerMs * 0 = 0
      OBVIOUS
    <3> QED
      BY <1>2, <1>3, <2>1, <3>1, <3>2 DEF ExpiryOf
  <2>2. CASE n # 0
    <3>1. Combined(a, n + 1) = KeepAlive - time
      <4>1. delta = KeepAlive - (time + Combined(ct, n))
        BY <1>15, <2>2
      <4>2. /\ time \in Int /\ Combined(ct, n) \in Int /\ KeepAlive \in Int
            /\ delta \in Int
        BY <1>3, <1>4, <1>5
      <4>3. Combined(ct, n) + delta = KeepAlive - time
        BY <4>1, <4>2
      <4> QED
        BY <1>12, <4>3
    <3>2. /\ GranulesPerMs * (KeepAlive - time) = Period - GranulesPerMs * time
          /\ GranulesPerMs * time \in Int
      <4>1. time \in Int /\ KeepAlive \in Int
        BY <1>3
      <4>2. GranulesPerMs * (KeepAlive - time) = GranulesPerMs * KeepAlive - GranulesPerMs * time
        BY <4>1, Millis, Zenon
      <4>3. GranulesPerMs * time \in Int
        BY <4>1, Millis, Zenon
      <4> QED
        BY <1>2, <4>2, <4>3
    <3>3. r2 = r /\ r - GranulesPerMs * time \in 0 .. Slack
      BY <1>1, <1>3, <2>2, Rounded
    <3> QED
      BY <1>2, <3>1, <3>2, <3>3 DEF ExpiryOf
  <2> QED
    BY <2>1, <2>2
<1>14. OnChain(a, w2, r2, 0)
  <2>1. \A k \in Slots : k >= n + 1 => a[k].time = -1
    <3> TAKE k \in Slots
    <3>1. k >= n + 1 => k # n /\ k >= n
      BY <1>1 DEF Slots
    <3> QED
      BY <1>7, <3>1 DEF OnChain
  <2>2. \A k \in 1 .. n : a[k].time >= 1
    <3> TAKE k \in 1 .. n
    <3>1. CASE k = n
      BY <1>1, <1>5, <1>7, <3>1
    <3>2. CASE k # n
      <4>1. k \in 1 .. n - 1 /\ k \in Slots
        BY <1>1, <3>2 DEF Slots
      <4> QED
        BY <1>7, <3>2, <4>1 DEF OnChain
    <3> QED
      BY <3>1, <3>2
  <2>3. a[0].time = 0
    <3>1. 0 \in Slots
      BY DEF Slots
    <3>2. CASE n = 0
      BY <1>7, <3>2 DEF delta
    <3>3. CASE n # 0
      BY <1>1, <1>7, <3>1, <3>3 DEF OnChain
    <3> QED
      BY <3>2, <3>3
  <2>4. ASSUME NEW i \in 0 .. n
        PROVE  /\ ExpiryOf(a, r2, i) \in w2[i].from .. w2[i].to
               /\ w2[i].to <= Period + Slack - 0
    <3>1. CASE i = n
      BY <1>2, <1>10, <1>13, <3>1
    <3>2. CASE i # n
      <4>1. i \in 0 .. n - 1 /\ i \in Slots /\ n > 0 /\ i + 1 \in 0 .. n
        BY <1>1, <3>2 DEF Slots
      <4>2. ExpiryOf(a, r2, i) = ExpiryOf(ct, r, i)
        BY <1>3, <1>11, <4>1 DEF ExpiryOf
      <4>3. /\ ExpiryOf(ct, r, i) \in w[i].from .. w[i].to
            /\ w[i].to <= Period + Slack - MinGap
        BY <4>1 DEF OnChain
      <4>4. w2[i] = w[i] /\ w[i].to \in Int
        BY <1>10, <3>2, <4>1 DEF Windows
      <4> QED
        BY <1>2, <4>2, <4>3, <4>4
    <3> QED
      BY <3>1, <3>2
  <2>5. (n + 1) - 1 = n
    BY <1>1
  <2> QED
    BY <1>8, <2>1, <2>2, <2>3, <2>4, <2>5 DEF OnChain
<1> QED
  BY <1>7, <1>8, <1>9, <1>14 DEF a, time, r2

\* Removing the head: the timer is armed for what the next entry has to go,
\* less the s granules that reading the old one dropped.
LEMMA ChainHeadRemoved ==
    ASSUME NEW ct \in Arrays, NEW w \in Windows, NEW r \in Int, NEW g \in Int,
           OnChain(ct, w, r, g), Short(ct), Used(ct) > 0,
           NEW s \in Int, NEW r2 \in Int, NEW w2 \in Windows,
           Used(ct) > 1 => r2 = (r - s) + GranulesPerMs * ct[1].time,
           \A k \in 0 .. Used(ct) - 2 :
               /\ w2[k].from <= w[k + 1].from - s
               /\ w2[k].to >= w[k + 1].to - s
               /\ w2[k].to <= w[k + 1].to
    PROVE  /\ Short(RemoveIndex(ct, 0))
           /\ OnChain(RemoveIndex(ct, 0), w2, r2, g)
<1> USE ConnCountAssumption, TimeAssumption
<1> DEFINE n == Used(ct)
           q == RemoveIndex(ct, 0)
<1>1. n \in 1 .. ConnCount /\ 0 \in 0 .. n - 1 /\ 0 \in Slots /\ 1 \in Slots
  BY UsedBounds DEF Slots
<1>2. \A k \in Slots : k >= n => ct[k].time = -1
  BY DEF OnChain
<1>3. /\ q \in Arrays
      /\ Used(q) = n - 1
      /\ \A k \in 0 .. n - 2 : q[k].time = IF k = 0 THEN 0 ELSE ct[k + 1].time
      /\ \A k \in Slots : k >= n - 1 => q[k].time = -1
  BY <1>1, <1>2, RemoveIndexEntries
<1> HIDE DEF q
<1>4. Period \in Int /\ Slack \in Int
  BY PeriodFacts
<1>5. ASSUME NEW m \in 1 .. n - 1
      PROVE  Combined(q, m) = Combined(ct, m + 1) - ct[1].time
  <2>1. n >= 2 /\ 1 \in 1 .. n - 1 /\ 2 \in 1 .. ConnCount /\ 1 \in 1 .. ConnCount
    BY <1>1
  <2>2. ct[0].time = 0 /\ q[0].time = 0 /\ ct[1].time \in Int
    BY <1>1, <1>3, <2>1 DEF OnChain, Arrays
  <2>3. \A k \in 1 .. n - 2 : q[k].time = ct[k + 1].time
    BY <1>1, <1>3
  <2>4. n \in 2 .. ConnCount
    BY <1>1, <2>1
  <2> QED
    BY <1>3, <2>2, <2>3, <2>4, SumsBehindHead
<1>6. ASSUME NEW i \in 0 .. n - 2
      PROVE  /\ ExpiryOf(q, r2, i) \in w2[i].from .. w2[i].to
             /\ w2[i].to <= Period + Slack - g
  <2>1. /\ i + 1 \in 1 .. n - 1 /\ i + 1 \in 0 .. n - 1 /\ (i + 1) + 1 = i + 2 /\ n > 1
        /\ i \in Slots /\ i + 1 \in Slots /\ i + 2 \in 0 .. ConnCount
    BY <1>1 DEF Slots
  <2>2. Combined(q, i + 1) = Combined(ct, i + 2) - ct[1].time
    BY <1>5, <2>1
  <2>3. Combined(ct, i + 2) \in Int /\ ct[1].time \in Int
    BY <1>1, <2>1, CombinedInt DEF Arrays
  <2>4. /\ GranulesPerMs * (Combined(ct, i + 2) - ct[1].time) =
               GranulesPerMs * Combined(ct, i + 2) - GranulesPerMs * ct[1].time
        /\ GranulesPerMs * Combined(ct, i + 2) \in Int
        /\ GranulesPerMs * ct[1].time \in Int
    BY <2>3, Millis, Zenon
  <2>5. ExpiryOf(q, r2, i) = (r + GranulesPerMs * Combined(ct, i + 2)) - s
    <3>1. r2 = (r - s) + GranulesPerMs * ct[1].time
      BY <2>1
    <3> QED
      BY <2>2, <2>4, <3>1 DEF ExpiryOf
  <2>6. /\ r + GranulesPerMs * Combined(ct, i + 2) \in w[i + 1].from .. w[i + 1].to
        /\ w[i + 1].to <= Period + Slack - g
    BY <2>1 DEF OnChain, ExpiryOf
  <2>7. /\ w2[i].from <= w[i + 1].from - s
        /\ w2[i].to >= w[i + 1].to - s
        /\ w2[i].to <= w[i + 1].to
    BY <1>1
  <2>8. /\ w2[i].from \in Int /\ w2[i].to \in Int
        /\ w[i + 1].from \in Int /\ w[i + 1].to \in Int
    BY <2>1 DEF Windows
  <2> QED
    BY <1>4, <2>4, <2>5, <2>6, <2>7, <2>8
<1>7. \A k \in 1 .. n - 2 : q[k].time >= 1
  <2> TAKE k \in 1 .. n - 2
  <2>1. k + 1 \in 1 .. n - 1 /\ k \in 0 .. n - 2 /\ k # 0
    BY <1>1
  <2> QED
    BY <1>3, <2>1 DEF OnChain
<1>8. OnChain(q, w2, r2, g)
  <2>1. (n - 1) - 1 = n - 2
    BY <1>1
  <2>2. n - 1 > 0 => q[0].time = 0
    BY <1>1, <1>3
  <2> QED
    BY <1>3, <1>6, <1>7, <2>1, <2>2 DEF OnChain
<1>9. Short(q)
  <2>1. ASSUME NEW k \in Slots PROVE q[k].time \in -1 .. KeepAlive
    <3>1. CASE k >= n - 1
      BY <1>3, <3>1
    <3>2. CASE ~(k >= n - 1)
      <4>1. k \in 0 .. n - 2 /\ k + 1 \in Slots
        BY <1>1, <3>2 DEF Slots
      <4> QED
        BY <1>3, <4>1 DEF Short
    <3> QED
      BY <3>1, <3>2
  <2> QED
    BY <2>1 DEF Short
<1> QED
  BY <1>8, <1>9 DEF q

\* The sums of a list that lost entry i, whose delta went to the one behind it.
LEMMA SumsMerged ==
    ASSUME NEW ct \in Arrays, NEW q \in Arrays, NEW n \in 1 .. ConnCount,
           NEW i \in 1 .. n - 1,
           \A k \in 0 .. i - 1 : q[k].time = ct[k].time,
           i < n - 1 => q[i].time = ct[i].time + ct[i + 1].time,
           \A k \in i + 1 .. n - 2 : q[k].time = ct[k + 1].time
    PROVE  /\ \A m \in 0 .. i : Combined(q, m) = Combined(ct, m)
           /\ \A m \in i + 1 .. n - 1 : Combined(q, m) = Combined(ct, m + 1)
<1> USE ConnCountAssumption
<1>1. \A m \in 0 .. i : Combined(q, m) = Combined(ct, m)
  <2>1. i \in 0 .. ConnCount
    OBVIOUS
  <2> QED
    BY <2>1, SumsPrefix
<1>2. ASSUME i < n - 1
      PROVE  \A m \in i + 1 .. n - 1 : Combined(q, m) = Combined(ct, m + 1)
  <2>1. Combined(q, i + 1) = Combined(ct, (i + 1) + 1)
    <3>1. /\ i + 1 \in 1 .. ConnCount /\ (i + 1) + 1 \in 1 .. ConnCount
          /\ (i + 1) - 1 = i /\ ((i + 1) + 1) - 1 = i + 1
          /\ i \in Slots /\ i + 1 \in Slots /\ i \in 0 .. i /\ i \in 0 .. ConnCount
      BY <1>2 DEF Slots
    <3>2. Combined(q, i + 1) = Combined(q, i) + q[i].time
      BY <3>1, CombinedStep
    <3>3. Combined(ct, i + 1) = Combined(ct, i) + ct[i].time
      BY <3>1, CombinedStep
    <3>4. Combined(ct, (i + 1) + 1) = Combined(ct, i + 1) + ct[i + 1].time
      BY <3>1, CombinedStep
    <3>5. Combined(ct, i) \in Int /\ ct[i].time \in Int /\ ct[i + 1].time \in Int
      BY <3>1, CombinedInt DEF Arrays
    <3>6. Combined(q, i) = Combined(ct, i) /\ q[i].time = ct[i].time + ct[i + 1].time
      BY <1>1, <1>2, <3>1
    <3> QED
      BY <3>2, <3>3, <3>4, <3>5, <3>6
  <2>2. \A m \in i + 1 .. n - 1 :
            Combined(q, m) = Combined(q, i + 1) + (Combined(ct, m + 1) - Combined(ct, (i + 1) + 1))
    <3>1. /\ i + 1 \in Nat /\ n - 1 \in Nat /\ i + 1 <= n - 1 /\ n - 1 < ConnCount
          /\ \A k \in i + 1 .. (n - 1) - 1 : q[k].time = ct[k + 1].time
      BY <1>2
    <3> QED
      BY <3>1, SumsShift
  <2>3. /\ \A m \in i + 1 .. n - 1 : Combined(ct, m + 1) \in Int
        /\ Combined(ct, (i + 1) + 1) \in Int
    BY <1>2, CombinedInt
  <2> QED
    BY <2>1, <2>2, <2>3
<1>3. CASE ~(i < n - 1)
  BY <1>1, <1>3
<1> QED
  BY <1>1, <1>2, <1>3

\* The list with the delta of entry i added to the next one, as timer_stop
\* makes it before it removes entry i.
Merged(ct, i) ==
    IF Valid(ct, i + 1)
    THEN [ct EXCEPT ![i + 1].time = ct[i + 1].time + ct[i].time]
    ELSE ct

\* Removing an entry behind the head whose delta went to the one behind it: the
\* others stay as they are, and so do the sums.
LEMMA LaterRemoved ==
    ASSUME NEW ct \in Arrays, NEW i \in 1 .. Used(ct) - 1,
           \A k \in Slots : k >= Used(ct) => ct[k].time = -1,
           \A k \in 1 .. Used(ct) - 1 : ct[k].time >= 0,
           ct[0].time = 0
    PROVE  LET n == Used(ct)
               q == RemoveIndex(Merged(ct, i), i)
           IN  /\ q \in Arrays
               /\ Used(q) = n - 1
               /\ \A k \in 0 .. n - 2 :
                     q[k].conn = IF k < i THEN ct[k].conn ELSE ct[k + 1].conn
               /\ n - 1 > 0 => q[0].time = 0
               /\ \A k \in Slots : k >= n - 1 => q[k].time = -1
               /\ \A k \in 0 .. i - 1 : q[k].time = ct[k].time
               /\ i < n - 1 => q[i].time = ct[i].time + ct[i + 1].time
               /\ \A k \in i + 1 .. n - 2 : q[k].time = ct[k + 1].time
               /\ \A m \in 0 .. i : Combined(q, m) = Combined(ct, m)
               /\ \A m \in i + 1 .. n - 1 : Combined(q, m) = Combined(ct, m + 1)
<1> USE ConnCountAssumption, TimeAssumption
<1> DEFINE n == Used(ct)
           mg == Merged(ct, i)
           q == RemoveIndex(mg, i)
<1>1. /\ n \in 1 .. ConnCount /\ i \in Slots /\ 0 \in Slots
      /\ \A k \in Slots : k < n => ct[k].time # -1
  BY UsedBounds DEF Slots
<1>2. \A k \in Slots : k >= n => ct[k].time = -1
  OBVIOUS
<1>3. Valid(ct, i + 1) <=> i < n - 1
  <2>1. i + 1 < ConnCount => i + 1 \in Slots
    BY <1>1 DEF Slots
  <2> QED
    BY <1>1, <1>2, <2>1 DEF Valid
<1>4. \A k \in 1 .. n - 1 : ct[k].time \in Int /\ ct[k].time >= 0
  <2>1. \A k \in 1 .. n - 1 : k \in Slots
    BY <1>1 DEF Slots
  <2> QED
    BY <2>1 DEF Arrays
<1>5. ct[0].time = 0
  OBVIOUS
<1>6. /\ mg \in Arrays
      /\ \A k \in Slots : mg[k].conn = ct[k].conn
      /\ \A k \in Slots : k # i + 1 => mg[k].time = ct[k].time
      /\ i < n - 1 => mg[i + 1].time = ct[i].time + ct[i + 1].time
      /\ ~(i < n - 1) => mg = ct
  <2>1. CASE i < n - 1
    <3>1. i + 1 \in Slots /\ i + 1 \in 1 .. n - 1 /\ i \in 1 .. n - 1
      BY <1>1, <2>1 DEF Slots
    <3>2. mg = [ct EXCEPT ![i + 1].time = ct[i + 1].time + ct[i].time]
      BY <1>3, <2>1 DEF Merged
    <3>3. ct[i + 1].time + ct[i].time \in Int
          /\ ct[i + 1].time + ct[i].time = ct[i].time + ct[i + 1].time
      BY <1>4, <3>1
    <3> QED
      BY <2>1, <3>1, <3>2, <3>3 DEF Arrays
  <2>2. CASE ~(i < n - 1)
    <3>1. mg = ct
      BY <1>3, <2>2 DEF Merged
    <3>2. i + 1 \notin Slots \/ mg = ct
      BY <3>1
    <3> QED
      BY <2>2, <3>1
  <2> QED
    BY <2>1, <2>2
<1> HIDE DEF mg
<1>7. Used(mg) = n
  <2>1. ASSUME NEW k \in 0 .. n - 1
        PROVE  mg[k].time # -1
    <3>1. k \in Slots
      BY <1>1 DEF Slots
    <3>2. CASE k # i + 1
      BY <1>1, <1>6, <3>1, <3>2
    <3>3. CASE k = i + 1
      <4>1. i < n - 1 /\ i \in 1 .. n - 1 /\ i + 1 \in 1 .. n - 1
        BY <1>1, <3>3
      <4> QED
        BY <1>4, <1>6, <3>3, <4>1
    <3> QED
      BY <3>2, <3>3
  <2>2. n < ConnCount => mg[n].time = -1
    <3>1. n < ConnCount => n \in Slots
      BY <1>1 DEF Slots
    <3>2. n = i + 1 => mg = ct
      BY <1>1, <1>6
    <3> QED
      BY <1>1, <1>2, <1>6, <3>1, <3>2
  <2> QED
    BY <1>1, <1>6, <2>1, <2>2, UsedIs
<1>8. \A k \in Slots : k >= n => mg[k].time = -1
  <2> TAKE k \in Slots
  <2>1. k >= n /\ k = i + 1 => mg = ct
    BY <1>1, <1>6
  <2> QED
    BY <1>1, <1>2, <1>6, <2>1
<1>9. /\ q \in Arrays
      /\ Used(q) = n - 1
      /\ \A k \in 0 .. n - 2 :
           /\ q[k].conn = IF k < i THEN mg[k].conn ELSE mg[k + 1].conn
           /\ q[k].time = IF k = 0 THEN 0 ELSE IF k < i THEN mg[k].time ELSE mg[k + 1].time
      /\ \A k \in Slots : k >= n - 1 => q[k].time = -1
  <2>1. i \in 0 .. Used(mg) - 1 /\ \A k \in Slots : k >= Used(mg) => mg[k].time = -1
    BY <1>1, <1>7, <1>8
  <2> QED
    BY <1>6, <1>7, <2>1, RemoveIndexEntries
<1> HIDE DEF q, n
<1>10. \A k \in 0 .. n - 2 : k \in Slots /\ k + 1 \in Slots
  BY <1>1 DEF Slots
<1>11. \A k \in 0 .. n - 2 : q[k].conn = IF k < i THEN ct[k].conn ELSE ct[k + 1].conn
  BY <1>6, <1>9, <1>10
<1>12. /\ \A k \in 0 .. i - 1 : q[k].time = ct[k].time
       /\ i < n - 1 => q[i].time = ct[i].time + ct[i + 1].time
       /\ \A k \in i + 1 .. n - 2 : q[k].time = ct[k + 1].time
  <2>0. i \in 1 .. n - 1
    BY DEF n
  <2>1. ASSUME NEW k \in 0 .. i - 1 PROVE q[k].time = ct[k].time
    <3>1. k \in 0 .. n - 2 /\ k < i /\ k # i + 1
      BY <1>1, <2>0
    <3> QED
      BY <1>5, <1>6, <1>9, <1>10, <3>1
  <2>2. ASSUME i < n - 1 PROVE q[i].time = ct[i].time + ct[i + 1].time
    <3>1. i \in 0 .. n - 2 /\ ~(i < i) /\ i # 0
      BY <1>1, <2>0, <2>2
    <3> QED
      BY <1>6, <1>9, <2>2, <3>1
  <2>3. ASSUME NEW k \in i + 1 .. n - 2 PROVE q[k].time = ct[k + 1].time
    <3>1. k \in 0 .. n - 2 /\ ~(k < i) /\ k # 0 /\ k + 1 # i + 1
      BY <1>1, <2>0
    <3> QED
      BY <1>6, <1>9, <1>10, <3>1
  <2> QED
    BY <2>1, <2>2, <2>3
<1>13. /\ \A m \in 0 .. i : Combined(q, m) = Combined(ct, m)
       /\ \A m \in i + 1 .. n - 1 : Combined(q, m) = Combined(ct, m + 1)
  <2>1. i \in 1 .. n - 1
    BY DEF n
  <2> QED
    BY <1>1, <1>9, <1>12, <2>1, SumsMerged
<1>14. n - 1 > 0 => q[0].time = 0
  <2>1. n - 1 > 0 => 0 \in 0 .. n - 2
    BY <1>1
  <2> QED
    BY <1>9, <2>1
<1> QED
  BY <1>9, <1>11, <1>12, <1>13, <1>14 DEF q, n, mg

\* Removing an entry behind the head: those behind it keep their time.
LEMMA ChainLaterRemoved ==
    ASSUME NEW ct \in Arrays, NEW w \in Windows, NEW r \in Nat, NEW g \in Nat,
           OnChain(ct, w, r, g), Short(ct),
           NEW i \in 1 .. Used(ct) - 1,
           NEW w2 \in Windows,
           \A k \in 0 .. Used(ct) - 2 : w2[k] = IF k < i THEN w[k] ELSE w[k + 1]
    PROVE  /\ RemoveIndex(Merged(ct, i), i) \in Arrays
           /\ Used(RemoveIndex(Merged(ct, i), i)) = Used(ct) - 1
           /\ \A k \in 0 .. Used(ct) - 2 :
                RemoveIndex(Merged(ct, i), i)[k].conn =
                    IF k < i THEN ct[k].conn ELSE ct[k + 1].conn
           /\ Short(RemoveIndex(Merged(ct, i), i))
           /\ OnChain(RemoveIndex(Merged(ct, i), i), w2, r, g)
<1> USE ConnCountAssumption, TimeAssumption
<1> DEFINE n == Used(ct)
           q == RemoveIndex(Merged(ct, i), i)
<1>1. /\ n \in 1 .. ConnCount /\ i \in Slots /\ 0 \in Slots
      /\ \A k \in Slots : k < n => ct[k].time # -1
  BY UsedBounds DEF Slots
<1>2. \A k \in 1 .. n - 1 : ct[k].time \in Int /\ ct[k].time >= 1
  <2>1. \A k \in 1 .. n - 1 : k \in Slots
    BY <1>1 DEF Slots
  <2>2. \A k \in 1 .. n - 1 : ct[k].time >= 1
    BY DEF OnChain
  <2> QED
    BY <2>1, <2>2 DEF Arrays
<1>3. /\ q \in Arrays
      /\ Used(q) = n - 1
      /\ \A k \in 0 .. n - 2 :
           q[k].conn = IF k < i THEN ct[k].conn ELSE ct[k + 1].conn
      /\ n - 1 > 0 => q[0].time = 0
      /\ \A k \in Slots : k >= n - 1 => q[k].time = -1
      /\ \A k \in 0 .. i - 1 : q[k].time = ct[k].time
      /\ i < n - 1 => q[i].time = ct[i].time + ct[i + 1].time
      /\ \A k \in i + 1 .. n - 2 : q[k].time = ct[k + 1].time
      /\ \A m \in 0 .. i : Combined(q, m) = Combined(ct, m)
      /\ \A m \in i + 1 .. n - 1 : Combined(q, m) = Combined(ct, m + 1)
  <2>1. /\ \A k \in Slots : k >= Used(ct) => ct[k].time = -1
        /\ \A k \in 1 .. Used(ct) - 1 : ct[k].time >= 0
        /\ ct[0].time = 0
    BY <1>1, <1>2 DEF OnChain
  <2> QED
    BY <2>1, LaterRemoved
<1> HIDE DEF q, n
<1>4. ASSUME NEW k \in 0 .. n - 2
       PROVE  /\ ExpiryOf(q, r, k) \in w2[k].from .. w2[k].to
              /\ w2[k].to <= Period + Slack - g
  <2>1. /\ i \in 1 .. n - 1
        /\ \A j \in 0 .. n - 1 : /\ ExpiryOf(ct, r, j) \in w[j].from .. w[j].to
                                /\ w[j].to <= Period + Slack - g
    BY DEF OnChain, n
  <2>2. w2[k] = IF k < i THEN w[k] ELSE w[k + 1]
    BY DEF n
  <2>3. CASE k < i
    <3>1. k \in 0 .. n - 1 /\ k + 1 \in 0 .. i
      BY <1>1, <2>1, <2>3
    <3>2. ExpiryOf(q, r, k) = ExpiryOf(ct, r, k)
      BY <1>3, <3>1 DEF ExpiryOf
    <3> QED
      BY <2>1, <2>2, <2>3, <3>1, <3>2
  <2>4. CASE ~(k < i)
    <3>1. k + 1 \in 0 .. n - 1 /\ k + 1 \in i + 1 .. n - 1
      BY <1>1, <2>1, <2>4
    <3>2. ExpiryOf(q, r, k) = ExpiryOf(ct, r, k + 1)
      BY <1>3, <3>1 DEF ExpiryOf
    <3> QED
      BY <2>1, <2>2, <2>4, <3>1, <3>2
  <2> QED
    BY <2>3, <2>4
<1>5. \A k \in 1 .. n - 2 : q[k].time \in Int /\ q[k].time >= 1
  <2> TAKE k \in 1 .. n - 2
  <2>1. i \in 1 .. n - 1 /\ n - 1 \in 0 .. ConnCount
    BY <1>1 DEF n
  <2>2. CASE k < i
    <3>1. k \in 0 .. i - 1 /\ k \in 1 .. n - 1
      BY <1>1, <2>1, <2>2
    <3> QED
      BY <1>2, <1>3, <3>1
  <2>3. CASE k = i
    <3>1. k \in 1 .. n - 1 /\ k + 1 \in 1 .. n - 1 /\ i < n - 1
      BY <1>1, <2>1, <2>3
    <3> QED
      BY <1>2, <1>3, <2>3, <3>1
  <2>4. CASE k > i
    <3>1. k \in i + 1 .. n - 2 /\ k + 1 \in 1 .. n - 1
      BY <1>1, <2>1, <2>4
    <3> QED
      BY <1>2, <1>3, <3>1
  <2> QED
    BY <2>1, <2>2, <2>3, <2>4
<1>6. OnChain(q, w2, r, g)
  <2>1. (n - 1) - 1 = n - 2
    BY <1>1
  <2> QED
    BY <1>3, <1>4, <1>5, <2>1 DEF OnChain
<1>7. Short(q)
  <2>0. i \in 1 .. n - 1
    BY DEF n
  <2>1. ASSUME i < n - 1
        PROVE  ct[i].time + ct[i + 1].time <= KeepAlive
    <3>1. /\ i + 1 \in 0 .. n - 1 /\ i + 1 \in Slots /\ (i + 1) + 1 = i + 2
          /\ i + 2 \in 1 .. ConnCount /\ i + 2 \in 0 .. n
          /\ i + 1 \in 1 .. ConnCount /\ i \in 0 .. n
          /\ i \in 0 .. ConnCount /\ i \in 1 .. n - 1 /\ i + 1 \in 1 .. n - 1
          /\ (i + 1) - 1 = i /\ (i + 2) - 1 = i + 1
      BY <1>1, <2>0, <2>1 DEF Slots
    <3>2. Combined(ct, i + 2) = Combined(ct, i) + ct[i].time + ct[i + 1].time
      <4>1. Combined(ct, i + 1) = Combined(ct, i) + ct[i].time
        BY <3>1, CombinedStep
      <4>2. Combined(ct, i + 2) = Combined(ct, i + 1) + ct[i + 1].time
        BY <3>1, CombinedStep
      <4> QED
        BY <4>1, <4>2
    <3>3. Combined(ct, i) \in Int /\ Combined(ct, i) >= 0
      <4>1. i \in 0 .. Used(ct)
        BY <3>1 DEF n
      <4> QED
        BY <4>1, ChainSums
    <3>4. Combined(ct, i + 2) \in Int
      BY <3>1, CombinedInt
    <3>5. /\ r + GranulesPerMs * Combined(ct, i + 2) \in w[i + 1].from .. w[i + 1].to
          /\ w[i + 1].to <= Period + Slack - g
      BY <3>1 DEF OnChain, ExpiryOf, n
    <3>6. w[i + 1].from \in Int /\ w[i + 1].to \in Int
      BY <3>1 DEF Windows
    <3>7. /\ Period = GranulesPerMs * KeepAlive /\ Slack = GranulesPerMs - 1
          /\ Period \in Int /\ GranulesPerMs \in Int
      BY PeriodFacts
    <3>8. GranulesPerMs * Combined(ct, i + 2) \in Int
      BY <3>4, Millis, Zenon
    <3>9. GranulesPerMs * Combined(ct, i + 2) < Period + GranulesPerMs
      BY <3>5, <3>6, <3>7, <3>8
    <3>10. Combined(ct, i + 2) <= KeepAlive
      <4>1. GranulesPerMs * (KeepAlive + 1) = GranulesPerMs * KeepAlive + GranulesPerMs * 1
            /\ GranulesPerMs * 1 = GranulesPerMs
        BY Millis
      <4>2. GranulesPerMs * Combined(ct, i + 2) < GranulesPerMs * (KeepAlive + 1)
        BY <3>7, <3>9, <4>1
      <4>3. KeepAlive + 1 \in Int
        OBVIOUS
      <4>4. Combined(ct, i + 2) < KeepAlive + 1
        BY <3>4, <4>2, <4>3, Millis, Zenon
      <4> QED
        BY <3>4, <4>4
    <3>11. ct[i].time \in Int /\ ct[i + 1].time \in Int
      BY <1>2, <3>1
    <3> QED
      BY <3>2, <3>3, <3>10, <3>11
  <2>2. ASSUME NEW k \in Slots
        PROVE  q[k].time \in -1 .. KeepAlive
    <3>1. CASE k >= n - 1
      BY <1>3, <3>1
    <3>2. CASE k < i
      <4>1. k \in 0 .. i - 1
        BY <2>0, <3>2 DEF Slots
      <4> QED
        BY <1>3, <4>1 DEF Short
    <3>3. CASE k = i /\ i < n - 1
      <4>1. /\ i \in 1 .. n - 1 /\ i + 1 \in 1 .. n - 1
            /\ ct[i].time \in Int /\ ct[i + 1].time \in Int
            /\ ct[i].time >= 1 /\ ct[i + 1].time >= 1
        BY <1>1, <1>2, <2>0, <3>3
      <4> QED
        BY <1>3, <2>1, <3>3, <4>1
    <3>4. CASE k > i /\ k < n - 1
      <4>1. k \in i + 1 .. n - 2 /\ k + 1 \in Slots
        BY <1>1, <2>0, <3>4 DEF Slots
      <4> QED
        BY <1>3, <4>1 DEF Short
    <3> QED
      BY <1>1, <2>0, <3>1, <3>2, <3>3, <3>4 DEF Slots
  <2> QED
    BY <2>2 DEF Short
<1> QED
  BY <1>3, <1>6, <1>7 DEF q, n

\* Time passes: everything is due sooner, and a start is further back.
LEMMA ChainTicked ==
    ASSUME NEW ct \in Arrays, NEW w \in Windows, NEW r \in Int, NEW g \in Int,
           OnChain(ct, w, r, g),
           NEW d \in {0, 1}, NEW h \in Int, h <= g + d, NEW w2 \in Windows,
           \A i \in 0 .. Used(ct) - 1 :
               w2[i].from = w[i].from - d /\ w2[i].to = w[i].to - d
    PROVE  OnChain(ct, w2, r - d, h)
<1> USE ConnCountAssumption, TimeAssumption
<1>1. Used(ct) \in 0 .. ConnCount
  BY UsedBounds
<1>2. Period \in Int /\ Slack \in Int
  BY PeriodFacts
<1>3. ASSUME NEW i \in 0 .. Used(ct) - 1
      PROVE  /\ ExpiryOf(ct, r - d, i) \in w2[i].from .. w2[i].to
             /\ w2[i].to <= Period + Slack - h
  <2>1. /\ r + GranulesPerMs * Combined(ct, i + 1) \in w[i].from .. w[i].to
        /\ w[i].to <= Period + Slack - g
    BY DEF OnChain, ExpiryOf
  <2>2. w2[i].from = w[i].from - d /\ w2[i].to = w[i].to - d
    OBVIOUS
  <2>3. w[i].from \in Int /\ w[i].to \in Int
    <3>1. i \in Slots
      BY <1>1 DEF Slots
    <3>2. w[i] \in [from : Int, to : Int]
      BY <3>1 DEF Windows
    <3> QED
      BY <3>2
  <2>4. GranulesPerMs * Combined(ct, i + 1) \in Int
    <3>1. i + 1 \in 0 .. Used(ct)
      BY <1>1
    <3> QED
      BY <3>1, ChainSums
  <2>5. ExpiryOf(ct, r - d, i) = (r + GranulesPerMs * Combined(ct, i + 1)) - d
    BY <2>4 DEF ExpiryOf
  <2> QED
    BY <1>2, <2>1, <2>2, <2>3, <2>4, <2>5
<1> QED
  BY <1>3 DEF OnChain

\* The windows once entry i has gone.
LEMMA WindowRemovedIs ==
    ASSUME conn_timers \in Arrays, NEW w \in Windows,
           NEW i \in 0 .. Used(conn_timers) - 1
    PROVE  /\ WindowRemoved(w, i) \in Windows
           /\ \A k \in 0 .. Used(conn_timers) - 2 :
                 WindowRemoved(w, i)[k] = IF k < i THEN w[k] ELSE w[k + 1]
<1> USE ConnCountAssumption
<1> DEFINE n == Used(conn_timers)
           shifted == ShiftDown(w, i, n - 1)
<1>1. n \in 1 .. ConnCount /\ n - 1 \in Slots
  BY UsedBounds DEF Slots
<1>2. WindowRemoved(w, i) = [shifted EXCEPT ![n - 1] = NoWindow]
  BY LastFromUsed DEF WindowRemoved
<1>3. shifted \in Windows
  <2>1. \A k \in i .. n - 2 : k + 1 \in Slots
    BY <1>1 DEF Slots
  <2> QED
    BY <1>1, <2>1 DEF ShiftDown, Windows
<1>4. \A k \in 0 .. n - 2 : k \in Slots /\ k # n - 1 /\ shifted[k] = IF k < i THEN w[k] ELSE w[k + 1]
  BY <1>1 DEF ShiftDown, Slots
<1> HIDE DEF shifted, n
<1>5. NoWindow \in [from : Int, to : Int]
  BY DEF NoWindow
<1>6. [shifted EXCEPT ![n - 1] = NoWindow] \in Windows
  BY <1>1, <1>3, <1>5 DEF Windows
<1>7. \A k \in 0 .. n - 2 :
          [shifted EXCEPT ![n - 1] = NoWindow][k] = IF k < i THEN w[k] ELSE w[k + 1]
  BY <1>3, <1>4 DEF Windows
<1> QED
  BY <1>2, <1>6, <1>7 DEF n

\* The windows of the list, some granules sooner.
LEMMA SoonerIs ==
    ASSUME window \in Windows, NEW from \in Int, NEW to \in Int
    PROVE  /\ Sooner(from, to) \in Windows
           /\ \A k \in Slots : k < Used(conn_timers) =>
                 Sooner(from, to)[k] = [from |-> window[k].from - from,
                                        to |-> window[k].to - to]
<1>1. \A k \in Slots : window[k] \in [from : Int, to : Int]
  BY DEF Windows
<1>2. \A k \in Slots : [from |-> window[k].from - from, to |-> window[k].to - to]
                         \in [from : Int, to : Int]
  BY <1>1
<1> QED
  BY <1>1, <1>2 DEF Sooner, Windows

-----------------------------------------------------------------------------
(* The inductive invariant *)

PInv ==
    /\ Inv
    /\ Short(conn_timers)
    /\ window \in Windows
    /\ gap \in 0 .. MinGap
    /\ SettimeSucceeds
    /\ NoLostTimer
    /\ created => OnChain(conn_timers, window, rem, gap)

\* Before the timer is created there is nothing to keep.
LEMMA PInvInit == PacedInit => PInv
<1> SUFFICES ASSUME PacedInit PROVE PInv
  OBVIOUS
<1> USE ConnCountAssumption, TimeAssumption, GapAssumption
<1>1. Inv /\ ~created /\ failed = {}
  BY InitInv DEF PacedInit, Init
<1>2. Short(conn_timers)
  <2>1. PICK c \in Conns : conn_timers = [i \in Slots |-> [time |-> 0, conn |-> c]]
    BY DEF PacedInit, Init
  <2> QED
    BY <2>1 DEF Short
<1>3. window \in Windows /\ gap \in 0 .. MinGap
  BY DEF PacedInit, NoWindow, Windows
<1> QED
  BY <1>1, <1>2, <1>3 DEF PInv, SettimeSucceeds, NoLostTimer

\* What the invariant says of a state, for the steps to start from.
LEMMA PInvFacts ==
    ASSUME PInv
    PROVE  /\ conn_timers \in Arrays
           /\ rem \in Nat
           /\ sigalrm \in BOOLEAN
           /\ created \in BOOLEAN
           /\ Used(conn_timers) \in 0 .. ConnCount
           /\ Valid(conn_timers, 0) <=> Used(conn_timers) > 0
           /\ \A k \in Slots : k < Used(conn_timers) => Valid(conn_timers, k)
           /\ created /\ Used(conn_timers) = 0 => rem = 0 /\ ~sigalrm
           /\ created /\ Used(conn_timers) > 0 => rem > 0 \/ sigalrm
           /\ sigalrm => created /\ rem = 0 /\ Used(conn_timers) > 0
           /\ rem > 0 => created
<1> USE ConnCountAssumption
<1>1. conn_timers \in Arrays
  BY DEF PInv, Inv, TypeOK, Arrays
<1>2. /\ Used(conn_timers) \in 0 .. ConnCount
      /\ \A i \in Slots : i < Used(conn_timers) => conn_timers[i].time # -1
      /\ Used(conn_timers) = 0 <=> conn_timers[0].time = -1
  BY <1>1, UsedBounds
<1>3. Valid(conn_timers, 0) <=> Used(conn_timers) > 0
  BY <1>2 DEF Valid
<1>4. \A k \in Slots : k < Used(conn_timers) => Valid(conn_timers, k)
  BY <1>2 DEF Valid, Slots
<1>5. rem \in Nat /\ sigalrm \in BOOLEAN /\ created \in BOOLEAN
  BY DEF PInv, Inv, TypeOK
<1>6. /\ created /\ (rem > 0 \/ sigalrm) => Valid(conn_timers, 0)
      /\ created /\ sigalrm => rem = 0
      /\ ~created => rem = 0 /\ ~sigalrm
      /\ created /\ Valid(conn_timers, 0) => rem > 0 \/ sigalrm
  BY DEF PInv, Inv, TimerHasHead, NoLostTimer
<1> QED
  BY <1>1, <1>2, <1>3, <1>4, <1>5, <1>6

-----------------------------------------------------------------------------
(* The actions: what each does to the list and to the windows *)

\* shttp_timer_init makes an empty list, or nothing.
LEMMA InitEffect ==
    PInv /\ PacedTimerInit =>
        /\ PInv'
        /\ ~created
        /\ \/ status' = "TIMER_CREATE" /\ created' = FALSE
           \/ status' = "OK" /\ created' = TRUE /\ Used(conn_timers') = 0
<1> SUFFICES ASSUME PInv, PacedTimerInit
             PROVE  /\ PInv'
                    /\ \/ status' = "TIMER_CREATE" /\ created' = FALSE
                       \/ status' = "OK" /\ created' = TRUE /\ Used(conn_timers') = 0
  BY DEF PacedTimerInit, TimerInit
<1> USE ConnCountAssumption, TimeAssumption
<1>1. /\ conn_timers \in Arrays /\ ~created /\ created \in BOOLEAN
      /\ Short(conn_timers)
  BY PInvFacts DEF PacedTimerInit, TimerInit, PInv
<1>2. Inv' /\ conn_timers' \in Arrays
  <2>1. Inv'
    BY NextInv DEF PInv, PacedTimerInit, Next
  <2> QED
    BY <2>1 DEF Inv, TypeOK, Arrays
<1>3. /\ window' = window /\ gap' = gap /\ UNCHANGED <<rem, sigalrm, failed>>
  BY DEF PacedTimerInit, TimerInit
<1>4. window' \in Windows /\ gap' \in 0 .. MinGap /\ SettimeSucceeds'
  BY <1>3 DEF PInv, SettimeSucceeds
<1>5. CASE status' = "TIMER_CREATE" /\ UNCHANGED <<created, conn_timers>>
  <2>1. created' = FALSE
    BY <1>1, <1>5
  <2>2. Short(conn_timers)'
    BY <1>1, <1>5 DEF Short
  <2> QED
    BY <1>2, <1>4, <1>5, <2>1, <2>2 DEF PInv, NoLostTimer
<1>6. CASE /\ status' = "OK" /\ created' = TRUE
           /\ conn_timers' = [i \in Slots |-> [time |-> -1, conn |-> conn_timers[i].conn]]
  <2>1. \A k \in Slots : conn_timers'[k].time = -1
    BY <1>6
  <2>2. Used(conn_timers') = 0
    <3>1. 0 \in Slots
      BY DEF Slots
    <3> QED
      BY <1>2, <2>1, <3>1, UsedBounds
  <2>3. Short(conn_timers)'
    BY <2>1 DEF Short
  <2>4. OnChain(conn_timers, window, rem, gap)'
    BY <2>1, <2>2 DEF OnChain
  <2>5. NoLostTimer'
    <3>1. 0 \in Slots
      BY DEF Slots
    <3> QED
      BY <2>1, <3>1 DEF NoLostTimer, Valid
  <2> QED
    BY <1>2, <1>4, <1>6, <2>2, <2>3, <2>4, <2>5 DEF PInv
<1> QED
  BY <1>5, <1>6 DEF PacedTimerInit, TimerInit

\* shttp_timer_deinit takes the timer away; what the list holds then does not
\* matter.
LEMMA DeinitEffect ==
    PInv /\ PacedTimerDeinit => PInv' /\ created /\ created' = FALSE /\ status' = status
<1> SUFFICES ASSUME PInv, PacedTimerDeinit
             PROVE  PInv'
  BY DEF PacedTimerDeinit, TimerDeinit, Running
<1>1. Inv'
  BY NextInv DEF PInv, PacedTimerDeinit, Next
<1>2. Short(conn_timers)' /\ gap' \in 0 .. MinGap /\ SettimeSucceeds' /\ NoLostTimer' /\ ~created'
  BY DEF PInv, PacedTimerDeinit, TimerDeinit, Short, SettimeSucceeds, NoLostTimer
<1>3. window' \in Windows
  BY DEF PacedTimerDeinit, NoWindow, Windows
<1> QED
  BY <1>1, <1>2, <1>3 DEF PInv

\* shttp_timer_start puts a timer for c behind the others, due in a period, and
\* touches nothing else; a full list it refuses.
LEMMA StartEffect ==
    ASSUME NEW c \in Conns, PInv, PacedStart(c)
    PROVE  /\ PInv'
           /\ created /\ created' /\ UNCHANGED created
           /\ \/ /\ Used(conn_timers) = ConnCount
                 /\ status' = "TIMER_LIMIT"
                 /\ UNCHANGED <<conn_timers, window>>
              \/ /\ Used(conn_timers) < ConnCount
                 /\ status' = "OK"
                 /\ Used(conn_timers') = Used(conn_timers) + 1
                 /\ conn_timers'[Used(conn_timers)].conn = c
                 /\ window'[Used(conn_timers)] = [from |-> Period, to |-> Period + Slack]
                 /\ \A k \in Slots : k # Used(conn_timers) =>
                       conn_timers'[k] = conn_timers[k] /\ window'[k] = window[k]
<1> USE ConnCountAssumption, TimeAssumption, GapAssumption
<1> DEFINE n == Used(conn_timers)
<1>1. /\ conn_timers \in Arrays /\ rem \in Nat /\ n \in 0 .. ConnCount
      /\ Short(conn_timers) /\ window \in Windows /\ SettimeSucceeds
      /\ created \in BOOLEAN
  BY PInvFacts DEF PInv
<1>2. created /\ gap = MinGap /\ gap' = 0 /\ ~sigalrm
  BY DEF PacedStart, SpacedStart, TimerStart, StartFull, StartRoom, Running
<1>3. OnChain(conn_timers, window, rem, MinGap)
  BY <1>2 DEF PInv
<1>4. Inv'
  BY NextInv DEF PInv, PacedStart, SpacedStart, Next
<1>5. UNCHANGED <<sigalrm, created, failed>> /\ gap' \in 0 .. MinGap /\ SettimeSucceeds'
  <2>1. UNCHANGED <<sigalrm, created, failed>>
    BY DEF PacedStart, SpacedStart, TimerStart, StartFull, StartRoom
  <2>2. gap' \in 0 .. MinGap
    BY <1>2
  <2>3. SettimeSucceeds'
    BY <1>1, <2>1 DEF SettimeSucceeds
  <2> QED
    BY <2>1, <2>2, <2>3
<1>6. CASE StartFull
  <2>1. n = ConnCount /\ UNCHANGED <<conn_timers, rem>> /\ status' = "TIMER_LIMIT"
    BY <1>6 DEF StartFull
  <2>2. window' = window
    BY <2>1 DEF PacedStart, SpacedStart
  <2>3. OnChain(conn_timers, window, rem, 0)
    <3>1. \A i \in 0 .. Used(conn_timers) - 1 :
              window[i].from = window[i].from - 0 /\ window[i].to = window[i].to - 0
      <4>1. \A i \in Slots : window[i] \in [from : Int, to : Int]
        BY <1>1 DEF Windows
      <4>2. \A i \in 0 .. Used(conn_timers) - 1 : i \in Slots
        BY <1>1 DEF Slots
      <4> QED
        BY <4>1, <4>2
    <3>2. 0 <= MinGap + 0 /\ 0 \in {0, 1} /\ 0 \in Int /\ rem - 0 = rem
          /\ MinGap \in Int /\ rem \in Int
      BY <1>1
    <3>3. OnChain(conn_timers, window, rem - 0, 0)
      BY <1>1, <1>3, <3>1, <3>2, ChainTicked
    <3> QED
      BY <3>2, <3>3
  <2>4. OnChain(conn_timers, window, rem, gap)'
    BY <1>2, <2>1, <2>2, <2>3
  <2>5. Short(conn_timers)' /\ window' \in Windows /\ NoLostTimer'
    BY <1>1, <1>5, <2>1, <2>2 DEF Short, PInv, NoLostTimer, Valid
  <2>6. PInv'
    BY <1>4, <1>5, <2>4, <2>5 DEF PInv
  <2> QED
    BY <1>2, <1>5, <2>1, <2>2, <2>6
<1>7. CASE StartRoom(c)
  <2>1. conn_timers[0].time # -1 <=> n # 0
    BY <1>1, UsedBounds
  <2>2. n < ConnCount /\ status' = "OK" /\ n \in Slots
    BY <1>1, <1>7 DEF StartRoom, Slots
  <2>3. /\ conn_timers' = Added(conn_timers, c, TimeLeft(conn_timers, rem))
        /\ rem' = RemStarted(conn_timers, rem)
    <3>1. TimeLeft(conn_timers, rem) = IF conn_timers[0].time # -1 THEN Gettime ELSE 0
      BY <2>1 DEF TimeLeft, Gettime
    <3> QED
      BY <1>7, <3>1 DEF StartRoom, RemStarted, Period
  <2>4. /\ window' \in Windows
        /\ window'[n] = [from |-> Period, to |-> Period + Slack]
        /\ \A k \in Slots : k # n => window'[k] = window[k]
    <3>1. window' = [window EXCEPT ![n] = [from |-> Period, to |-> Period + Slack]]
      BY <2>2 DEF PacedStart, SpacedStart
    <3>2. Period \in Int /\ Period + Slack \in Int
      BY PeriodFacts
    <3> QED
      BY <1>1, <2>2, <3>1, <3>2 DEF Windows
  <2>5. n = 0 => rem = 0
    BY <1>2, PInvFacts
  <2>6. n > 0 => rem \div GranulesPerMs > 0
    BY DEF PacedStart, Gettime
  <2>7. /\ Used(conn_timers') = n + 1
        /\ conn_timers'[n].conn = c
        /\ \A k \in Slots : k # n => conn_timers'[k] = conn_timers[k]
        /\ Short(conn_timers')
        /\ OnChain(conn_timers', window', rem', 0)
    BY <1>1, <1>3, <2>2, <2>3, <2>4, <2>5, <2>6, ChainAdded
  <2>9. rem' > 0
    <3>1. Period > 0
      BY PeriodFacts
    <3>2. n # 0 => rem > 0 \/ sigalrm
      BY <1>1, <1>2, PInvFacts
    <3> QED
      BY <1>1, <1>2, <2>3, <3>1, <3>2 DEF RemStarted, TimeLeft
  <2>10. PInv'
    BY <1>2, <1>4, <1>5, <2>4, <2>7, <2>9 DEF PInv, NoLostTimer
  <2> QED
    BY <1>2, <1>5, <2>2, <2>4, <2>7, <2>10
<1> QED
  BY <1>6, <1>7 DEF PacedStart, SpacedStart, TimerStart

\* A second entry is there iff its delta is not -1, and that is then positive.
LEMMA SecondEntry ==
    ASSUME PInv, created
    PROVE  /\ conn_timers[1].time # -1 <=> Used(conn_timers) > 1
           /\ Used(conn_timers) > 1 => conn_timers[1].time >= 1
           /\ conn_timers[1].time \in Int
<1> USE ConnCountAssumption
<1>1. 1 \in Slots /\ conn_timers \in Arrays /\ Used(conn_timers) \in 0 .. ConnCount
  BY PInvFacts DEF Slots
<1>2. OnChain(conn_timers, window, rem, gap)
  BY DEF PInv
<1>3. Used(conn_timers) > 1 => conn_timers[1].time >= 1
  <2>1. Used(conn_timers) > 1 => 1 \in 1 .. Used(conn_timers) - 1
    BY <1>1
  <2> QED
    BY <1>2, <2>1 DEF OnChain
<1>4. ~(Used(conn_timers) > 1) => conn_timers[1].time = -1
  <2>1. ~(Used(conn_timers) > 1) => 1 >= Used(conn_timers)
    BY <1>1
  <2> QED
    BY <1>1, <1>2, <2>1 DEF OnChain
<1>5. conn_timers[1].time \in Int
  BY <1>1 DEF Arrays
<1> QED
  BY <1>3, <1>4, <1>5

\* FindIndex finds the first entry of the connection.
LEMMA FindIndexFirst ==
    ASSUME NEW ct \in Arrays, NEW c, Valid(ct, FindIndex(ct, c)),
           \A k \in Slots : k >= Used(ct) => ct[k].time = -1
    PROVE  /\ FindIndex(ct, c) \in 0 .. Used(ct) - 1
           /\ ct[FindIndex(ct, c)].conn = c
           /\ \A k \in 0 .. FindIndex(ct, c) - 1 : ct[k].conn # c
<1> USE ConnCountAssumption
<1>1. Used(ct) \in 0 .. ConnCount
  BY UsedBounds
<1>2. /\ FindIndex(ct, c) \in 0 .. Used(ct)
      /\ FindIndex(ct, c) < Used(ct) => ct[FindIndex(ct, c)].conn = c
  BY FindIndexBounds
<1>3. FindIndex(ct, c) # Used(ct)
  BY <1>1, UsedBounds DEF Valid
<1>4. \A k \in 0 .. FindIndex(ct, c) - 1 : ct[k].conn # c
  <2> DEFINE S == {i \in Slots : ct[i].conn = c} \cup {Used(ct)}
  <2>1. S \subseteq Nat /\ S # {}
    BY <1>1 DEF Slots
  <2>2. Min(S) \in S /\ \A y \in S : Min(S) <= y
    BY <2>1, MinIsLeast
  <2>3. FindIndex(ct, c) = Min(S)
    BY DEF FindIndex
  <2> HIDE DEF FindIndex
  <2> TAKE k \in 0 .. FindIndex(ct, c) - 1
  <2>4. k \in Slots /\ k < FindIndex(ct, c)
    BY <1>1, <1>2 DEF Slots
  <2>5. ASSUME ct[k].conn = c PROVE FALSE
    <3>1. k \in S
      BY <2>4, <2>5
    <3>2. FindIndex(ct, c) <= k
      BY <2>2, <2>3, <3>1
    <3> QED
      BY <1>1, <1>2, <2>4, <3>2
  <2> QED
    BY <2>5
<1> QED
  BY <1>1, <1>2, <1>3, <1>4

\* The head leaves, and the timer is armed for the next entry: what both
\* timer_stop and the signal handler do.  Reading the clock drops s granules;
\* the windows of the others open `from' earlier, which is at least that.
LEMMA HeadLeavesEffect ==
    ASSUME PInv, created, Used(conn_timers) > 0,
           NEW from \in {0, Slack}, NEW s \in 0 .. from,
           conn_timers' = RemoveIndex(conn_timers, 0),
           rem' \in Nat,
           Used(conn_timers) > 1 =>
               rem' > 0 /\ rem' = (rem - s) + GranulesPerMs * conn_timers[1].time,
           NEW w \in Windows,
           \A k \in Slots : k < Used(conn_timers) =>
               w[k] = [from |-> window[k].from - from, to |-> window[k].to],
           window' = WindowRemoved(w, 0),
           gap' = gap
    PROVE  /\ Short(conn_timers')
           /\ window' \in Windows
           /\ OnChain(conn_timers', window', rem', gap')
           /\ Valid(conn_timers', 0) => rem' > 0
           /\ Used(conn_timers') = Used(conn_timers) - 1
           /\ \A k \in 0 .. Used(conn_timers) - 2 :
                  /\ conn_timers'[k].conn = conn_timers[k + 1].conn
                  /\ window'[k] = [from |-> window[k + 1].from - from,
                                   to |-> window[k + 1].to]
<1> USE ConnCountAssumption, TimeAssumption, GapAssumption
<1> DEFINE n == Used(conn_timers)
<1>1. /\ conn_timers \in Arrays /\ rem \in Int /\ n \in 1 .. ConnCount
      /\ Short(conn_timers) /\ window \in Windows /\ gap \in Int
      /\ OnChain(conn_timers, window, rem, gap)
  BY PInvFacts DEF PInv
<1>2. \A k \in 0 .. n - 2 : k + 1 \in Slots /\ k + 1 < n
  BY <1>1 DEF Slots
<1>3. /\ window' \in Windows
      /\ \A k \in 0 .. n - 2 : window'[k] = w[k + 1]
  <2>1. 0 \in 0 .. Used(conn_timers) - 1
    BY <1>1
  <2>2. /\ WindowRemoved(w, 0) \in Windows
        /\ \A k \in 0 .. n - 2 : WindowRemoved(w, 0)[k] = IF k < 0 THEN w[k] ELSE w[k + 1]
    BY <1>1, <2>1, WindowRemovedIs
  <2> QED
    BY <2>2
<1>4. \A k \in 0 .. n - 2 : window'[k] = [from |-> window[k + 1].from - from,
                                         to |-> window[k + 1].to]
  BY <1>2, <1>3
<1>5. Slack \in Int /\ Slack >= 0 /\ from \in Int /\ s \in Int /\ s >= 0 /\ s <= from
  BY DEF Slack
<1>6. \A k \in 0 .. n - 2 :
          /\ window'[k].from <= window[k + 1].from - s
          /\ window'[k].to >= window[k + 1].to - s
          /\ window'[k].to <= window[k + 1].to
  <2> TAKE k \in 0 .. n - 2
  <2>1. window[k + 1] \in [from : Int, to : Int]
    BY <1>1, <1>2 DEF Windows
  <2>2. window[k + 1].from \in Int /\ window[k + 1].to \in Int
    BY <2>1
  <2>3. window'[k].from = window[k + 1].from - from /\ window'[k].to = window[k + 1].to
    <3>1. window'[k] = [from |-> window[k + 1].from - from, to |-> window[k + 1].to]
      BY <1>4
    <3> QED
      BY <3>1
  <2> QED
    BY <1>5, <2>2, <2>3
<1>7. Short(conn_timers') /\ OnChain(conn_timers', window', rem', gap)
  <2>1. n > 1 => rem' = (rem - s) + GranulesPerMs * conn_timers[1].time
    OBVIOUS
  <2>2. rem' \in Int /\ n > 0
    OBVIOUS
  <2> QED
    BY <1>1, <1>3, <1>5, <1>6, <2>1, <2>2, ChainHeadRemoved
<1>8. /\ conn_timers' \in Arrays
      /\ Used(conn_timers') = n - 1
      /\ \A k \in 0 .. n - 2 : conn_timers'[k].conn = conn_timers[k + 1].conn
  <2>1. /\ \A k \in Slots : k >= Used(conn_timers) => conn_timers[k].time = -1
        /\ 0 \in 0 .. Used(conn_timers) - 1
    BY <1>1 DEF OnChain
  <2>2. /\ conn_timers' \in Arrays
        /\ Used(conn_timers') = n - 1
        /\ \A k \in 0 .. n - 2 : conn_timers'[k].conn =
               IF k < 0 THEN conn_timers[k].conn ELSE conn_timers[k + 1].conn
    BY <1>1, <2>1, RemoveIndexEntries
  <2> QED
    BY <2>2
<1>9. Valid(conn_timers', 0) => rem' > 0
  <2>1. Valid(conn_timers', 0) => Used(conn_timers') # 0
    BY <1>8, UsedBounds DEF Valid
  <2> QED
    BY <1>1, <1>8, <2>1
<1> QED
  BY <1>3, <1>4, <1>7, <1>8, <1>9

\* shttp_timer_stop takes out the first timer of c.  The others keep their
\* order and their windows, but for what reading the clock costs when the head
\* is stopped.
LEMMA StopEffect ==
    ASSUME NEW c \in Conns, PInv, PacedStop(c)
    PROVE  /\ PInv'
           /\ created /\ UNCHANGED <<created, status>>
           /\ Used(conn_timers') = Used(conn_timers) - 1
           /\ \E i \in 0 .. Used(conn_timers) - 1 :
                 /\ conn_timers[i].conn = c
                 /\ \A k \in 0 .. i - 1 : conn_timers[k].conn # c
                 /\ \A k \in 0 .. Used(conn_timers) - 2 :
                       /\ conn_timers'[k].conn =
                              IF k < i THEN conn_timers[k].conn ELSE conn_timers[k + 1].conn
                       /\ window'[k] =
                              IF i = 0 THEN [from |-> window[k + 1].from - Slack,
                                             to |-> window[k + 1].to]
                              ELSE IF k < i THEN window[k] ELSE window[k + 1]
<1> USE ConnCountAssumption, TimeAssumption, GapAssumption
<1> DEFINE n == Used(conn_timers)
           i == FindIndex(conn_timers, c)
<1>1. /\ conn_timers \in Arrays /\ rem \in Nat /\ n \in 0 .. ConnCount
      /\ Short(conn_timers) /\ window \in Windows /\ gap \in 0 .. MinGap
      /\ "settime" \notin failed
  BY PInvFacts DEF PInv, SettimeSucceeds
<1>2. /\ created /\ ~sigalrm /\ Valid(conn_timers, i)
      /\ UNCHANGED <<sigalrm, created, status, gap>>
  BY DEF PacedStop, TimerStop, StopHead, StopLater, Running
<1>3. OnChain(conn_timers, window, rem, gap)
  BY <1>2 DEF PInv
<1>4. /\ i \in 0 .. n - 1
      /\ conn_timers[i].conn = c
      /\ \A k \in 0 .. i - 1 : conn_timers[k].conn # c
  <2>1. \A k \in Slots : k >= Used(conn_timers) => conn_timers[k].time = -1
    BY <1>3 DEF OnChain
  <2> QED
    BY <1>1, <1>2, <2>1, FindIndexFirst
<1>5. Inv'
  BY NextInv DEF PInv, PacedStop, Next
<1>6. n > 0 /\ rem > 0
  BY <1>1, <1>2, <1>4, PInvFacts
<1>7. CASE StopHead(c)
  <2> DEFINE s == rem - GranulesPerMs * Gettime
             time == IF conn_timers[1].time # -1 THEN Gettime + conn_timers[1].time ELSE 0
             w == Sooner(Slack, 0)
  <2>1. i = 0 /\ conn_timers' = RemoveIndex(conn_timers, 0)
        /\ rem' = ArmedFor(time) /\ failed' = failed \cup Refused(time)
    BY <1>7 DEF StopHead
  <2>2. window' = WindowRemoved(w, 0)
    BY <2>1 DEF PacedStop
  <2>3. Gettime \in Nat /\ s \in 0 .. Slack
    BY <1>1, Rounded DEF Gettime
  <2>4. /\ conn_timers[1].time # -1 <=> n > 1
        /\ n > 1 => conn_timers[1].time >= 1
        /\ conn_timers[1].time \in Int
    BY <1>2, SecondEntry
  <2>5. time \in Nat /\ rem' = time * GranulesPerMs /\ failed' = failed
    <3>1. time \in Int /\ time >= 0
      BY <2>3, <2>4
    <3> HIDE DEF time
    <3> QED
      BY <2>1, <3>1 DEF ArmedFor, Refused
  <2>6. rem' = GranulesPerMs * time /\ rem' \in Nat
    <3>1. time \in Int /\ time >= 0
      BY <2>5
    <3> HIDE DEF time
    <3> QED
      BY <2>5, <3>1, Millis
  <2>7. n > 1 => rem' > 0 /\ rem' = (rem - s) + GranulesPerMs * conn_timers[1].time
    <3> SUFFICES ASSUME n > 1
                 PROVE  rem' > 0 /\ rem' = (rem - s) + GranulesPerMs * conn_timers[1].time
      OBVIOUS
    <3>1. time = Gettime + conn_timers[1].time
      BY <2>4
    <3>2. Gettime \in Int /\ conn_timers[1].time \in Int
      BY <2>3, <2>4
    <3>3. /\ GranulesPerMs * (Gettime + conn_timers[1].time) =
                 GranulesPerMs * Gettime + GranulesPerMs * conn_timers[1].time
          /\ GranulesPerMs * Gettime \in Int
          /\ GranulesPerMs * conn_timers[1].time \in Int
      BY <3>2, Millis, Zenon
    <3>4. rem' = GranulesPerMs * Gettime + GranulesPerMs * conn_timers[1].time
      BY <2>6, <3>1, <3>3
    <3>5. rem' = (rem - s) + GranulesPerMs * conn_timers[1].time
      BY <1>1, <3>3, <3>4
    <3>6. time >= 1 /\ time \in Int
      BY <2>3, <2>4, <3>1
    <3>7. GranulesPerMs * time >= GranulesPerMs
      <4> HIDE DEF time
      <4> QED
        BY <3>6, Millis
    <3> QED
      BY <2>6, <3>5, <3>7
  <2>8. /\ w \in Windows
        /\ \A k \in Slots : k < n => w[k] = [from |-> window[k].from - Slack, to |-> window[k].to]
    <3>1. Slack \in Int /\ 0 \in Int
      BY DEF Slack
    <3>2. /\ w \in Windows
          /\ \A k \in Slots : k < n => w[k] = [from |-> window[k].from - Slack,
                                              to |-> window[k].to - 0]
      BY <1>1, <3>1, SoonerIs
    <3>3. \A k \in Slots : window[k].to - 0 = window[k].to
      <4>1. \A k \in Slots : window[k] \in [from : Int, to : Int]
        BY <1>1 DEF Windows
      <4> QED
        BY <4>1
    <3> HIDE DEF w
    <3> QED
      BY <3>2, <3>3
  <2>9. /\ Short(conn_timers') /\ window' \in Windows
        /\ OnChain(conn_timers', window', rem', gap')
        /\ Valid(conn_timers', 0) => rem' > 0
        /\ Used(conn_timers') = n - 1
        /\ \A k \in 0 .. n - 2 :
              /\ conn_timers'[k].conn = conn_timers[k + 1].conn
              /\ window'[k] = [from |-> window[k + 1].from - Slack, to |-> window[k + 1].to]
    <3>1. s \in 0 .. Slack /\ Slack \in {0, Slack} /\ gap' = gap
      BY <1>2, <2>3
    <3> HIDE DEF s, w
    <3> QED
      BY <1>2, <1>6, <2>1, <2>2, <2>6, <2>7, <2>8, <3>1, HeadLeavesEffect
  <2>10. PInv'
    BY <1>1, <1>2, <1>5, <2>5, <2>9 DEF PInv, SettimeSucceeds, NoLostTimer
  <2>11. \A k \in 0 .. n - 2 :
            /\ conn_timers'[k].conn = IF k < 0 THEN conn_timers[k].conn ELSE conn_timers[k + 1].conn
            /\ window'[k] = IF i = 0 THEN [from |-> window[k + 1].from - Slack, to |-> window[k + 1].to]
                            ELSE IF k < i THEN window[k] ELSE window[k + 1]
    BY <2>1, <2>9
  <2> QED
    BY <1>2, <1>4, <2>1, <2>9, <2>10, <2>11
<1>8. CASE StopLater(c)
  <2>1. i # 0 /\ i \in 1 .. n - 1
    BY <1>1, <1>4, <1>8 DEF StopLater
  <2>2. conn_timers' = RemoveIndex(Merged(conn_timers, i), i)
    BY <1>8 DEF StopLater, Merged
  <2>3. UNCHANGED <<rem, failed>>
    BY <1>8 DEF StopLater
  <2>4. window' = WindowRemoved(window, i)
    BY <2>1 DEF PacedStop
  <2>5. /\ window' \in Windows
        /\ \A k \in 0 .. n - 2 : window'[k] = IF k < i THEN window[k] ELSE window[k + 1]
    BY <1>1, <1>4, <2>4, WindowRemovedIs
  <2>6. /\ conn_timers' \in Arrays
        /\ Used(conn_timers') = n - 1
        /\ \A k \in 0 .. n - 2 : conn_timers'[k].conn =
               IF k < i THEN conn_timers[k].conn ELSE conn_timers[k + 1].conn
        /\ Short(conn_timers')
        /\ OnChain(conn_timers', window', rem, gap)
    <3>1. gap \in Nat
      BY <1>1
    <3> QED
      BY <1>1, <1>3, <2>1, <2>2, <2>5, <3>1, ChainLaterRemoved
  <2>7. PInv'
    BY <1>1, <1>2, <1>5, <1>6, <2>3, <2>5, <2>6 DEF PInv, SettimeSucceeds, NoLostTimer
  <2>8. \A k \in 0 .. n - 2 :
            /\ conn_timers'[k].conn = IF k < i THEN conn_timers[k].conn ELSE conn_timers[k + 1].conn
            /\ window'[k] = IF i = 0 THEN [from |-> window[k + 1].from - Slack, to |-> window[k + 1].to]
                            ELSE IF k < i THEN window[k] ELSE window[k + 1]
    BY <2>1, <2>5, <2>6
  <2> QED
    BY <1>2, <1>4, <2>6, <2>7, <2>8
<1> QED
  BY <1>7, <1>8 DEF PacedStop, TimerStop

\* The signal handler takes out the head, which is due.
LEMMA HandlerEffect ==
    ASSUME PInv, PacedHandler
    PROVE  /\ PInv'
           /\ created /\ UNCHANGED <<created, status>>
           /\ Used(conn_timers) > 0 /\ window[0].from <= 0
           /\ Used(conn_timers') = Used(conn_timers) - 1
           /\ \A k \in 0 .. Used(conn_timers) - 2 :
                 /\ conn_timers'[k].conn = conn_timers[k + 1].conn
                 /\ window'[k] = window[k + 1]
<1> USE ConnCountAssumption, TimeAssumption, GapAssumption
<1> DEFINE n == Used(conn_timers)
<1>1. /\ conn_timers \in Arrays /\ rem \in Nat /\ n \in 0 .. ConnCount
      /\ Short(conn_timers) /\ window \in Windows /\ gap \in 0 .. MinGap
      /\ "settime" \notin failed
  BY PInvFacts DEF PInv, SettimeSucceeds
<1>2. sigalrm /\ sigalrm' = FALSE /\ UNCHANGED <<created, status, gap>>
  BY DEF PacedHandler, SignalHandler
<1>3. created /\ rem = 0 /\ n > 0 /\ Valid(conn_timers, 0)
  BY <1>2, PInvFacts
<1>4. OnChain(conn_timers, window, rem, gap)
  BY <1>3 DEF PInv
<1>5. Inv'
  BY NextInv DEF PInv, PacedHandler, Next
<1>6. /\ conn_timers[1].time # -1 <=> n > 1
      /\ n > 1 => conn_timers[1].time >= 1
      /\ conn_timers[1].time \in Int
  BY <1>3, SecondEntry
<1>7. /\ conn_timers' = RemoveIndex(conn_timers, 0)
      /\ n > 1 => rem' = conn_timers[1].time * GranulesPerMs
      /\ ~(n > 1) => rem' = 0
      /\ failed' = failed
  BY <1>3, <1>6 DEF PacedHandler, SignalHandler, ArmedFor, Refused
<1>8. n > 1 => /\ GranulesPerMs * conn_timers[1].time \in Int
               /\ GranulesPerMs * conn_timers[1].time > 0
               /\ conn_timers[1].time * GranulesPerMs = GranulesPerMs * conn_timers[1].time
  <2> DEFINE t == conn_timers[1].time
  <2>1. t \in Int /\ (n > 1 => t >= 1)
    BY <1>6
  <2> HIDE DEF t
  <2>2. n > 1 => GranulesPerMs * t \in Int /\ GranulesPerMs * t > 0
                 /\ t * GranulesPerMs = GranulesPerMs * t
    BY <2>1, Millis
  <2> QED
    BY <2>2 DEF t
<1>9. rem' \in Nat /\ (n > 1 => rem' > 0 /\ rem' = (rem - 0) + GranulesPerMs * conn_timers[1].time)
  BY <1>3, <1>7, <1>8
<1>10. window' = WindowRemoved(window, 0)
  BY DEF PacedHandler
<1>11. \A k \in Slots : window[k] = [from |-> window[k].from - 0, to |-> window[k].to]
  <2>1. \A k \in Slots : window[k] \in [from : Int, to : Int]
    BY <1>1 DEF Windows
  <2> QED
    BY <2>1
<1>12. /\ Short(conn_timers') /\ window' \in Windows
       /\ OnChain(conn_timers', window', rem', gap')
       /\ Valid(conn_timers', 0) => rem' > 0
       /\ Used(conn_timers') = n - 1
       /\ \A k \in 0 .. n - 2 :
              /\ conn_timers'[k].conn = conn_timers[k + 1].conn
              /\ window'[k] = [from |-> window[k + 1].from - 0, to |-> window[k + 1].to]
  <2>1. 0 \in {0, Slack} /\ 0 \in 0 .. 0 /\ gap' = gap /\ 0 \in Int
    BY <1>2
  <2> QED
    BY <1>1, <1>3, <1>7, <1>9, <1>10, <1>11, <2>1, HeadLeavesEffect
<1>13. \A k \in 0 .. n - 2 : window'[k] = window[k + 1]
  <2>1. \A k \in 0 .. n - 2 : k + 1 \in Slots
    BY <1>1 DEF Slots
  <2> QED
    BY <1>11, <1>12, <2>1
<1>14. window[0].from <= 0
  <2>1. /\ rem + GranulesPerMs * Combined(conn_timers, 0 + 1) \in window[0].from .. window[0].to
        /\ conn_timers[0].time = 0
    BY <1>1, <1>3, <1>4 DEF OnChain, ExpiryOf
  <2>2. Combined(conn_timers, 1) = 0
    <3>1. 1 \in 1 .. ConnCount /\ 1 - 1 = 0
      OBVIOUS
    <3>2. Combined(conn_timers, 0) = 0
          /\ Combined(conn_timers, 1) = Combined(conn_timers, 0) + conn_timers[0].time
      BY <1>1, <3>1, CombinedStep
    <3> QED
      BY <2>1, <3>2
  <2>3. rem + GranulesPerMs * Combined(conn_timers, 0 + 1) = 0
    BY <1>3, <2>2
  <2>4. window[0].from \in Int
    <3>1. window[0] \in [from : Int, to : Int]
      BY <1>1 DEF Windows, Slots
    <3> QED
      BY <3>1
  <2> QED
    BY <2>1, <2>3, <2>4
<1>15. PInv'
  BY <1>1, <1>2, <1>5, <1>7, <1>12 DEF PInv, SettimeSucceeds, NoLostTimer
<1> QED
  BY <1>2, <1>3, <1>12, <1>13, <1>14, <1>15

\* A granule passes for every timer alike, and none is overdue.
LEMMA TickEffect ==
    ASSUME PInv, PacedTick
    PROVE  /\ PInv'
           /\ created /\ UNCHANGED <<created, status, conn_timers>>
           /\ Used(conn_timers) > 0
           /\ \A k \in 0 .. Used(conn_timers) - 1 :
                 /\ window[k].to > 0
                 /\ window'[k] = [from |-> window[k].from - 1, to |-> window[k].to - 1]
<1> USE ConnCountAssumption, TimeAssumption, GapAssumption
<1> DEFINE n == Used(conn_timers)
<1>1. /\ conn_timers \in Arrays /\ rem \in Nat /\ n \in 0 .. ConnCount
      /\ Short(conn_timers) /\ window \in Windows /\ gap \in 0 .. MinGap
  BY PInvFacts DEF PInv
<1>2. /\ rem > 0 /\ rem' = rem - 1 /\ sigalrm' = (rem = 1)
      /\ UNCHANGED <<conn_timers, created, status, failed>>
      /\ gap' = IF gap < MinGap THEN gap + 1 ELSE gap
      /\ window' = Sooner(1, 1)
  BY DEF PacedTick, Tick, GapGrows
<1>3. created /\ n > 0
  <2>1. created
    BY <1>2, PInvFacts
  <2>2. n # 0
    BY <1>2, <2>1, PInvFacts
  <2> QED
    BY <1>1, <2>1, <2>2
<1>4. OnChain(conn_timers, window, rem, gap)
  BY <1>3 DEF PInv
<1>5. Inv'
  BY NextInv DEF PInv, PacedTick, Next
<1>6. gap' \in 0 .. MinGap /\ gap' <= gap + 1
  BY <1>1, <1>2
<1>7. /\ window' \in Windows
      /\ \A k \in Slots : k < n => window'[k] = [from |-> window[k].from - 1, to |-> window[k].to - 1]
  BY <1>1, <1>2, SoonerIs
<1>8. OnChain(conn_timers, window', rem - 1, gap')
  <2>1. \A k \in 0 .. Used(conn_timers) - 1 :
            window'[k].from = window[k].from - 1 /\ window'[k].to = window[k].to - 1
    <3> TAKE k \in 0 .. Used(conn_timers) - 1
    <3>1. k \in Slots /\ k < n
      BY <1>1 DEF Slots
    <3>2. window'[k] = [from |-> window[k].from - 1, to |-> window[k].to - 1]
      BY <1>7, <3>1
    <3> QED
      BY <3>2
  <2>2. 1 \in {0, 1} /\ gap' \in Int /\ gap \in Int /\ rem \in Int
    BY <1>1, <1>6
  <2> QED
    BY <1>1, <1>4, <1>6, <1>7, <2>1, <2>2, ChainTicked
<1>9. ASSUME NEW k \in 0 .. n - 1
      PROVE  /\ window[k].to > 0
             /\ window'[k] = [from |-> window[k].from - 1, to |-> window[k].to - 1]
  <2>1. k \in Slots /\ k < n /\ k + 1 \in 0 .. n
    BY <1>1 DEF Slots
  <2>2. rem + GranulesPerMs * Combined(conn_timers, k + 1) \in window[k].from .. window[k].to
    BY <1>4 DEF OnChain, ExpiryOf
  <2>3. GranulesPerMs * Combined(conn_timers, k + 1) \in Int
        /\ GranulesPerMs * Combined(conn_timers, k + 1) >= 0
    BY <1>1, <1>4, <2>1, ChainSums
  <2>4. window[k] \in [from : Int, to : Int]
    BY <1>1, <2>1 DEF Windows
  <2>5. window[k].to \in Int /\ window[k].from \in Int
    BY <2>4
  <2>6. window[k].to > 0
    BY <1>1, <1>2, <2>2, <2>3, <2>5
  <2> QED
    BY <1>7, <2>1, <2>6
<1>10. rem' > 0 \/ sigalrm'
  <2>1. CASE rem = 1
    BY <1>2, <2>1, Zenon
  <2>2. CASE rem # 1
    BY <1>1, <1>2, <2>2
  <2> QED
    BY <2>1, <2>2
<1>11. PInv'
  <2>1. Short(conn_timers)' /\ SettimeSucceeds'
    BY <1>1, <1>2 DEF PInv, Short, SettimeSucceeds
  <2>2. OnChain(conn_timers, window, rem, gap)'
    BY <1>2, <1>8
  <2>3. NoLostTimer'
    BY <1>10 DEF NoLostTimer
  <2> QED
    BY <1>5, <1>6, <1>7, <2>1, <2>2, <2>3 DEF PInv
<1> QED
  BY <1>2, <1>3, <1>9, <1>11

\* Time that passes while no timer runs passes over an empty list.
LEMMA IdleEffect ==
    ASSUME PInv, Idle
    PROVE  PInv' /\ UNCHANGED <<vars, window>>
<1> USE ConnCountAssumption, TimeAssumption, GapAssumption
<1>1. UNCHANGED <<vars, window>> /\ gap' = gap + 1 /\ gap < MinGap /\ rem = 0 /\ ~sigalrm
  BY DEF Idle, GapGrows
<1>2. /\ UNCHANGED <<conn_timers, rem, sigalrm, created, status, failed, window>>
  BY <1>1 DEF vars
<1>3. gap' \in 0 .. MinGap
  BY <1>1 DEF PInv
<1>4. Inv'
  BY <1>1, NextInv DEF PInv
<1>5. created => Used(conn_timers) = 0
  BY <1>1, PInvFacts
<1>6. created' => OnChain(conn_timers, window, rem, gap)'
  <2> SUFFICES ASSUME created'
               PROVE  OnChain(conn_timers', window', rem', gap')
    OBVIOUS
  <2>1. created /\ Used(conn_timers) = 0 /\ OnChain(conn_timers, window, rem, gap)
    BY <1>2, <1>5 DEF PInv
  <2>2. OnChain(conn_timers, window, rem, gap')
    BY <2>1 DEF OnChain
  <2> QED
    BY <1>2, <2>2
<1>7. Short(conn_timers)' /\ window' \in Windows /\ SettimeSucceeds' /\ NoLostTimer'
  BY <1>2 DEF PInv, Short, SettimeSucceeds, NoLostTimer, Valid
<1> QED
  BY <1>1, <1>3, <1>4, <1>6, <1>7 DEF PInv

\* No step breaks the invariant.
LEMMA PInvStep == PInv /\ [PacedNext]_pacedVars => PInv'
<1> SUFFICES ASSUME PInv, [PacedNext]_pacedVars
             PROVE  PInv'
  OBVIOUS
<1>1. CASE PacedTimerInit
  BY <1>1, InitEffect
<1>2. CASE PacedTimerDeinit
  BY <1>2, DeinitEffect
<1>3. ASSUME NEW c \in Conns, PacedStart(c)
      PROVE  PInv'
  BY <1>3, StartEffect
<1>4. ASSUME NEW c \in Conns, PacedStop(c)
      PROVE  PInv'
  BY <1>4, StopEffect
<1>5. CASE PacedHandler
  BY <1>5, HandlerEffect
<1>6. CASE PacedTick
  BY <1>6, TickEffect
<1>7. CASE Idle
  BY <1>7, IdleEffect
<1>8. CASE UNCHANGED pacedVars
  <2>1. UNCHANGED <<conn_timers, rem, sigalrm, created, status, failed, window, gap>>
    BY <1>8 DEF pacedVars, vars
  <2>2. Inv'
    BY <2>1, NextInv DEF PInv, vars
  <2>3. OnChain(conn_timers, window, rem, gap) => OnChain(conn_timers', window', rem', gap')
    BY <2>1
  <2> QED
    BY <2>1, <2>2, <2>3 DEF PInv, Short, SettimeSucceeds, NoLostTimer, Valid
<1> QED
  BY <1>1, <1>2, <1>3, <1>4, <1>5, <1>6, <1>7, <1>8 DEF PacedNext

-----------------------------------------------------------------------------
(* Theorems: safety *)

\* The module keeps its state well-typed: no delta exceeds the keep-alive
\* timeout, and the program's pace is counted right.
THEOREM PacedTypes == PacedSpec => []PacedTypeOK
<1>1. PInv => PacedTypeOK
  BY DEF PInv, Inv, PacedTypeOK, Short, Windows
<1> QED
  BY PInvInit, PInvStep, <1>1, PTL DEF PacedSpec

\* No connection that waits for its timeout is forgotten: as long as the list
\* has an entry, the POSIX timer runs or its signal is on the way.
THEOREM TimerNotLost == PacedSpec => []NoLostTimer
<1>1. PInv => NoLostTimer
  BY DEF PInv
<1> QED
  BY PInvInit, PInvStep, <1>1, PTL DEF PacedSpec

\* Whatever mix of starts, stops and expiries the deltas went through, they
\* still add up: each entry fires in the window that its own start and the
\* stops ahead of it leave.
THEOREM ExpiresOnTime == PacedSpec => []OnTime
<1>1. PInv => OnTime
  <2> SUFFICES ASSUME PInv, created, NEW i \in 0 .. Used(conn_timers) - 1
               PROVE  Expiry(i) \in window[i].from .. window[i].to
    BY DEF OnTime
  <2>1. OnChain(conn_timers, window, rem, gap)
    BY DEF PInv
  <2> QED
    BY <2>1 DEF OnChain, ExpiryOf, Expiry
<1> QED
  BY PInvInit, PInvStep, <1>1, PTL DEF PacedSpec

\* The signal handler finds its connection under this program, too.
THEOREM PacedHandlerFindsHead == PacedSpec => []TimerHasHead
<1>1. PInv => TimerHasHead
  BY DEF PInv, Inv
<1> QED
  BY PInvInit, PInvStep, <1>1, PTL DEF PacedSpec

\* Nor is timer_settime refused under it: a special case of OnlyLateStartsRefused,
\* below, which needs no spacing.
THEOREM PacedSettime == PacedSpec => []SettimeSucceeds
<1>1. PInv => SettimeSucceeds
  BY DEF PInv
<1> QED
  BY PInvInit, PInvStep, <1>1, PTL DEF PacedSpec

-----------------------------------------------------------------------------
(* Theorem: timer_settime is refused only after a late start *)

\* Nothing but -1 lies behind the list, no delta is negative, and the code's
\* own sum of the time left and all deltas is a period or less.
InPeriod(ct, r) ==
    /\ \A k \in Slots : k >= Used(ct) => ct[k].time = -1
    /\ \A k \in 0 .. Used(ct) - 1 : ct[k].time >= 0
    /\ Used(ct) > 0 =>
           (r \div GranulesPerMs) + Combined(ct, Used(ct)) <= KeepAlive

\* The invariant of InTimeSpec: whatever starts, stops and expiries a list went
\* through, and even if its timer was lost, the sum never exceeds a period.
InTimeInv ==
    /\ Inv
    /\ SettimeSucceeds
    /\ created => InPeriod(conn_timers, rem)

\* A whole number of milliseconds is read back as it was armed.
LEMMA ReadBack ==
    ASSUME NEW a \in Nat
    PROVE  /\ a * GranulesPerMs \in Nat
           /\ (a * GranulesPerMs) \div GranulesPerMs = a
<1>1. GranulesPerMs \in Nat /\ GranulesPerMs >= 1
  BY TimeAssumption
<1> DEFINE x == a * GranulesPerMs
           b == x \div GranulesPerMs
<1>2. x \in Nat /\ x = GranulesPerMs * a
  <2>1. a \in Int /\ a >= 0
    OBVIOUS
  <2> QED
    BY <2>1, Millis
<1> HIDE DEF x
<1>3. b \in Nat /\ x - GranulesPerMs * b \in 0 .. GranulesPerMs - 1
  BY <1>2, Rounded DEF Slack
<1> HIDE DEF b
<1>4. /\ GranulesPerMs * (a - b) = GranulesPerMs * a - GranulesPerMs * b
      /\ GranulesPerMs * (a - b) \in Int
      /\ a - b >= 1 => GranulesPerMs * (a - b) >= GranulesPerMs
      /\ b - a >= 1 => GranulesPerMs * (b - a) >= GranulesPerMs
      /\ GranulesPerMs * (b - a) = GranulesPerMs * b - GranulesPerMs * a
      /\ GranulesPerMs * b \in Int /\ GranulesPerMs * a \in Int
  <2>1. a \in Int /\ b \in Int /\ a - b \in Int /\ b - a \in Int
    BY <1>3
  <2> QED
    BY <2>1, Millis
<1>5. ~(a - b >= 1) /\ ~(b - a >= 1)
  BY <1>1, <1>2, <1>3, <1>4
<1>6. b = a
  BY <1>3, <1>5
<1> QED
  BY <1>2, <1>6 DEF x, b

\* timer_add in time: the new delta fills the sum up to a period.
LEMMA InPeriodAdded ==
    ASSUME NEW ct \in Arrays, NEW r \in Nat, NEW c \in Conns,
           InPeriod(ct, r), Used(ct) < ConnCount, NEW r2,
           r2 = IF Used(ct) = 0 THEN KeepAlive * GranulesPerMs ELSE r
    PROVE  InPeriod(Added(ct, c, r \div GranulesPerMs), r2)
<1> USE ConnCountAssumption, TimeAssumption
<1> DEFINE n == Used(ct)
           time == r \div GranulesPerMs
           delta == IF n = 0 THEN 0 ELSE KeepAlive - (time + Combined(ct, n))
           a == Added(ct, c, time)
<1>1. /\ n \in 0 .. ConnCount - 1 /\ n \in Slots
      /\ \A k \in Slots : k >= n => ct[k].time = -1
      /\ \A k \in 0 .. n - 1 : ct[k].time >= 0
      /\ n > 0 => time + Combined(ct, n) <= KeepAlive
  BY UsedBounds DEF Slots, InPeriod
<1>2. time \in Nat /\ Combined(ct, n) \in Int
  BY <1>1, Rounded, CombinedInt
<1> HIDE DEF time
<1>3. delta \in Nat
  BY <1>1, <1>2
<1>4. a = [ct EXCEPT ![n] = [time |-> delta, conn |-> c]]
  <2>1. CASE n = 0
    BY <2>1 DEF Added
  <2>2. CASE n # 0
    BY <2>2 DEF Added
  <2> QED
    BY <2>1, <2>2
<1>5. n # 0 => delta = KeepAlive - (time + Combined(ct, n))
  OBVIOUS
<1>6. n = 0 => delta = 0
  OBVIOUS
<1> HIDE DEF delta, a
<1>7. /\ a \in Arrays /\ a[n].time = delta
      /\ \A k \in Slots : k # n => a[k] = ct[k]
  BY <1>1, <1>3, <1>4 DEF Arrays
<1>8. \A k \in 0 .. n : k \in Slots /\ a[k].time >= 0 /\ a[k].time # -1
  <2> TAKE k \in 0 .. n
  <2>1. k \in Slots
    BY <1>1 DEF Slots
  <2>2. CASE k = n
    BY <1>3, <1>7, <2>1, <2>2
  <2>3. CASE k # n
    <3>1. k \in 0 .. n - 1
      BY <1>1, <2>3
    <3> QED
      BY <1>1, <1>7, <2>1, <2>3, <3>1
  <2> QED
    BY <2>2, <2>3
<1>9. \A k \in Slots : k >= n + 1 => a[k].time = -1
  BY <1>1, <1>7 DEF Slots
<1>10. Used(a) = n + 1
  <2>1. n + 1 \in 0 .. ConnCount
    BY <1>1
  <2>2. n + 1 < ConnCount => a[n + 1].time = -1
    <3>1. n + 1 < ConnCount => n + 1 \in Slots /\ n + 1 >= n + 1
      BY <1>1 DEF Slots
    <3> QED
      BY <1>9, <3>1
  <2>3. \A k \in 0 .. (n + 1) - 1 : a[k].time # -1
    BY <1>1, <1>8
  <2> QED
    BY <1>7, <2>1, <2>2, <2>3, UsedIs
<1>11. Combined(a, n + 1) = Combined(ct, n) + delta
  <2>1. n + 1 \in 1 .. ConnCount /\ (n + 1) - 1 = n /\ n \in 0 .. n /\ n \in 0 .. ConnCount
    BY <1>1
  <2>2. \A k \in 0 .. n - 1 : a[k].time = ct[k].time
    BY <1>1, <1>7 DEF Slots
  <2>3. Combined(a, n) = Combined(ct, n)
    BY <1>7, <2>1, <2>2, SumsPrefix
  <2>4. Combined(a, n + 1) = Combined(a, n) + a[n].time
    BY <1>7, <2>1, CombinedStep
  <2> QED
    BY <1>7, <2>3, <2>4
<1>12. (r2 \div GranulesPerMs) + Combined(a, n + 1) <= KeepAlive
  <2>1. CASE n = 0
    <3>1. r2 \div GranulesPerMs = KeepAlive
      <4>1. r2 = KeepAlive * GranulesPerMs
        BY <2>1
      <4> QED
        BY <4>1, ReadBack
    <3>2. Combined(a, n + 1) = 0
      BY <1>6, <1>11, <2>1, CombinedStep
    <3> QED
      BY <3>1, <3>2
  <2>2. CASE n # 0
    <3>1. r2 \div GranulesPerMs = time
      BY <2>2 DEF time
    <3> QED
      BY <1>2, <1>3, <1>5, <1>11, <2>2, <3>1
  <2> QED
    BY <2>1, <2>2
<1> QED
  <2>1. InPeriod(a, r2)
    <3>1. (n + 1) - 1 = n
      BY <1>1
    <3> QED
      BY <1>8, <1>9, <1>10, <1>12, <3>1 DEF InPeriod
  <2> QED
    BY <2>1 DEF a, time

\* The head leaves, and its successor gets the timer with its own delta on top
\* of what was left: the sum is the same.
LEMMA InPeriodHeadRemoved ==
    ASSUME NEW ct \in Arrays, NEW r \in Nat, InPeriod(ct, r), Used(ct) > 0,
           ct[0].time = 0, NEW r2,
           Used(ct) > 1 =>
               r2 \div GranulesPerMs = (r \div GranulesPerMs) + ct[1].time
    PROVE  InPeriod(RemoveIndex(ct, 0), r2)
<1> USE ConnCountAssumption
<1> DEFINE n == Used(ct)
           q == RemoveIndex(ct, 0)
           time == r \div GranulesPerMs
<1>1. /\ n \in 1 .. ConnCount /\ 0 \in 0 .. n - 1 /\ 1 \in Slots
      /\ \A k \in Slots : k >= n => ct[k].time = -1
      /\ \A k \in 0 .. n - 1 : ct[k].time >= 0
      /\ time + Combined(ct, n) <= KeepAlive
  BY UsedBounds DEF Slots, InPeriod
<1>2. time \in Nat /\ Combined(ct, n) \in Int
  BY <1>1, Rounded, CombinedInt
<1> HIDE DEF time
<1>3. /\ q \in Arrays
      /\ Used(q) = n - 1
      /\ \A k \in 0 .. n - 2 : q[k].time = IF k = 0 THEN 0 ELSE ct[k + 1].time
      /\ \A k \in Slots : k >= n - 1 => q[k].time = -1
  BY <1>1, RemoveIndexEntries
<1> HIDE DEF q
<1>4. \A k \in 0 .. n - 2 : q[k].time >= 0
  <2> TAKE k \in 0 .. n - 2
  <2>1. k + 1 \in 0 .. n - 1
    BY <1>1
  <2> QED
    BY <1>1, <1>3, <2>1
<1>5. ASSUME n - 1 > 0
      PROVE  (r2 \div GranulesPerMs) + Combined(q, n - 1) <= KeepAlive
  <2>1. n \in 2 .. ConnCount /\ n - 1 \in 1 .. n - 1 /\ (n - 1) + 1 = n /\ 0 \in 0 .. n - 2
    BY <1>1, <1>5
  <2>2. q[0].time = 0 /\ \A k \in 1 .. n - 2 : q[k].time = ct[k + 1].time
    BY <1>3, <2>1
  <2>3. Combined(q, n - 1) = Combined(ct, n) - ct[1].time
    <3>1. \A m \in 1 .. n - 1 : Combined(q, m) = Combined(ct, m + 1) - ct[1].time
      BY <1>3, <2>1, <2>2, SumsBehindHead
    <3> QED
      BY <2>1, <3>1
  <2>4. r2 \div GranulesPerMs = time + ct[1].time
    BY <1>1, <1>5 DEF time
  <2>5. ct[1].time \in Int
    BY <1>1 DEF Arrays
  <2> QED
    BY <1>1, <1>2, <2>3, <2>4, <2>5
<1> QED
  <2>1. (n - 1) - 1 = n - 2
    BY <1>1
  <2> QED
    BY <1>3, <1>4, <1>5, <2>1 DEF InPeriod, q

\* An entry behind the head leaves: the sum is the same, or less if it was the
\* last.
LEMMA InPeriodLaterRemoved ==
    ASSUME NEW ct \in Arrays, NEW r \in Nat, InPeriod(ct, r), ct[0].time = 0,
           NEW i \in 1 .. Used(ct) - 1
    PROVE  InPeriod(RemoveIndex(Merged(ct, i), i), r)
<1> USE ConnCountAssumption
<1> DEFINE n == Used(ct)
           q == RemoveIndex(Merged(ct, i), i)
           time == r \div GranulesPerMs
<1>1. /\ n \in 1 .. ConnCount /\ i \in 1 .. n - 1
      /\ \A k \in Slots : k >= n => ct[k].time = -1
      /\ \A k \in 0 .. n - 1 : ct[k].time >= 0 /\ ct[k].time \in Int
      /\ time + Combined(ct, n) <= KeepAlive
  BY UsedBounds DEF Slots, InPeriod, Arrays
<1>2. time \in Nat
  BY Rounded
<1> HIDE DEF time
<1>3. /\ q \in Arrays
      /\ Used(q) = n - 1
      /\ \A k \in Slots : k >= n - 1 => q[k].time = -1
      /\ \A k \in 0 .. i - 1 : q[k].time = ct[k].time
      /\ i < n - 1 => q[i].time = ct[i].time + ct[i + 1].time
      /\ \A k \in i + 1 .. n - 2 : q[k].time = ct[k + 1].time
      /\ \A m \in 0 .. i : Combined(q, m) = Combined(ct, m)
      /\ \A m \in i + 1 .. n - 1 : Combined(q, m) = Combined(ct, m + 1)
  <2>1. \A k \in 1 .. n - 1 : ct[k].time >= 0
    BY <1>1
  <2> QED
    BY <1>1, <2>1, LaterRemoved
<1> HIDE DEF q, n
<1>4. \A k \in 0 .. n - 2 : q[k].time >= 0
  <2> TAKE k \in 0 .. n - 2
  <2>1. CASE k < i
    <3>1. k \in 0 .. i - 1 /\ k \in 0 .. n - 1
      BY <1>1, <2>1
    <3> QED
      BY <1>1, <1>3, <3>1
  <2>2. CASE k = i
    <3>1. i < n - 1 /\ i \in 0 .. n - 1 /\ i + 1 \in 0 .. n - 1
      BY <1>1, <2>2
    <3> QED
      BY <1>1, <1>3, <2>2, <3>1
  <2>3. CASE k > i
    <3>1. k \in i + 1 .. n - 2 /\ k + 1 \in 0 .. n - 1
      BY <1>1, <2>3
    <3> QED
      BY <1>1, <1>3, <3>1
  <2> QED
    BY <1>1, <2>1, <2>2, <2>3
<1>5. Combined(q, n - 1) <= Combined(ct, n) /\ Combined(q, n - 1) \in Int
      /\ Combined(ct, n) \in Int
  <2>1. n \in 0 .. ConnCount /\ n - 1 \in 0 .. ConnCount
    BY <1>1
  <2>2. Combined(q, n - 1) \in Int /\ Combined(ct, n) \in Int
    BY <1>3, <2>1, CombinedInt
  <2>3. CASE i < n - 1
    <3>1. n - 1 \in i + 1 .. n - 1 /\ (n - 1) + 1 = n
      BY <1>1, <2>3
    <3> QED
      BY <1>3, <2>2, <3>1
  <2>4. CASE i = n - 1
    <3>1. n - 1 \in 0 .. i /\ n \in 1 .. ConnCount /\ n - 1 \in 0 .. n - 1
      BY <1>1, <2>4
    <3>2. Combined(q, n - 1) = Combined(ct, n - 1)
      BY <1>3, <3>1
    <3>3. Combined(ct, n) = Combined(ct, n - 1) + ct[n - 1].time
      BY <3>1, CombinedStep
    <3>4. ct[n - 1].time >= 0 /\ ct[n - 1].time \in Int
      BY <1>1, <3>1
    <3> QED
      BY <2>2, <3>2, <3>3, <3>4
  <2> QED
    BY <1>1, <2>3, <2>4
<1> QED
  <2>1. (n - 1) - 1 = n - 2
    BY <1>1
  <2>2. time + Combined(q, n - 1) <= KeepAlive
    BY <1>1, <1>2, <1>5, TimeAssumption
  <2> QED
    BY <1>3, <1>4, <2>1, <2>2 DEF InPeriod, q, time

LEMMA InTimeInit == Init => InTimeInv
<1>1. Init => ~created /\ failed = {}
  BY DEF Init
<1> QED
  BY <1>1, InitInv DEF InTimeInv, SettimeSucceeds

\* Only a start needs the premise.
LEMMA InTimeStep == InTimeInv /\ [Next /\ StartsInTime]_vars => InTimeInv'
<1> SUFFICES ASSUME InTimeInv, [Next /\ StartsInTime]_vars
             PROVE  InTimeInv'
  OBVIOUS
<1> USE ConnCountAssumption, TimeAssumption
<1> DEFINE n == Used(conn_timers)
<1>0. /\ Inv /\ SettimeSucceeds
      /\ conn_timers \in Arrays /\ rem \in Nat /\ n \in 0 .. ConnCount
      /\ Gettime \in Nat /\ 0 \in Slots /\ 1 \in Slots
      /\ conn_timers[1].time \in Int
  <2>1. Inv /\ SettimeSucceeds
    BY DEF InTimeInv
  <2>2. conn_timers \in Arrays /\ rem \in Nat
    BY <2>1 DEF Inv, TypeOK, Arrays
  <2>3. Gettime \in Nat
    BY <2>2, Rounded DEF Gettime
  <2>4. 0 \in Slots /\ 1 \in Slots
    BY DEF Slots
  <2>5. conn_timers[1].time \in Int
    BY <2>2, <2>4 DEF Arrays
  <2> QED
    BY <2>1, <2>2, <2>3, <2>4, <2>5, UsedBounds
<1>1. Inv'
  <2>1. [Next]_vars
    OBVIOUS
  <2> QED
    BY <1>0, <2>1, NextInv
<1>2. ASSUME created
      PROVE  /\ InPeriod(conn_timers, rem)
             /\ n > 0 => conn_timers[0].time = 0
             /\ conn_timers[1].time # -1 <=> n > 1
             /\ n > 1 => conn_timers[1].time >= 0
  <2>1. InPeriod(conn_timers, rem) /\ conn_timers[0].time \in {-1, 0}
    BY <1>2 DEF InTimeInv, Inv, TimerHasHead
  <2>2. n > 0 => conn_timers[0].time = 0
    BY <1>0, <2>1, UsedBounds
  <2>3. conn_timers[1].time # -1 <=> n > 1
    BY <1>0, <2>1, UsedBounds DEF InPeriod
  <2>4. n > 1 => 1 \in 0 .. n - 1
    BY <1>0
  <2> QED
    BY <2>1, <2>2, <2>3, <2>4 DEF InPeriod
<1>3. CASE TimerInit
  <2>1. UNCHANGED <<failed, rem>> /\ ~created /\ created \in BOOLEAN
    BY <1>0, <1>3 DEF TimerInit, Inv, TypeOK
  <2>2. ASSUME created'
        PROVE  InPeriod(conn_timers', rem')
    <3>1. conn_timers' = [i \in Slots |-> [time |-> -1, conn |-> conn_timers[i].conn]]
      BY <1>3, <2>1, <2>2 DEF TimerInit
    <3>2. conn_timers' \in Arrays
      BY <1>1 DEF Inv, TypeOK, Arrays
    <3>3. \A k \in Slots : conn_timers'[k].time = -1
      BY <3>1
    <3>4. Used(conn_timers') = 0
      BY <1>0, <3>2, <3>3, UsedBounds
    <3> QED
      BY <3>3, <3>4 DEF InPeriod
  <2> QED
    BY <1>0, <1>1, <2>1, <2>2 DEF InTimeInv, SettimeSucceeds
<1>4. CASE TimerDeinit
  <2>1. ~created' /\ failed' = failed
    BY <1>4 DEF TimerDeinit
  <2> QED
    BY <1>0, <1>1, <2>1 DEF InTimeInv, SettimeSucceeds
<1>5. CASE StartFull
  <2>1. UNCHANGED <<conn_timers, rem, created, failed>>
    BY <1>5 DEF StartFull
  <2> QED
    BY <1>0, <1>1, <1>2, <2>1 DEF InTimeInv, SettimeSucceeds
<1>6. ASSUME NEW c \in Conns, StartRoom(c), StartsInTime
      PROVE  InTimeInv'
  <2> DEFINE time == IF conn_timers[0].time # -1 THEN Gettime ELSE 0
  <2>1. /\ created /\ created' = created /\ failed' = failed
        /\ n < ConnCount
        /\ conn_timers' = Added(conn_timers, c, time)
        /\ rem' = IF time = 0 THEN KeepAlive * GranulesPerMs ELSE rem
    BY <1>6 DEF StartRoom, Running
  <2>2. n = 0 \/ Gettime > 0
    BY <1>6 DEF StartsInTime, TimerStart
  <2>3. n = 0 <=> conn_timers[0].time = -1
    BY <1>0, UsedBounds
  <2>4. rem' = IF n = 0 THEN KeepAlive * GranulesPerMs ELSE rem
    BY <2>1, <2>2, <2>3
  <2>5. conn_timers' = Added(conn_timers, c, Gettime)
    <3>1. n = 0 => Added(conn_timers, c, time) = Added(conn_timers, c, Gettime)
      BY DEF Added
    <3> QED
      BY <2>1, <2>3, <3>1
  <2>6. InPeriod(conn_timers', rem')
    BY <1>0, <1>2, <2>1, <2>4, <2>5, InPeriodAdded DEF Gettime
  <2> QED
    BY <1>0, <1>1, <2>1, <2>6 DEF InTimeInv, SettimeSucceeds
<1>7. ASSUME NEW c \in Conns, StopHead(c)
      PROVE  InTimeInv'
  <2> DEFINE time == IF conn_timers[1].time # -1 THEN Gettime + conn_timers[1].time ELSE 0
  <2>1. /\ created /\ created' = created /\ n > 0
        /\ conn_timers' = RemoveIndex(conn_timers, 0)
        /\ rem' = ArmedFor(time) /\ failed' = failed \cup Refused(time)
    BY <1>0, <1>7, UsedBounds DEF StopHead, Running, Valid
  <2>2. time \in Nat
    BY <1>0, <1>2, <2>1
  <2>3. n > 1 => time = Gettime + conn_timers[1].time
    BY <1>2, <2>1
  <2> HIDE DEF time
  <2>4. rem' = time * GranulesPerMs /\ failed' = failed
    BY <2>1, <2>2 DEF ArmedFor, Refused
  <2>5. rem' \div GranulesPerMs = time
    BY <2>2, <2>4, ReadBack
  <2>6. n > 1 => rem' \div GranulesPerMs = (rem \div GranulesPerMs) + conn_timers[1].time
    BY <2>3, <2>5 DEF Gettime
  <2>7. InPeriod(conn_timers', rem')
    BY <1>0, <1>2, <2>1, <2>6, InPeriodHeadRemoved
  <2> QED
    BY <1>0, <1>1, <2>1, <2>4, <2>7 DEF InTimeInv, SettimeSucceeds
<1>8. ASSUME NEW c \in Conns, StopLater(c)
      PROVE  InTimeInv'
  <2> DEFINE i == FindIndex(conn_timers, c)
  <2>1. /\ created /\ created' = created /\ Valid(conn_timers, i) /\ i # 0
        /\ conn_timers' = RemoveIndex(Merged(conn_timers, i), i)
        /\ rem' = rem /\ failed' = failed
    BY <1>8 DEF StopLater, Running, Merged
  <2>2. \A k \in Slots : k >= Used(conn_timers) => conn_timers[k].time = -1
    BY <1>2, <2>1 DEF InPeriod
  <2>3. i \in 1 .. n - 1 /\ n > 0
    <3>1. i \in 0 .. n - 1
      BY <1>0, <2>1, <2>2, FindIndexFirst
    <3> HIDE DEF i
    <3> QED
      BY <1>0, <2>1, <3>1
  <2> HIDE DEF i
  <2>4. InPeriod(conn_timers', rem')
    BY <1>0, <1>2, <2>1, <2>3, InPeriodLaterRemoved
  <2> QED
    BY <1>0, <1>1, <2>1, <2>4 DEF InTimeInv, SettimeSucceeds
<1>9. CASE SignalHandler
  <2>1. /\ created /\ created' = created /\ n > 0 /\ rem = 0
        /\ conn_timers' = RemoveIndex(conn_timers, 0)
        /\ Valid(conn_timers, 0)
    BY <1>0, <1>9, UsedBounds DEF SignalHandler, Inv, TimerHasHead, Valid
  <2>2. /\ rem' = IF n > 1 THEN ArmedFor(conn_timers[1].time) ELSE rem
        /\ failed' = failed \cup (IF n > 1 THEN Refused(conn_timers[1].time) ELSE {})
    BY <1>2, <1>9, <2>1 DEF SignalHandler
  <2>3. failed' = failed
    BY <1>0, <1>2, <2>1, <2>2 DEF Refused
  <2>4. n > 1 => rem' \div GranulesPerMs = (rem \div GranulesPerMs) + conn_timers[1].time
    <3>1. ASSUME n > 1
          PROVE  rem' \div GranulesPerMs = conn_timers[1].time
      <4>1. conn_timers[1].time \in Nat
        BY <1>0, <1>2, <2>1, <3>1
      <4>2. rem' = conn_timers[1].time * GranulesPerMs
        BY <2>2, <3>1, <4>1 DEF ArmedFor
      <4> QED
        BY <4>1, <4>2, ReadBack
    <3>2. rem \div GranulesPerMs = 0
      BY <2>1
    <3> QED
      BY <1>0, <3>1, <3>2
  <2>5. InPeriod(conn_timers', rem')
    BY <1>0, <1>2, <2>1, <2>4, InPeriodHeadRemoved
  <2> QED
    BY <1>0, <1>1, <2>1, <2>3, <2>5 DEF InTimeInv, SettimeSucceeds
<1>10. CASE Tick
  <2>1. /\ created /\ created' = created /\ failed' = failed /\ conn_timers' = conn_timers
        /\ rem > 0 /\ rem' = rem - 1
    BY <1>0, <1>10 DEF Tick, Inv
  <2>2. /\ rem' \in Nat /\ rem' \div GranulesPerMs \in Nat /\ rem \div GranulesPerMs \in Nat
        /\ rem' \div GranulesPerMs <= rem \div GranulesPerMs
    BY <1>0, <2>1
  <2>3. InPeriod(conn_timers, rem')
    <3>1. Combined(conn_timers, n) \in Int
      BY <1>0, CombinedInt
    <3> QED
      BY <1>2, <2>1, <2>2, <3>1 DEF InPeriod
  <2> QED
    BY <1>0, <1>1, <2>1, <2>3 DEF InTimeInv, SettimeSucceeds
<1>11. CASE UNCHANGED vars
  <2>1. UNCHANGED <<conn_timers, rem, created, failed>>
    BY <1>11 DEF vars
  <2> QED
    BY <1>0, <1>1, <1>2, <2>1 DEF InTimeInv, SettimeSucceeds
<1> QED
  BY <1>3, <1>4, <1>5, <1>6, <1>7, <1>8, <1>9, <1>10, <1>11
     DEF Next, TimerStart, TimerStop

\* The assertion timer.c:83 can fail after a late start only: as long as every
\* start behind other timers reads a millisecond or more, however closely the
\* starts follow each other and whatever else the program does, no delta and no
\* sum that timer_settime is given is negative.  (A late start does break it,
\* and the sleep of shttp_sock_next is no help: the run timer_settime.)
THEOREM OnlyLateStartsRefused == InTimeSpec => []SettimeSucceeds
<1>1. InTimeInv => SettimeSucceeds
  BY DEF InTimeInv
<1> QED
  BY InTimeInit, InTimeStep, <1>1, PTL DEF InTimeSpec

-----------------------------------------------------------------------------
(* Theorem: the delta list implements the queue of independent timers *)

\* the queue that a list and its windows stand for
QueueOf(ct, w) ==
    [i \in 1 .. Used(ct) |->
        [conn |-> ct[i - 1].conn, from |-> w[i - 1].from, to |-> w[i - 1].to]]

QueueTimers == [conn : Conns, from : Int, to : Int]

\* The queue has one timer for each entry in use, in the order of the list.
LEMMA QueueOfIs ==
    ASSUME NEW ct \in Arrays, NEW w \in Windows
    PROVE  /\ QueueOf(ct, w) \in Seq(QueueTimers)
           /\ Len(QueueOf(ct, w)) = Used(ct)
           /\ DOMAIN QueueOf(ct, w) = 1 .. Used(ct)
           /\ \A i \in 1 .. Used(ct) :
                 QueueOf(ct, w)[i] =
                     [conn |-> ct[i - 1].conn, from |-> w[i - 1].from, to |-> w[i - 1].to]
<1> USE ConnCountAssumption
<1>1. Used(ct) \in 0 .. ConnCount /\ Used(ct) \in Nat
  BY UsedBounds
<1>2. ASSUME NEW i \in 1 .. Used(ct)
      PROVE  [conn |-> ct[i - 1].conn, from |-> w[i - 1].from, to |-> w[i - 1].to] \in QueueTimers
  <2>1. i - 1 \in Slots
    BY <1>1 DEF Slots
  <2>2. w[i - 1] \in [from : Int, to : Int] /\ ct[i - 1] \in [time : Int, conn : Conns]
    BY <2>1 DEF Windows, Arrays
  <2> QED
    BY <2>2 DEF QueueTimers
<1>3. QueueOf(ct, w) \in Seq(QueueTimers) /\ Len(QueueOf(ct, w)) = Used(ct)
  BY <1>1, <1>2, IsASeq DEF QueueOf
<1>4. DOMAIN QueueOf(ct, w) = 1 .. Used(ct)
  BY DEF QueueOf
<1>5. \A i \in 1 .. Used(ct) : QueueOf(ct, w)[i] =
         [conn |-> ct[i - 1].conn, from |-> w[i - 1].from, to |-> w[i - 1].to]
  BY DEF QueueOf
<1> QED
  BY <1>3, <1>4, <1>5

\* A sequence that agrees with the queue entry by entry is the queue.
LEMMA QueueOfEquals ==
    ASSUME NEW ct \in Arrays, NEW w \in Windows,
           NEW q \in Seq(QueueTimers), Len(q) = Used(ct),
           \A k \in 0 .. Used(ct) - 1 :
               q[k + 1] = [conn |-> ct[k].conn, from |-> w[k].from, to |-> w[k].to]
    PROVE  QueueOf(ct, w) = q
<1>1. /\ QueueOf(ct, w) \in Seq(QueueTimers)
      /\ Len(QueueOf(ct, w)) = Used(ct)
      /\ \A i \in 1 .. Used(ct) : QueueOf(ct, w)[i] =
            [conn |-> ct[i - 1].conn, from |-> w[i - 1].from, to |-> w[i - 1].to]
  BY QueueOfIs
<1>2. Used(ct) \in Nat
  BY ConnCountAssumption, UsedBounds
<1>3. \A i \in 1 .. Used(ct) : q[i] = QueueOf(ct, w)[i]
  <2> TAKE i \in 1 .. Used(ct)
  <2>1. i - 1 \in 0 .. Used(ct) - 1 /\ (i - 1) + 1 = i
    BY <1>2
  <2>2. q[(i - 1) + 1] = [conn |-> ct[i - 1].conn, from |-> w[i - 1].from, to |-> w[i - 1].to]
    BY <2>1
  <2> QED
    BY <1>1, <2>1, <2>2
<1> QED
  BY <1>1, <1>3, SeqEqual

\* Before and after a step the arrays have their types.
LEMMA ArraysPrimed ==
    ASSUME PInv, PInv'
    PROVE  /\ conn_timers \in Arrays /\ conn_timers' \in Arrays
           /\ window \in Windows /\ window' \in Windows
           /\ Used(conn_timers) \in 0 .. ConnCount
<1>1. conn_timers \in Arrays /\ window \in Windows /\ Used(conn_timers) \in 0 .. ConnCount
  BY PInvFacts DEF PInv
<1>2. conn_timers' \in Arrays /\ window' \in Windows
  BY DEF PInv, Inv, TypeOK, Arrays
<1> QED
  BY <1>1, <1>2

\* A list without entries is the empty queue.
LEMMA EmptyQueue ==
    ASSUME NEW ct \in Arrays, NEW w \in Windows, Used(ct) = 0
    PROVE  QueueOf(ct, w) = <<>>
BY QueueOfIs

\* An init opens an empty queue, or fails.
LEMMA OpenStep == PInv /\ PacedTimerInit => Queue!Open
<1> SUFFICES ASSUME PInv, PacedTimerInit
             PROVE  Queue!Open
  OBVIOUS
<1>1. /\ PInv' /\ ~created
      /\ \/ status' = "TIMER_CREATE" /\ created' = FALSE
         \/ status' = "OK" /\ created' = TRUE /\ Used(conn_timers') = 0
  BY InitEffect
<1>2. Used(conn_timers') = 0 => QueueOf(conn_timers', window') = <<>>
  BY <1>1, ArraysPrimed, EmptyQueue
<1> QED
  BY <1>1, <1>2 DEF Queue!Open, QueueOf

\* A deinit closes the queue.
LEMMA CloseStep == PInv /\ PacedTimerDeinit => Queue!Close
  BY DeinitEffect DEF Queue!Close

\* timer_add appends to the queue, or refuses.
LEMMA StartStep ==
    ASSUME NEW c \in Conns, PInv, PacedStart(c)
    PROVE  Queue!Start(c) \/ Queue!StartRefused
<1> USE ConnCountAssumption
<1> DEFINE n == Used(conn_timers)
           q == QueueOf(conn_timers, window)
           new == [conn |-> c, from |-> Period, to |-> Period + Slack]
<1>1. /\ PInv' /\ created /\ created' /\ UNCHANGED created
  BY StartEffect
<1>2. /\ conn_timers \in Arrays /\ conn_timers' \in Arrays
      /\ window \in Windows /\ window' \in Windows /\ n \in 0 .. ConnCount
  BY <1>1, ArraysPrimed
<1>3. /\ q \in Seq(QueueTimers) /\ Len(q) = n
      /\ \A i \in 1 .. n : q[i] = [conn |-> conn_timers[i - 1].conn,
                                   from |-> window[i - 1].from, to |-> window[i - 1].to]
  BY <1>2, QueueOfIs
<1>4. CASE /\ n = ConnCount
           /\ status' = "TIMER_LIMIT"
           /\ UNCHANGED <<conn_timers, window>>
  <2>1. Len(q) = ConnCount
    BY <1>3, <1>4
  <2>2. QueueOf(conn_timers', window') = q
    BY <1>4
  <2> QED
    BY <1>1, <1>4, <2>1, <2>2 DEF Queue!StartRefused, QueueOf
<1>5. CASE /\ n < ConnCount
           /\ status' = "OK"
           /\ Used(conn_timers') = n + 1
           /\ conn_timers'[n].conn = c
           /\ window'[n] = [from |-> Period, to |-> Period + Slack]
           /\ \A k \in Slots : k # n =>
                 conn_timers'[k] = conn_timers[k] /\ window'[k] = window[k]
  <2>1. new \in QueueTimers
    <3>1. Period \in Int /\ Period + Slack \in Int
      BY PeriodFacts
    <3> QED
      BY <3>1 DEF QueueTimers
  <2> HIDE DEF q, new
  <2>2. /\ Append(q, new) \in Seq(QueueTimers)
        /\ Len(Append(q, new)) = n + 1
        /\ \A i \in 1 .. n : Append(q, new)[i] = q[i]
        /\ Append(q, new)[n + 1] = new
    BY <1>3, <2>1, AppendProperties
  <2>3. \A k \in 0 .. (n + 1) - 1 : Append(q, new)[k + 1] =
            [conn |-> conn_timers'[k].conn, from |-> window'[k].from, to |-> window'[k].to]
    <3> TAKE k \in 0 .. (n + 1) - 1
    <3>1. CASE k = n
      BY <1>5, <2>2, <3>1 DEF new
    <3>2. CASE k # n
      <4>1. k + 1 \in 1 .. n /\ (k + 1) - 1 = k /\ k \in Slots
        BY <1>2, <1>5, <3>2 DEF Slots
      <4>2. Append(q, new)[k + 1] = [conn |-> conn_timers[(k + 1) - 1].conn,
                from |-> window[(k + 1) - 1].from, to |-> window[(k + 1) - 1].to]
        BY <1>3, <2>2, <4>1
      <4> QED
        BY <1>5, <3>2, <4>1, <4>2
    <3> QED
      BY <3>1, <3>2
  <2>4. QueueOf(conn_timers', window') = Append(q, new)
    <3> DEFINE after == Append(q, new)
    <3>1. after \in Seq(QueueTimers) /\ Len(after) = Used(conn_timers')
      BY <1>5, <2>2
    <3>2. \A k \in 0 .. Used(conn_timers') - 1 : after[k + 1] =
            [conn |-> conn_timers'[k].conn, from |-> window'[k].from, to |-> window'[k].to]
      BY <1>5, <2>3
    <3> HIDE DEF after
    <3>3. QueueOf(conn_timers', window') = after
      BY <1>2, <3>1, <3>2, QueueOfEquals
    <3> QED
      BY <3>3 DEF after
  <2>5. Len(q) < ConnCount
    BY <1>3, <1>5
  <2> QED
    BY <1>1, <1>5, <2>4, <2>5 DEF Queue!Start, Queue!Fresh, QueueOf, q, new
<1> QED
  BY <1>4, <1>5, StartEffect

\* What it means for a timer of the queue to be due sooner.
LEMMA EarlierIs ==
    ASSUME NEW timer \in QueueTimers, NEW from \in Int, NEW to \in Int
    PROVE  [timer EXCEPT !.from = @ - from, !.to = @ - to] =
               [conn |-> timer.conn, from |-> timer.from - from, to |-> timer.to - to]
<1> DEFINE e == [timer EXCEPT !.from = @ - from, !.to = @ - to]
<1>1. timer.from - from \in Int /\ timer.to - to \in Int
  BY DEF QueueTimers
<1>2. e \in QueueTimers
  BY <1>1, Zenon DEF QueueTimers
<1>3. e.conn = timer.conn /\ e.from = timer.from - from /\ e.to = timer.to - to
  BY DEF QueueTimers
<1> HIDE DEF e
<1>4. e = [conn |-> e.conn, from |-> e.from, to |-> e.to]
  BY <1>2 DEF QueueTimers
<1>5. e = [conn |-> timer.conn, from |-> timer.from - from, to |-> timer.to - to]
  BY <1>3, <1>4
<1> QED
  BY <1>5 DEF e

\* timer_stop takes the oldest timer of the connection out of the queue.
LEMMA StopStep ==
    ASSUME NEW c \in Conns, PInv, PacedStop(c)
    PROVE  Queue!Stop(c)
<1> USE ConnCountAssumption
<1> DEFINE n == Used(conn_timers)
           q == QueueOf(conn_timers, window)
<1>1. /\ PInv' /\ created /\ UNCHANGED <<created, status>>
      /\ Used(conn_timers') = n - 1
  BY StopEffect
<1>2. PICK i \in 0 .. n - 1 :
         /\ conn_timers[i].conn = c
         /\ \A k \in 0 .. i - 1 : conn_timers[k].conn # c
         /\ \A k \in 0 .. n - 2 :
               /\ conn_timers'[k].conn =
                      IF k < i THEN conn_timers[k].conn ELSE conn_timers[k + 1].conn
               /\ window'[k] =
                      IF i = 0 THEN [from |-> window[k + 1].from - Slack,
                                     to |-> window[k + 1].to]
                      ELSE IF k < i THEN window[k] ELSE window[k + 1]
  BY StopEffect
<1>3. /\ conn_timers \in Arrays /\ conn_timers' \in Arrays
      /\ window \in Windows /\ window' \in Windows /\ n \in 0 .. ConnCount
  BY <1>1, ArraysPrimed
<1>4. /\ q \in Seq(QueueTimers) /\ Len(q) = n /\ DOMAIN q = 1 .. n
      /\ \A j \in 1 .. n : q[j] = [conn |-> conn_timers[j - 1].conn,
                                   from |-> window[j - 1].from, to |-> window[j - 1].to]
  BY <1>3, QueueOfIs
<1> HIDE DEF q
<1>5. \A k \in 0 .. n - 1 : /\ k + 1 \in 1 .. n
                            /\ q[k + 1] = [conn |-> conn_timers[k].conn,
                                           from |-> window[k].from, to |-> window[k].to]
  <2> TAKE k \in 0 .. n - 1
  <2>1. k + 1 \in 1 .. n /\ (k + 1) - 1 = k
    BY <1>3
  <2>2. q[k + 1] = [conn |-> conn_timers[(k + 1) - 1].conn,
                    from |-> window[(k + 1) - 1].from, to |-> window[(k + 1) - 1].to]
    BY <1>4, <2>1
  <2> QED
    BY <2>1, <2>2
<1>6. \A j \in 1 .. (i + 1) - 1 : q[j].conn # c
  <2> TAKE j \in 1 .. (i + 1) - 1
  <2>1. j - 1 \in 0 .. i - 1 /\ j \in 1 .. n
    BY <1>3
  <2>2. q[j].conn = conn_timers[j - 1].conn
    BY <1>4, <2>1
  <2> QED
    BY <1>2, <2>1, <2>2
<1>7. i + 1 \in DOMAIN q /\ q[i + 1].conn = c
  BY <1>2, <1>4, <1>5
<1> DEFINE sooner == [j \in DOMAIN q |-> [q[j] EXCEPT !.from = @ - Slack, !.to = @ - 0]]
           src == IF i + 1 = 1 THEN sooner ELSE q
<1>8. /\ src \in Seq(QueueTimers) /\ Len(src) = n
      /\ \A k \in 0 .. n - 1 : src[k + 1] =
            [conn |-> conn_timers[k].conn,
             from |-> IF i = 0 THEN window[k].from - Slack ELSE window[k].from,
             to |-> window[k].to]
  <2>1. Slack \in Int
    BY PeriodFacts
  <2>2. \A k \in 0 .. n - 1 : /\ window[k].from \in Int /\ window[k].to \in Int
                              /\ conn_timers[k].conn \in Conns
    <3> TAKE k \in 0 .. n - 1
    <3>1. k \in Slots
      BY <1>3 DEF Slots
    <3>2. window[k] \in [from : Int, to : Int] /\ conn_timers[k] \in [time : Int, conn : Conns]
      BY <1>3, <3>1 DEF Windows, Arrays
    <3> QED
      BY <3>2
  <2>3. CASE i = 0
    <3>1. \A j \in 1 .. n : sooner[j] = [conn |-> conn_timers[j - 1].conn,
                                         from |-> window[j - 1].from - Slack,
                                         to |-> window[j - 1].to]
      <4> TAKE j \in 1 .. n
      <4>1. /\ q[j] = [conn |-> conn_timers[j - 1].conn,
                       from |-> window[j - 1].from, to |-> window[j - 1].to]
            /\ j - 1 \in 0 .. n - 1
        BY <1>3, <1>4
      <4>2. window[j - 1].to - 0 = window[j - 1].to
        BY <2>2, <4>1
      <4>3. sooner[j] = [q[j] EXCEPT !.from = @ - Slack, !.to = @ - 0]
        BY <1>4
      <4>4. q[j] \in QueueTimers
        BY <2>2, <4>1 DEF QueueTimers
      <4>5. 0 \in Int
        OBVIOUS
      <4> HIDE DEF sooner
      <4>6. sooner[j] = [conn |-> q[j].conn, from |-> q[j].from - Slack, to |-> q[j].to - 0]
        BY <2>1, <4>3, <4>4, <4>5, EarlierIs
      <4> QED
        BY <4>1, <4>2, <4>6
    <3>2. \A j \in 1 .. n : sooner[j] \in QueueTimers
      <4> TAKE j \in 1 .. n
      <4>1. j - 1 \in 0 .. n - 1
        BY <1>3
      <4>2. /\ window[j - 1].from - Slack \in Int /\ window[j - 1].to \in Int
            /\ conn_timers[j - 1].conn \in Conns
        BY <2>1, <2>2, <4>1
      <4> HIDE DEF sooner
      <4>3. sooner[j] = [conn |-> conn_timers[j - 1].conn,
                         from |-> window[j - 1].from - Slack,
                         to |-> window[j - 1].to]
        BY <3>1
      <4> QED
        BY <4>2, <4>3 DEF QueueTimers
    <3>3. sooner \in Seq(QueueTimers) /\ Len(sooner) = n
      <4>1. sooner = [j \in 1 .. n |-> sooner[j]]
        BY <1>4
      <4>2. n \in Nat
        BY <1>3
      <4> HIDE DEF sooner
      <4> QED
        BY <3>2, <4>1, <4>2, IsASeq
    <3> HIDE DEF sooner
    <3>4. \A k \in 0 .. n - 1 : sooner[k + 1] =
              [conn |-> conn_timers[k].conn, from |-> window[k].from - Slack, to |-> window[k].to]
      <4> TAKE k \in 0 .. n - 1
      <4>1. k + 1 \in 1 .. n /\ (k + 1) - 1 = k
        BY <1>3
      <4> QED
        BY <3>1, <4>1
    <3> QED
      BY <2>3, <3>3, <3>4
  <2>4. CASE i # 0
    <3>0. i + 1 # 1
      BY <1>3, <2>4
    <3>1. src = q
      BY <3>0
    <3> HIDE DEF src
    <3>2. \A k \in 0 .. n - 1 : src[k + 1] =
              [conn |-> conn_timers[k].conn,
               from |-> IF i = 0 THEN window[k].from - Slack ELSE window[k].from,
               to |-> window[k].to]
      <4> TAKE k \in 0 .. n - 1
      <4>1. (IF i = 0 THEN window[k].from - Slack ELSE window[k].from) = window[k].from
        BY <2>4
      <4>2. src[k + 1] = [conn |-> conn_timers[k].conn,
                          from |-> window[k].from, to |-> window[k].to]
        BY <1>5, <3>1
      <4> QED
        BY <4>1, <4>2
    <3> QED
      BY <1>4, <3>1, <3>2
  <2> QED
    BY <2>3, <2>4
<1> DEFINE rest == SubSeq(src, 1, (i + 1) - 1) \o SubSeq(src, (i + 1) + 1, Len(src))
<1>9. /\ rest \in Seq(QueueTimers) /\ Len(rest) = n - 1
      /\ \A j \in 1 .. n - 1 : rest[j] = IF j < i + 1 THEN src[j] ELSE src[j + 1]
  <2> HIDE DEF src
  <2>1. i + 1 \in 1 .. Len(src)
    BY <1>3, <1>8
  <2> QED
    BY <1>8, <2>1, RemovedEntry
<1>10. QueueOf(conn_timers', window') = rest
  <2> HIDE DEF src, rest
  <2>1. \A k \in 0 .. (n - 1) - 1 : rest[k + 1] =
            [conn |-> conn_timers'[k].conn, from |-> window'[k].from, to |-> window'[k].to]
    <3> TAKE k \in 0 .. (n - 1) - 1
    <3>1. /\ k + 1 \in 1 .. n - 1 /\ k \in 0 .. n - 2 /\ k \in 0 .. n - 1
          /\ k + 1 \in 0 .. n - 1
      BY <1>3
    <3>2. rest[k + 1] = IF k + 1 < i + 1 THEN src[k + 1] ELSE src[(k + 1) + 1]
      BY <1>9, <3>1
    <3>3. CASE k < i
      <4>1. rest[k + 1] = src[k + 1] /\ i # 0
        BY <3>1, <3>2, <3>3
      <4>2. src[k + 1] = [conn |-> conn_timers[k].conn,
                          from |-> window[k].from, to |-> window[k].to]
        BY <1>8, <3>1, <4>1
      <4>3. conn_timers'[k].conn = conn_timers[k].conn /\ window'[k] = window[k]
        BY <1>2, <3>1, <3>3, <4>1
      <4> QED
        BY <4>1, <4>2, <4>3
    <3>4. CASE ~(k < i)
      <4>1. rest[k + 1] = src[(k + 1) + 1]
        BY <3>1, <3>2, <3>4
      <4>2. src[(k + 1) + 1] =
               [conn |-> conn_timers[k + 1].conn,
                from |-> IF i = 0 THEN window[k + 1].from - Slack ELSE window[k + 1].from,
                to |-> window[k + 1].to]
        BY <1>8, <3>1
      <4>3. /\ conn_timers'[k].conn = conn_timers[k + 1].conn
            /\ i = 0 => window'[k] = [from |-> window[k + 1].from - Slack, to |-> window[k + 1].to]
            /\ i # 0 => window'[k] = window[k + 1]
        BY <1>2, <3>1, <3>4
      <4> QED
        BY <4>1, <4>2, <4>3
    <3> QED
      BY <3>3, <3>4
  <2> QED
    BY <1>1, <1>3, <1>9, <2>1, QueueOfEquals
<1>11. QueueOf(conn_timers', window') =
          Queue!RemoveAt(IF i + 1 = 1 THEN Queue!MapQueue(q, Slack, 0) ELSE q, i + 1)
  <2>1. Queue!MapQueue(q, Slack, 0) = sooner
    BY DEF Queue!MapQueue, Queue!Earlier
  <2> QED
    BY <1>10, <2>1 DEF Queue!RemoveAt
<1> HIDE DEF src, sooner, rest
<1>12. \E j \in DOMAIN q :
          /\ q[j].conn = c
          /\ \A m \in 1 .. j - 1 : q[m].conn # c
          /\ QueueOf(conn_timers', window') =
                Queue!RemoveAt(IF j = 1 THEN Queue!MapQueue(q, Slack, 0) ELSE q, j)
  BY <1>6, <1>7, <1>11
<1> QED
  BY <1>1, <1>12 DEF Queue!Stop, QueueOf, q

\* The signal handler fires the timer at the front, which is due.
LEMMA FireStep == PInv /\ PacedHandler => Queue!Fire
<1> SUFFICES ASSUME PInv, PacedHandler
             PROVE  Queue!Fire
  OBVIOUS
<1> USE ConnCountAssumption
<1> DEFINE n == Used(conn_timers)
           q == QueueOf(conn_timers, window)
<1>1. /\ PInv' /\ created /\ UNCHANGED <<created, status>>
      /\ n > 0 /\ window[0].from <= 0
      /\ Used(conn_timers') = n - 1
      /\ \A k \in 0 .. n - 2 :
            /\ conn_timers'[k].conn = conn_timers[k + 1].conn
            /\ window'[k] = window[k + 1]
  BY HandlerEffect
<1>2. /\ conn_timers \in Arrays /\ conn_timers' \in Arrays
      /\ window \in Windows /\ window' \in Windows /\ n \in 0 .. ConnCount
  BY <1>1, ArraysPrimed
<1>3. /\ q \in Seq(QueueTimers) /\ Len(q) = n
      /\ \A j \in 1 .. n : q[j] = [conn |-> conn_timers[j - 1].conn,
                                   from |-> window[j - 1].from, to |-> window[j - 1].to]
  BY <1>2, QueueOfIs
<1> HIDE DEF q
<1>4. q # <<>> /\ q[1].from <= 0
  <2>1. 1 \in 1 .. n /\ 1 - 1 = 0
    BY <1>1, <1>2
  <2>2. q[1] = [conn |-> conn_timers[1 - 1].conn,
                from |-> window[1 - 1].from, to |-> window[1 - 1].to]
    BY <1>3, <2>1
  <2>3. q[1].from = window[0].from
    BY <2>1, <2>2
  <2> QED
    BY <1>1, <1>3, <2>3
<1>5. /\ Tail(q) \in Seq(QueueTimers) /\ Len(Tail(q)) = n - 1
      /\ \A j \in 1 .. n - 1 : Tail(q)[j] = q[j + 1]
  <2>1. Len(Tail(q)) = n - 1
    BY <1>3, <1>4, HeadTailProperties
  <2> QED
    BY <1>3, <1>4, <2>1, HeadTailProperties
<1>6. QueueOf(conn_timers', window') = Tail(q)
  <2>1. \A k \in 0 .. (n - 1) - 1 : Tail(q)[k + 1] =
            [conn |-> conn_timers'[k].conn, from |-> window'[k].from, to |-> window'[k].to]
    <3> TAKE k \in 0 .. (n - 1) - 1
    <3>1. /\ k \in 0 .. n - 2 /\ k + 1 \in 1 .. n - 1 /\ (k + 1) + 1 \in 1 .. n
          /\ ((k + 1) + 1) - 1 = k + 1
      BY <1>2
    <3>2. Tail(q)[k + 1] = q[(k + 1) + 1]
      BY <1>5, <3>1
    <3>3. q[(k + 1) + 1] = [conn |-> conn_timers[k + 1].conn,
                            from |-> window[k + 1].from, to |-> window[k + 1].to]
      <4>1. q[(k + 1) + 1] = [conn |-> conn_timers[((k + 1) + 1) - 1].conn,
                              from |-> window[((k + 1) + 1) - 1].from,
                              to |-> window[((k + 1) + 1) - 1].to]
        BY <1>3, <3>1
      <4> QED
        BY <3>1, <4>1
    <3>4. conn_timers'[k].conn = conn_timers[k + 1].conn /\ window'[k] = window[k + 1]
      BY <1>1, <3>1
    <3> QED
      BY <3>2, <3>3, <3>4
  <2> QED
    <3> DEFINE after == Tail(q)
    <3>1. after \in Seq(QueueTimers) /\ Len(after) = Used(conn_timers')
      BY <1>1, <1>5
    <3>2. \A k \in 0 .. Used(conn_timers') - 1 : after[k + 1] =
            [conn |-> conn_timers'[k].conn, from |-> window'[k].from, to |-> window'[k].to]
      BY <1>1, <2>1
    <3> HIDE DEF after
    <3>3. QueueOf(conn_timers', window') = after
      BY <1>2, <3>1, <3>2, QueueOfEquals
    <3> QED
      BY <3>3 DEF after
<1> QED
  BY <1>1, <1>4, <1>6 DEF Queue!Fire, QueueOf, q

\* A granule passes for every timer of the queue, none of which is overdue.
LEMMA TickStep == PInv /\ PacedTick => Queue!Tick
<1> SUFFICES ASSUME PInv, PacedTick
             PROVE  Queue!Tick
  OBVIOUS
<1> USE ConnCountAssumption
<1> DEFINE n == Used(conn_timers)
           q == QueueOf(conn_timers, window)
<1>1. /\ PInv' /\ created /\ UNCHANGED <<created, status, conn_timers>>
      /\ n > 0
      /\ \A k \in 0 .. n - 1 :
            /\ window[k].to > 0
            /\ window'[k] = [from |-> window[k].from - 1, to |-> window[k].to - 1]
  BY TickEffect
<1>2. /\ conn_timers \in Arrays /\ conn_timers' \in Arrays
      /\ window \in Windows /\ window' \in Windows /\ n \in 0 .. ConnCount
  BY <1>1, ArraysPrimed
<1>3. /\ q \in Seq(QueueTimers) /\ Len(q) = n /\ DOMAIN q = 1 .. n
      /\ \A j \in 1 .. n : q[j] = [conn |-> conn_timers[j - 1].conn,
                                   from |-> window[j - 1].from, to |-> window[j - 1].to]
  BY <1>2, QueueOfIs
<1> HIDE DEF q
<1>4. q # <<>>
  BY <1>1, <1>3
<1>5. \A j \in DOMAIN q : j - 1 \in 0 .. n - 1 /\ q[j] \in QueueTimers /\ q[j].to > 0
  <2> TAKE j \in DOMAIN q
  <2>1. j \in 1 .. n /\ j - 1 \in 0 .. n - 1
    BY <1>2, <1>3
  <2>2. q[j] \in QueueTimers
    BY <1>3, <2>1
  <2>3. q[j].to = window[j - 1].to
    BY <1>3, <2>1
  <2> QED
    BY <1>1, <2>1, <2>2, <2>3
<1> DEFINE sooner == [j \in DOMAIN q |-> [q[j] EXCEPT !.from = @ - 1, !.to = @ - 1]]
<1>6. \A j \in 1 .. n : sooner[j] = [conn |-> conn_timers'[j - 1].conn,
                                     from |-> window'[j - 1].from, to |-> window'[j - 1].to]
  <2> TAKE j \in 1 .. n
  <2>1. /\ q[j] \in QueueTimers /\ j - 1 \in 0 .. n - 1
        /\ q[j] = [conn |-> conn_timers[j - 1].conn,
                   from |-> window[j - 1].from, to |-> window[j - 1].to]
    BY <1>3, <1>5
  <2>2. sooner[j] = [q[j] EXCEPT !.from = @ - 1, !.to = @ - 1]
    BY <1>3
  <2>3. 1 \in Int
    OBVIOUS
  <2> HIDE DEF sooner
  <2>4. sooner[j] = [conn |-> q[j].conn, from |-> q[j].from - 1, to |-> q[j].to - 1]
    BY <2>1, <2>2, <2>3, EarlierIs
  <2>5. window'[j - 1] = [from |-> window[j - 1].from - 1, to |-> window[j - 1].to - 1]
    BY <1>1, <2>1
  <2>6. conn_timers'[j - 1].conn = conn_timers[j - 1].conn
    BY <1>1
  <2> QED
    BY <2>1, <2>4, <2>5, <2>6
<1>7. Used(conn_timers') = n
  BY <1>1
<1>8. QueueOf(conn_timers', window') = sooner
  <2>1. QueueOf(conn_timers', window') =
            [j \in 1 .. n |-> [conn |-> conn_timers'[j - 1].conn,
                              from |-> window'[j - 1].from, to |-> window'[j - 1].to]]
    BY <1>7 DEF QueueOf
  <2>2. sooner = [j \in 1 .. n |-> sooner[j]]
    BY <1>3
  <2> HIDE DEF sooner, n
  <2> QED
    BY <1>6, <2>1, <2>2
<1>9. sooner = Queue!MapQueue(q, 1, 1)
  BY DEF Queue!MapQueue, Queue!Earlier
<1> HIDE DEF sooner
<1> QED
  BY <1>1, <1>4, <1>5, <1>8, <1>9 DEF Queue!Tick, QueueOf, q

\* The abstract variables start as they should.
LEMMA QueueInit == PacedInit => Queue!Init
  BY DEF PacedInit, Init, Queue!Init

\* Every step is a step of the queue of timers, or leaves it alone.
LEMMA QueueStep == PInv /\ [PacedNext]_pacedVars => [Queue!Next]_Queue!vars
<1> SUFFICES ASSUME PInv, [PacedNext]_pacedVars
             PROVE  [Queue!Next]_Queue!vars
  OBVIOUS
<1>1. CASE PacedTimerInit
  BY <1>1, OpenStep DEF Queue!Next
<1>2. CASE PacedTimerDeinit
  BY <1>2, CloseStep DEF Queue!Next
<1>3. ASSUME NEW c \in Conns, PacedStart(c)
      PROVE  Queue!Next
  BY <1>3, StartStep DEF Queue!Next
<1>4. ASSUME NEW c \in Conns, PacedStop(c)
      PROVE  Queue!Next
  BY <1>4, StopStep DEF Queue!Next
<1>5. CASE PacedHandler
  BY <1>5, FireStep DEF Queue!Next
<1>6. CASE PacedTick
  BY <1>6, TickStep DEF Queue!Next
<1>7. CASE Idle \/ UNCHANGED pacedVars
  <2>1. UNCHANGED <<conn_timers, created, status, window>>
    BY <1>7 DEF Idle, pacedVars, vars
  <2> QED
    BY <2>1 DEF Queue!vars
<1> QED
  BY <1>1, <1>2, <1>3, <1>4, <1>5, <1>6, <1>7 DEF PacedNext

\* The delta list and the one POSIX timer behind it implement a queue of
\* independent timers, each of which fires in its own span of time, in the
\* order they were started, and never late.
THEOREM ImplementsQueue == PacedSpec => QueueSpec
<1>1. PInv /\ [PacedNext]_pacedVars => [Queue!Next]_Queue!vars
  BY QueueStep
<1> QED
  BY PInvInit, PInvStep, QueueInit, <1>1, PTL DEF PacedSpec, QueueSpec, Queue!Spec
=============================================================================
