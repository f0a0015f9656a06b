---------------------------- MODULE RequestProofs ----------------------------
(***************************************************************************)
(* Theorems about module Request, for every set of methods, versions and   *)
(* messages; and that the program of module Messages takes its steps.      *)
(***************************************************************************)
EXTENDS Messages, FiniteSetTheorems, SequenceTheorems, Least

-----------------------------------------------------------------------------
(* The test for eight bytes *)

\* The sum of no numbers is 0, of one number that number.
LEMMA SumOfOne ==
    ASSUME NEW i, NEW left, left = {} \/ left = {i}, Width(msg[i]) \in Nat
    PROVE  MapThenSumSet(LAMBDA k : Width(msg[k]), left) =
               IF left = {} THEN 0 ELSE Width(msg[i])
<1> DEFINE F(it, s) == IF s = {} THEN 0
                       ELSE Width(msg[CHOOSE x \in s : TRUE]) + it[s \ {CHOOSE x \in s : TRUE}]
           IsFold(it) == it = [s \in SUBSET left |-> F(it, s)]
           g == [s \in SUBSET left |-> IF s = {} THEN 0 ELSE Width(msg[i])]
<1>1. MapThenSumSet(LAMBDA k : Width(msg[k]), left) = (CHOOSE it : IsFold(it))[left]
  BY DEF MapThenSumSet, MapThenFoldSet
<1>2. ASSUME NEW s \in SUBSET left, s # {}
      PROVE  (CHOOSE x \in s : TRUE) = i /\ s = {i} /\ s \ {i} = {}
  BY <1>2
<1>3. IsFold(g)
  <2>1. ASSUME NEW s \in SUBSET left
        PROVE  g[s] = F(g, s)
    <3>1. CASE s = {}
      BY <3>1
    <3>2. CASE s # {}
      <4>1. (CHOOSE x \in s : TRUE) = i /\ s \ {i} = {}
        BY <1>2, <3>2
      <4>2. g[{}] = 0 /\ g[s] = Width(msg[i])
        BY <3>2
      <4>3. F(g, s) = Width(msg[i]) + 0
        BY <3>2, <4>1, <4>2
      <4> QED
        BY <4>2, <4>3
    <3> QED
      BY <3>1, <3>2
  <2> QED
    BY <2>1
<1>4. \A it : IsFold(it) => it[left] = IF left = {} THEN 0 ELSE Width(msg[i])
  <2>1. SUFFICES ASSUME NEW it, IsFold(it)
                 PROVE  it[left] = IF left = {} THEN 0 ELSE Width(msg[i])
    OBVIOUS
  <2>2. \A s \in SUBSET left : it[s] = F(it, s)
    BY <2>1
  <2>3. it[{}] = 0
    BY <2>2
  <2>4. CASE left # {}
    <3>1. (CHOOSE x \in left : TRUE) = i /\ left \ {i} = {}
      BY <1>2, <2>4
    <3>2. it[left] = Width(msg[i]) + 0
      BY <2>2, <2>3, <2>4, <3>1
    <3> QED
      BY <2>4, <3>2
  <2> QED
    BY <2>3, <2>4
<1> HIDE DEF IsFold
<1>5. IsFold(CHOOSE it : IsFold(it))
  BY <1>3
<1> QED
  BY <1>1, <1>4, <1>5

-----------------------------------------------------------------------------
(* A parse in progress, typed *)

Places == [from : -1 .. End, to : -1 .. End]

Requests == [method : Methods \cup {"LENGTH"}, version : Versions \cup {"LENGTH"},
             path : Places, headers : Places, body : Places]

Parses == [at : 1 .. End, req : Requests, status : Statuses \ {"none"}]

\* The buffer holds symbols, and a position one past the end is a position.
LEMMA InBuffer ==
    ASSUME msg \in Seq(Symbols)
    PROVE  /\ End = Len(msg) + 1 /\ Len(msg) \in Nat /\ End \in Nat
           /\ \A i \in 1 .. Len(msg) : msg[i] \in Symbols
BY DEF End

\* HTTP/ alone has not eight bytes.
LEMMA EightTakesTwo ==
    ASSUME msg \in Seq(Symbols), NEW i \in 1 .. End, EightLeft(i), msg[i] = "HTTP/"
    PROVE  i < Len(msg)
<1> DEFINE left == {k \in i .. Len(msg) : k < i + 8}
<1>1. End = Len(msg) + 1 /\ Len(msg) \in Nat
  BY InBuffer
<1>2. SUFFICES ASSUME ~(i < Len(msg)) PROVE FALSE
  OBVIOUS
<1>3. left = {} \/ left = {i}
  BY <1>1, <1>2
<1>4. Width(msg[i]) = 5
  <2>1. msg[i] = "HTTP/" /\ msg[i] \notin Methods /\ msg[i] \notin Versions
    BY RequestAssumption DEF Marks
  <2> QED
    BY <2>1 DEF Width
<1>5. MapThenSumSet(LAMBDA k : Width(msg[k]), left) = IF left = {} THEN 0 ELSE Width(msg[i])
  <2> HIDE DEF left
  <2>1. Width(msg[i]) \in Nat
    BY <1>4
  <2> QED
    BY <1>3, <2>1, SumOfOne, Zenon
<1>6. MapThenSumSet(LAMBDA k : Width(msg[k]), left) >= 8
  BY Zenon DEF EightLeft
<1> HIDE DEF left
<1> QED
  BY <1>4, <1>5, <1>6

\* HTTP/ and a version have eight bytes, whatever is behind them: the sum over
\* any finite set of positions is a number, and of some not less than theirs.
LEMMA SumAtLeast ==
    ASSUME NEW left, IsFiniteSet(left), \A k \in left : Width(msg[k]) \in Nat,
           NEW i \in left, NEW j \in left, i # j
    PROVE  /\ MapThenSumSet(LAMBDA k : Width(msg[k]), left) \in Nat
           /\ MapThenSumSet(LAMBDA k : Width(msg[k]), left) >= Width(msg[i]) + Width(msg[j])
<1> DEFINE Pick(s) == CHOOSE x \in s : TRUE
           F(it, s) == IF s = {} THEN 0 ELSE Width(msg[Pick(s)]) + it[s \ {Pick(s)}]
           IsFold(it) == it = [s \in SUBSET left |-> F(it, s)]
           C == Cardinality(left)
           E == {n \in 0 .. C : \E it : \A s \in SUBSET left :
                                   Cardinality(s) <= n => it[s] = F(it, s)}
<1>1. MapThenSumSet(LAMBDA k : Width(msg[k]), left) = (CHOOSE it : IsFold(it))[left]
  BY DEF MapThenSumSet, MapThenFoldSet
<1>2. C \in Nat /\ \A s \in SUBSET left : /\ IsFiniteSet(s) /\ Cardinality(s) \in Nat
                                          /\ Cardinality(s) <= C
  <2>1. C \in Nat
    BY FS_CardinalityType
  <2>2. ASSUME NEW s \in SUBSET left
        PROVE  IsFiniteSet(s) /\ Cardinality(s) \in Nat /\ Cardinality(s) <= C
    BY FS_Subset, FS_CardinalityType
  <2> QED
    BY <2>1, <2>2
<1>3. ASSUME NEW s \in SUBSET left
      PROVE  /\ Cardinality(s) = 0 <=> s = {}
             /\ s # {} => /\ Pick(s) \in s /\ s \ {Pick(s)} \in SUBSET left
                          /\ Cardinality(s \ {Pick(s)}) = Cardinality(s) - 1
  <2>1. IsFiniteSet(s)
    BY <1>2
  <2>2. Cardinality(s) = 0 <=> s = {}
    BY <2>1, FS_EmptySet
  <2>3. ASSUME s # {}
        PROVE  /\ Pick(s) \in s /\ s \ {Pick(s)} \in SUBSET left
               /\ Cardinality(s \ {Pick(s)}) = Cardinality(s) - 1
    <3>1. Pick(s) \in s
      BY <2>3
    <3> HIDE DEF Pick
    <3>2. Cardinality(s \ {Pick(s)}) = Cardinality(s) - 1
      BY <2>1, <3>1, FS_RemoveElement
    <3> QED
      BY <3>1, <3>2
  <2> QED
    BY <2>2, <2>3
<1> HIDE DEF Pick, C
<1>a. \A f : /\ F(f, {}) = 0
             /\ \A s : s # {} => F(f, s) = Width(msg[Pick(s)]) + f[s \ {Pick(s)}]
  OBVIOUS
<1> HIDE DEF F
<1>4. 0 \in E
  <2> DEFINE g == [s \in SUBSET left |-> 0]
  <2>1. ASSUME NEW s \in SUBSET left, Cardinality(s) <= 0
        PROVE  g[s] = F(g, s)
    <3>1. s = {}
      <4>1. Cardinality(s) \in Nat
        BY <1>2
      <4>2. Cardinality(s) = 0
        BY <2>1, <4>1
      <4> QED
        BY <1>3, <4>2
    <3>2. g[s] = 0
      OBVIOUS
    <3> HIDE DEF g
    <3> QED
      BY <1>a, <3>1, <3>2
  <2> HIDE DEF g
  <2> QED
    BY <1>2, <2>1
<1>5. ASSUME NEW n \in 0 .. C - 1, n \in E
      PROVE  n + 1 \in E
  <2>1. PICK it : \A s \in SUBSET left : Cardinality(s) <= n => it[s] = F(it, s)
    BY <1>5
  <2> DEFINE g == [s \in SUBSET left |-> IF Cardinality(s) = n + 1 THEN F(it, s) ELSE it[s]]
  <2>2. ASSUME NEW s \in SUBSET left, Cardinality(s) <= n + 1
        PROVE  g[s] = F(g, s)
    <3>1. s # {} => g[s \ {Pick(s)}] = it[s \ {Pick(s)}]
      <4>1. s # {} => /\ s \ {Pick(s)} \in SUBSET left
                      /\ Cardinality(s \ {Pick(s)}) # n + 1
        BY <1>2, <1>3, <2>2
      <4> QED
        BY <4>1
    <3>2. g[s] = F(it, s)
      <4>1. Cardinality(s) = n + 1 \/ Cardinality(s) <= n
        BY <1>2, <2>2
      <4> QED
        BY <2>1, <4>1
    <3> HIDE DEF g
    <3>3. F(g, s) = F(it, s)
      <4>1. CASE s = {}
        BY <1>a, <4>1
      <4>2. CASE s # {}
        BY <1>a, <3>1, <4>2
      <4> QED
        BY <4>1, <4>2
    <3> QED
      BY <3>2, <3>3
  <2>3. n + 1 \in 0 .. C
    BY <1>2
  <2> HIDE DEF g
  <2> QED
    BY <2>2, <2>3
<1>6. \E it : IsFold(it)
  <2>1. C \in E
    <3> HIDE DEF E
    <3>1. 0 .. C \subseteq E
      BY <1>2, <1>4, <1>5, UpTo
    <3> QED
      BY <1>2, <3>1
  <2>2. PICK it : \A s \in SUBSET left : it[s] = F(it, s)
    BY <1>2, <2>1
  <2> DEFINE g == [s \in SUBSET left |-> it[s]]
  <2>3. ASSUME NEW s \in SUBSET left
        PROVE  g[s] = F(g, s)
    <3>1. s # {} => g[s \ {Pick(s)}] = it[s \ {Pick(s)}]
      BY <1>3
    <3>2. g[s] = F(it, s)
      BY <2>2
    <3> HIDE DEF g
    <3>3. F(g, s) = F(it, s)
      <4>1. CASE s = {}
        BY <1>a, <4>1
      <4>2. CASE s # {}
        BY <1>a, <3>1, <4>2
      <4> QED
        BY <4>1, <4>2
    <3> QED
      BY <3>2, <3>3
  <2>4. g = [s \in SUBSET left |-> g[s]]
    OBVIOUS
  <2> HIDE DEF g
  <2> QED
    BY <2>3, <2>4
<1> DEFINE it == CHOOSE f : IsFold(f)
<1>7. IsFold(it)
  <2> HIDE DEF IsFold
  <2> QED
    BY <1>6
<1> HIDE DEF it
<1>8. \A s \in SUBSET left : it[s] = F(it, s)
  BY <1>7
<1> DEFINE W(k) == Width(msg[k])
           Fine(s) == /\ it[s] \in Nat
                      /\ \A a \in s : it[s] >= W(a)
                      /\ \A a, b \in s : a # b => it[s] >= W(a) + W(b)
           V == {n \in 0 .. C : \A s \in SUBSET left : Cardinality(s) <= n => Fine(s)}
<1>b. Fine({})
  <2>1. it[{}] = 0
    BY <1>8, <1>a
  <2> QED
    BY <2>1
<1>9. 0 \in V
  <2> HIDE DEF Fine
  <2>1. ASSUME NEW s \in SUBSET left, Cardinality(s) <= 0
        PROVE  Fine(s)
    <3>1. s = {}
      <4>1. Cardinality(s) \in Nat
        BY <1>2
      <4>2. Cardinality(s) = 0
        BY <2>1, <4>1
      <4> QED
        BY <1>3, <4>2
    <3> QED
      BY <1>b, <3>1
  <2> QED
    BY <1>2, <2>1
<1>10. ASSUME NEW n \in 0 .. C - 1, n \in V
       PROVE  n + 1 \in V
  <2>1. ASSUME NEW s \in SUBSET left, Cardinality(s) <= n + 1, s # {}
        PROVE  Fine(s)
    <3> DEFINE x == Pick(s)
               t == s \ {x}
    <3>1. x \in s /\ t \in SUBSET left /\ Cardinality(t) <= n
      BY <1>2, <1>3, <2>1
    <3>2. Fine(t)
      BY <1>10, <3>1
    <3>3. it[s] = W(x) + it[t]
      BY <1>8, <1>a, <2>1
    <3>4. \A k \in s : W(k) \in Nat
      OBVIOUS
    <3>5. \A k \in s : k = x \/ k \in t
      OBVIOUS
    <3> HIDE DEF W, x, t
    <3>6. it[s] \in Nat
      BY <3>1, <3>2, <3>3, <3>4
    <3>7. ASSUME NEW a \in s PROVE it[s] >= W(a)
      <4>1. W(a) \in Nat /\ W(x) \in Nat /\ it[t] \in Nat
        BY <3>1, <3>2, <3>4
      <4>2. a = x \/ it[t] >= W(a)
        BY <3>2, <3>5
      <4> QED
        BY <3>3, <4>1, <4>2
    <3>8. ASSUME NEW a \in s, NEW b \in s, a # b PROVE it[s] >= W(a) + W(b)
      <4>1. W(a) \in Nat /\ W(b) \in Nat /\ W(x) \in Nat /\ it[t] \in Nat
        BY <3>1, <3>2, <3>4
      <4>2. CASE a = x
        <5>1. it[t] >= W(b)
          BY <3>2, <3>5, <3>8, <4>2
        <5> QED
          BY <3>3, <4>1, <4>2, <5>1
      <4>3. CASE b = x
        <5>1. it[t] >= W(a)
          BY <3>2, <3>5, <3>8, <4>3
        <5> QED
          BY <3>3, <4>1, <4>3, <5>1
      <4>4. CASE a # x /\ b # x
        <5>1. it[t] >= W(a) + W(b)
          BY <3>2, <3>5, <3>8, <4>4
        <5> QED
          BY <3>3, <4>1, <5>1
      <4> QED
        BY <4>2, <4>3, <4>4
    <3> QED
      BY <3>6, <3>7, <3>8
  <2>2. ASSUME NEW s \in SUBSET left, s = {}
        PROVE  Fine(s)
    <3> HIDE DEF Fine
    <3> QED
      BY <1>b, <2>2
  <2>3. n + 1 \in 0 .. C
    BY <1>2
  <2> HIDE DEF Fine
  <2> QED
    BY <2>1, <2>2, <2>3
<1> HIDE DEF Fine
<1>11. Fine(left)
  <2>1. C \in V
    <3> HIDE DEF V
    <3>1. 0 .. C \subseteq V
      BY <1>2, <1>9, <1>10, UpTo
    <3> QED
      BY <1>2, <3>1
  <2> QED
    BY <1>2, <2>1
<1> HIDE DEF IsFold
<1> QED
  BY <1>1, <1>11 DEF Fine, it

\* So there are eight bytes where a version is.
LEMMA TwoAreEight ==
    ASSUME msg \in Seq(Symbols), NEW i \in 1 .. Len(msg) - 1,
           msg[i] = "HTTP/", msg[i + 1] \in Versions
    PROVE  EightLeft(i)
<1> DEFINE left == {k \in i .. Len(msg) : k < i + 8}
<1>1. Len(msg) \in Nat
  BY InBuffer
<1>2. i \in left /\ i + 1 \in left /\ i # i + 1
  BY <1>1
<1>3. IsFiniteSet(left)
  <2>1. left \subseteq i .. Len(msg) /\ IsFiniteSet(i .. Len(msg))
    BY <1>1, FS_Interval
  <2> HIDE DEF left
  <2> QED
    BY <2>1, FS_Subset
<1>4. \A s : Width(s) \in Nat
  BY RequestAssumption DEF Width, Marks
<1>5. Width(msg[i]) = 5 /\ Width(msg[i + 1]) >= 3 /\ Width(msg[i + 1]) \in Nat
  <2>1. "HTTP/" \notin Methods /\ "HTTP/" \notin Versions
    BY RequestAssumption DEF Marks
  <2>2. Width(msg[i]) = 5
    BY <2>1 DEF Width
  <2>3. msg[i + 1] # "HTTP/" /\ msg[i + 1] \in Versions
    BY <2>1
  <2>4. Width(msg[i + 1]) = IF msg[i + 1] \in Methods THEN MethodLength[msg[i + 1]] ELSE 3
    BY <2>3 DEF Width
  <2> QED
    BY <2>2, <2>4, <1>4, RequestAssumption
<1> HIDE DEF left
<1>6. /\ MapThenSumSet(LAMBDA k : Width(msg[k]), left) \in Nat
      /\ MapThenSumSet(LAMBDA k : Width(msg[k]), left) >= Width(msg[i]) + Width(msg[i + 1])
  BY <1>2, <1>3, <1>4, SumAtLeast, Zenon
<1>7. Width(msg[i]) + Width(msg[i + 1]) >= 8 /\ Width(msg[i]) + Width(msg[i + 1]) \in Nat
  BY <1>5
<1>8. MapThenSumSet(LAMBDA k : Width(msg[k]), left) >= 8
  BY <1>6, <1>7
<1> QED
  BY <1>8, Zenon DEF EightLeft, left

\* shttp_slice_skip_until finds the first such symbol, or the end.
LEMMA SkipUntilIs ==
    ASSUME msg \in Seq(Symbols), NEW mark, NEW i \in 1 .. End
    PROVE  /\ SkipUntil(mark, i) \in i .. End
           /\ \A k \in i .. SkipUntil(mark, i) - 1 : msg[k] # mark
           /\ SkipUntil(mark, i) # End => msg[SkipUntil(mark, i)] = mark
<1> DEFINE S == {k \in i .. Len(msg) : msg[k] = mark} \cup {End}
<1>1. End = Len(msg) + 1 /\ Len(msg) \in Nat
  BY InBuffer
<1>2. S \subseteq Nat /\ S # {}
  BY <1>1
<1>3. Min(S) \in S /\ \A k \in S : Min(S) <= k
  BY <1>2, MinIsLeast
<1>4. SkipUntil(mark, i) = Min(S)
  BY DEF SkipUntil
<1>5. Min(S) \in i .. End /\ (Min(S) # End => msg[Min(S)] = mark)
  BY <1>1, <1>3
<1>6. ASSUME NEW k \in i .. Min(S) - 1 PROVE msg[k] # mark
  BY <1>1, <1>3, <1>5
<1> QED
  BY <1>4, <1>5, <1>6

-----------------------------------------------------------------------------
(* What each step of a parse does, from a parse p that is fine so far *)

\* shttp_slice_parse_newline: behind LF or CR LF, or not further than a CR.
LEMMA NewlineIs ==
    ASSUME msg \in Seq(Symbols), NEW p \in Parses, p.status = "OK"
    PROVE  LET q == ParseNewline(p)
           IN  /\ q \in Parses /\ q.req = p.req
               /\ q.status = "OK" =>
                    \/ p.at <= Len(msg) /\ msg[p.at] = "LF" /\ q.at = p.at + 1
                    \/ /\ p.at + 1 <= Len(msg) /\ q.at = p.at + 2
                       /\ msg[p.at] = "CR" /\ msg[p.at + 1] = "LF"
               /\ q.status # "OK" =>
                    /\ \/ q.at = p.at
                       \/ p.at <= Len(msg) /\ msg[p.at] = "CR" /\ q.at = p.at + 1
                    /\ ~(p.at <= Len(msg) /\ msg[p.at] = "LF")
                    /\ ~(p.at < Len(msg) /\ msg[p.at] = "CR" /\ msg[p.at + 1] = "LF")
<1> DEFINE lf == IF p.at < End /\ msg[p.at] = "CR" THEN p.at + 1 ELSE p.at
           q == ParseNewline(p)
<1>1. End = Len(msg) + 1 /\ Len(msg) \in Nat /\ p.at \in 1 .. End /\ p.at \in Nat
  BY InBuffer DEF Parses
<1>2. \/ p.at < End /\ msg[p.at] = "CR" /\ lf = p.at + 1
      \/ ~(p.at < End /\ msg[p.at] = "CR") /\ lf = p.at
  OBVIOUS
<1>3. lf \in 1 .. End
  BY <1>1, <1>2
<1>4. "SLICE_END" \in Statuses /\ "NEWLINE_EXPECTED" \in Statuses /\ "OK" \in Statuses
  BY DEF Statuses
<1>5. CASE lf = End
  <2>1. q = [p EXCEPT !.at = lf, !.status = "SLICE_END"]
    BY <1>5 DEF ParseNewline
  <2>2. q \in Parses /\ q.req = p.req /\ q.status = "SLICE_END" /\ q.at = lf
    BY <1>3, <1>4, <2>1 DEF Parses
  <2> HIDE DEF q, lf
  <2>3. ~(p.at <= Len(msg) /\ msg[p.at] = "LF")
    BY <1>1, <1>2, <1>5
  <2>4. ~(p.at < Len(msg) /\ msg[p.at] = "CR" /\ msg[p.at + 1] = "LF")
    BY <1>1, <1>2, <1>5
  <2>5. \/ q.at = p.at
        \/ p.at <= Len(msg) /\ msg[p.at] = "CR" /\ q.at = p.at + 1
    BY <1>1, <1>2, <2>2
  <2> QED
    BY <2>2, <2>3, <2>4, <2>5 DEF q
<1>6. CASE lf # End /\ msg[lf] # "LF"
  <2>1. q = [p EXCEPT !.at = lf, !.status = "NEWLINE_EXPECTED"]
    BY <1>6 DEF ParseNewline
  <2>2. q \in Parses /\ q.req = p.req /\ q.status = "NEWLINE_EXPECTED" /\ q.at = lf
    BY <1>3, <1>4, <2>1 DEF Parses
  <2> HIDE DEF q, lf
  <2>3. ~(p.at <= Len(msg) /\ msg[p.at] = "LF")
    BY <1>1, <1>2, <1>6
  <2>4. ~(p.at < Len(msg) /\ msg[p.at] = "CR" /\ msg[p.at + 1] = "LF")
    BY <1>1, <1>2, <1>6
  <2>5. \/ q.at = p.at
        \/ p.at <= Len(msg) /\ msg[p.at] = "CR" /\ q.at = p.at + 1
    BY <1>1, <1>2, <2>2
  <2> QED
    BY <2>2, <2>3, <2>4, <2>5 DEF q
<1>7. CASE lf # End /\ msg[lf] = "LF"
  <2>1. q = [p EXCEPT !.at = lf + 1]
    BY <1>7 DEF ParseNewline
  <2>2. lf + 1 \in 1 .. End
    BY <1>1, <1>3, <1>7
  <2>3. q \in Parses /\ q.req = p.req /\ q.status = "OK" /\ q.at = lf + 1
    BY <2>1, <2>2 DEF Parses
  <2> HIDE DEF q, lf
  <2>4. \/ p.at <= Len(msg) /\ msg[p.at] = "LF" /\ q.at = p.at + 1
        \/ /\ p.at + 1 <= Len(msg) /\ q.at = p.at + 2
           /\ msg[p.at] = "CR" /\ msg[p.at + 1] = "LF"
    BY <1>1, <1>2, <1>3, <1>7, <2>3
  <2> QED
    BY <2>3, <2>4 DEF q
<1> QED
  BY <1>5, <1>6, <1>7

\* shttp_slice_parse_space takes one space.
LEMMA SpaceIs ==
    ASSUME msg \in Seq(Symbols), NEW p \in Parses, p.status = "OK"
    PROVE  LET q == ParseSpace(p)
           IN  /\ q \in Parses /\ q.req = p.req
               /\ q.status = "OK" <=> p.at <= Len(msg) /\ msg[p.at] = "SP"
               /\ q.status = "OK" => q.at = p.at + 1
<1>1. End = Len(msg) + 1 /\ Len(msg) \in Nat /\ p.at \in 1 .. End
  BY InBuffer DEF Parses
<1>2. "SLICE_END" \in Statuses /\ "SPACE_EXPECTED" \in Statuses
  BY DEF Statuses
<1>3. CASE p.at = End
  BY <1>1, <1>2, <1>3 DEF ParseSpace, Fail, Parses
<1>4. CASE p.at # End /\ msg[p.at] # "SP"
  BY <1>2, <1>4 DEF ParseSpace, Fail, Parses
<1>5. CASE p.at # End /\ msg[p.at] = "SP"
  <2>1. ParseSpace(p) = [p EXCEPT !.at = p.at + 1]
    BY <1>5 DEF ParseSpace
  <2>2. p.at + 1 \in 1 .. End /\ p.at <= Len(msg)
    BY <1>1, <1>5
  <2> QED
    BY <1>5, <2>1, <2>2 DEF Parses
<1> QED
  BY <1>3, <1>4, <1>5

\* shttp_slice_parse_method takes one of the known words.
LEMMA MethodIs ==
    ASSUME msg \in Seq(Symbols), NEW p \in Parses, p.status = "OK"
    PROVE  LET q == Method(p)
           IN  /\ q \in Parses /\ q.req.body = p.req.body
               /\ q.status = "OK" <=> p.at <= Len(msg) /\ msg[p.at] \in Methods
               /\ q.status = "OK" => q.at = p.at + 1
<1>1. End = Len(msg) + 1 /\ Len(msg) \in Nat /\ p.at \in 1 .. End
  BY InBuffer DEF Parses
<1>2. CASE p.at < End /\ msg[p.at] \in Methods
  <2> DEFINE r == [p.req EXCEPT !.method = msg[p.at]]
  <2>1. r \in Requests /\ r.body = p.req.body
    BY <1>2 DEF Parses, Requests
  <2>2. Method(p) = [p EXCEPT !.at = p.at + 1, !.req = r]
    BY <1>2 DEF Method
  <2> HIDE DEF r
  <2>3. p.at + 1 \in 1 .. End /\ p.at <= Len(msg)
    BY <1>1, <1>2
  <2> QED
    BY <1>2, <2>1, <2>2, <2>3 DEF Parses
<1>3. CASE ~(p.at < End /\ msg[p.at] \in Methods)
  <2> DEFINE r == [p.req EXCEPT !.method = "LENGTH"]
  <2>1. r \in Requests /\ r.body = p.req.body
    BY DEF Parses, Requests
  <2>2. Method(p) = [p EXCEPT !.req = r, !.status = "VALUE_INVALID"]
    BY <1>3 DEF Method
  <2> HIDE DEF r
  <2>3. ~(p.at <= Len(msg) /\ msg[p.at] \in Methods)
    BY <1>1, <1>3
  <2> QED
    BY <2>1, <2>2, <2>3 DEF Parses, Statuses
<1> QED
  BY <1>2, <1>3

\* The path ends where the next space is; without one the parse fails.
LEMMA PathIs ==
    ASSUME msg \in Seq(Symbols), NEW p \in Parses, p.status = "OK"
    PROVE  LET q == Path(p)
           IN  /\ q \in Parses /\ q.req.body = p.req.body
               /\ (\E k \in p.at .. Len(msg) : msg[k] = "SP") => q.status = "OK"
               /\ q.status = "OK" =>
                    /\ q.at \in p.at .. Len(msg) /\ msg[q.at] = "SP"
                    /\ \A k \in p.at .. q.at - 1 : msg[k] # "SP"
                    /\ q.req.path = [from |-> p.at, to |-> q.at]
<1> DEFINE space == SkipUntil("SP", p.at)
           begun == [p.req.path EXCEPT !.from = p.at]
           r1 == [p.req EXCEPT !.path = begun]
           p1 == [p EXCEPT !.req = r1]
           q1 == [p1 EXCEPT !.at = space,
                            !.status = IF space = End THEN "SPACE_EXPECTED" ELSE "OK"]
           whole == [begun EXCEPT !.to = space]
           r2 == [r1 EXCEPT !.path = whole]
           q2 == [q1 EXCEPT !.req = r2]
<1>1. End = Len(msg) + 1 /\ Len(msg) \in Nat /\ p.at \in 1 .. End
  BY InBuffer DEF Parses
<1>2. /\ space \in p.at .. End
      /\ \A k \in p.at .. space - 1 : msg[k] # "SP"
      /\ space # End => msg[space] = "SP"
  BY <1>1, SkipUntilIs
<1>3. /\ "SLICE_END" \in Statuses /\ "SPACE_EXPECTED" \in Statuses /\ "OK" \in Statuses
  BY DEF Statuses
<1>4. CASE p.at = End
  <2>1. ~\E k \in p.at .. Len(msg) : msg[k] = "SP"
    BY <1>1, <1>4
  <2>2. Path(p) = [p EXCEPT !.status = "SLICE_END"]
    BY <1>4 DEF Path, Fail
  <2> QED
    BY <1>3, <2>1, <2>2 DEF Parses
<1>5. CASE p.at # End
  <2>1. Path(p) = IF q1.status = "OK" THEN q2 ELSE q1
    <3>1. [p EXCEPT !.req.path.from = p.at] = p1
      OBVIOUS
    <3>2. SkipUntilSpace(p1) = q1
      BY DEF SkipUntilSpace, Parses
    <3>3. q1.at = space
      BY DEF Parses
    <3>4. [q1 EXCEPT !.req.path.to = q1.at] = q2
      BY <3>3 DEF Parses, Requests
    <3> QED
      BY <1>5, <3>1, <3>2, <3>4 DEF Path, Then
  <2> HIDE DEF space
  <2>2. begun \in Places /\ begun.from = p.at
    BY <1>1 DEF Parses, Requests, Places
  <2>3. whole \in Places /\ whole = [from |-> p.at, to |-> space]
    <3> HIDE DEF begun
    <3>1. p.at \in -1 .. End /\ space \in -1 .. End
      BY <1>1, <1>2
    <3>2. whole = [from |-> p.at, to |-> space]
      BY <2>2 DEF Places
    <3> QED
      BY <3>1, <3>2 DEF Places
  <2> HIDE DEF begun, whole
  <2>4. r1 \in Requests /\ r1.body = p.req.body /\ r2 \in Requests /\ r2.body = p.req.body
        /\ r2.path = whole
    BY <2>2, <2>3 DEF Parses, Requests
  <2> HIDE DEF r1, r2
  <2>5. space \in 1 .. End
    BY <1>1, <1>2
  <2>6. /\ q1 \in Parses /\ q1.req = r1 /\ q1.at = space
        /\ q1.status = "OK" <=> space # End
    BY <1>3, <2>4, <2>5 DEF Parses
  <2>7. q2 \in Parses /\ q2.req = r2 /\ q2.at = space /\ q2.status = q1.status
    BY <2>4, <2>6 DEF Parses
  <2> HIDE DEF q1, q2
  <2>8. CASE q1.status = "OK"
    <3>1. Path(p) = q2 /\ space # End
      BY <2>1, <2>6, <2>8
    <3>2. space \in p.at .. Len(msg)
      BY <1>1, <1>2, <3>1
    <3> QED
      BY <1>2, <2>3, <2>4, <2>7, <2>8, <3>1, <3>2
  <2>9. CASE q1.status # "OK"
    <3>1. Path(p) = q1 /\ space = End
      BY <2>1, <2>6, <2>9
    <3>2. ~\E k \in p.at .. Len(msg) : msg[k] = "SP"
      BY <1>1, <1>2, <3>1
    <3> QED
      BY <2>4, <2>6, <2>9, <3>1, <3>2
  <2> QED
    BY <2>8, <2>9
<1> QED
  BY <1>4, <1>5

\* The version is behind HTTP/.
LEMMA VersionIs ==
    ASSUME msg \in Seq(Symbols), NEW p \in Parses, p.status = "OK"
    PROVE  LET q == ParseVersion(p)
           IN  /\ q \in Parses /\ q.req.body = p.req.body /\ q.req.path = p.req.path
               /\ p.at + 1 <= Len(msg) /\ msg[p.at] = "HTTP/" /\ msg[p.at + 1] \in Versions
                    => q.status = "OK"
               /\ q.status = "OK" =>
                    /\ q.at = p.at + 2 /\ p.at + 1 <= Len(msg)
                    /\ msg[p.at] = "HTTP/" /\ msg[p.at + 1] \in Versions
                    /\ q.req.version = msg[p.at + 1]
<1>1. End = Len(msg) + 1 /\ Len(msg) \in Nat /\ p.at \in 1 .. End
  BY InBuffer DEF Parses
<1>2. /\ "SLICE_END" \in Statuses /\ "PREFIX_INVALID" \in Statuses
      /\ "VALUE_INVALID" \in Statuses
  BY DEF Statuses
<1>3. CASE ~EightLeft(p.at)
  <2>1. ~(p.at + 1 <= Len(msg) /\ msg[p.at] = "HTTP/" /\ msg[p.at + 1] \in Versions)
    <3>1. p.at + 1 <= Len(msg) => p.at \in 1 .. Len(msg) - 1
      BY <1>1
    <3> QED
      BY <1>3, <3>1, TwoAreEight
  <2>2. ParseVersion(p) = [p EXCEPT !.status = "SLICE_END"]
    BY <1>3 DEF ParseVersion, Fail
  <2> QED
    BY <1>2, <2>1, <2>2 DEF Parses
<1>4. CASE EightLeft(p.at) /\ msg[p.at] # "HTTP/"
  BY <1>2, <1>4 DEF ParseVersion, Fail, Parses
<1>5. CASE EightLeft(p.at) /\ msg[p.at] = "HTTP/"
  <2>1. p.at < Len(msg)
    BY <1>1, <1>5, EightTakesTwo
  <2>2. p.at + 1 \in 1 .. End /\ p.at + 2 \in 1 .. End /\ p.at + 1 <= Len(msg)
    BY <1>1, <2>1
  <2>3. CASE msg[p.at + 1] \in Versions
    <3> DEFINE r == [p.req EXCEPT !.version = msg[p.at + 1]]
    <3>1. /\ r \in Requests /\ r.body = p.req.body /\ r.path = p.req.path
          /\ r.version = msg[p.at + 1]
      BY <2>3 DEF Parses, Requests
    <3>2. ParseVersion(p) = [p EXCEPT !.at = p.at + 2, !.req = r]
      BY <1>5, <2>3 DEF ParseVersion
    <3> HIDE DEF r
    <3> QED
      BY <1>5, <2>2, <2>3, <3>1, <3>2 DEF Parses
  <2>4. CASE msg[p.at + 1] \notin Versions
    <3> DEFINE r == [p.req EXCEPT !.version = "LENGTH"]
    <3>1. r \in Requests /\ r.body = p.req.body /\ r.path = p.req.path
      BY DEF Parses, Requests
    <3>2. ParseVersion(p) = [p EXCEPT !.at = p.at + 1, !.req = r, !.status = "VALUE_INVALID"]
      BY <1>5, <2>4 DEF ParseVersion
    <3> HIDE DEF r
    <3> QED
      BY <1>2, <2>2, <2>4, <3>1, <3>2 DEF Parses
  <2> QED
    BY <2>3, <2>4
<1> QED
  BY <1>3, <1>4, <1>5

\* A request line whose path ends at to, and where that line ends.
LineEnd(to) == IF msg[to + 3] = "CR" THEN to + 4 ELSE to + 3

Line(to) ==
    /\ to \in 3 .. Len(msg) - 3
    /\ msg[1] \in Methods /\ msg[2] = "SP" /\ msg[to] = "SP"
    /\ \A k \in 3 .. to - 1 : msg[k] # "SP"
    /\ msg[to + 1] = "HTTP/" /\ msg[to + 2] \in Versions
    /\ LineEnd(to) <= Len(msg) /\ msg[LineEnd(to)] = "LF"

\* A parse that has read the request line: the path lies between the first two
\* spaces, the version is what follows HTTP/, and a header begins the next line.
LineRead(p) ==
    /\ Line(p.req.path.to) /\ p.req.path.from = 3
    /\ p.req.version = msg[p.req.path.to + 2]
    /\ p.at = LineEnd(p.req.path.to) + 1

\* There is one request line, and no second newline in it.
LEMMA LineIs ==
    ASSUME msg \in Seq(Symbols), NEW to, Line(to), NEW a, a = LineEnd(to) + 1
    PROVE  /\ msg[a - 1] = "LF"
           /\ \A k \in to .. a - 2 : msg[k] # "LF"
           /\ \A t : Line(t) => t = to
<1>1. End = Len(msg) + 1 /\ Len(msg) \in Nat /\ to \in 3 .. Len(msg) - 3
  BY InBuffer DEF Line
<1>2. \/ LineEnd(to) = to + 4 /\ msg[to + 3] = "CR"
      \/ LineEnd(to) = to + 3
  BY DEF LineEnd
<1>3. a - 1 = LineEnd(to)
  BY <1>1, <1>2
<1>4. msg[to] # "LF" /\ msg[to + 1] # "LF" /\ msg[to + 2] # "LF"
  BY RequestAssumption DEF Line, Marks
<1>5. ASSUME NEW k \in to .. a - 2 PROVE msg[k] # "LF"
  <2>1. \/ k = to \/ k = to + 1 \/ k = to + 2
        \/ (k = to + 3 /\ msg[to + 3] = "CR")
    BY <1>1, <1>2
  <2> QED
    BY <1>4, <2>1
<1>6. ASSUME NEW t, Line(t) PROVE t = to
  <2>1. t \in Int /\ to \in Int /\ t >= 3 /\ to >= 3
    BY <1>1, <1>6, InBuffer DEF Line
  <2>2. ~(t < to)
    <3>1. t < to => t \in 3 .. to - 1
      BY <2>1
    <3> QED
      BY <1>6, <3>1 DEF Line
  <2>3. ~(to < t)
    <3>1. to < t => to \in 3 .. t - 1
      BY <2>1
    <3> QED
      BY <1>6, <3>1 DEF Line
  <2> QED
    BY <2>1, <2>2, <2>3
<1>7. msg[LineEnd(to)] = "LF"
  BY DEF Line
<1> QED
  BY <1>3, <1>5, <1>6, <1>7

\* The request line of a message, from its first symbol.
LEMMA RequestLineIs ==
    ASSUME msg \in Seq(Symbols), NEW p \in Parses, p.status = "OK", p.at = 1
    PROVE  LET q == RequestLine(p)
           IN  /\ q \in Parses /\ q.req.body = p.req.body
               /\ q.status = "OK" => LineRead(q)
               /\ (\E to : Line(to)) => q.status = "OK"
<1> DEFINE q1 == Method(p)
           q2 == IF q1.status = "OK" THEN ParseSpace(q1) ELSE q1
           q3 == IF q2.status = "OK" THEN Path(q2) ELSE q2
           q4 == IF q3.status = "OK" THEN ParseSpace(q3) ELSE q3
           q5 == IF q4.status = "OK" THEN ParseVersion(q4) ELSE q4
           q6 == IF q5.status = "OK" THEN ParseNewline(q5) ELSE q5
<1>1. RequestLine(p) = q6
  BY DEF RequestLine, Then
<1>2. End = Len(msg) + 1 /\ Len(msg) \in Nat
  BY InBuffer
<1>3. /\ q1 \in Parses /\ q1.req.body = p.req.body
      /\ q1.status = "OK" => q1.at = 2 /\ msg[1] \in Methods
      /\ 1 <= Len(msg) /\ msg[1] \in Methods => q1.status = "OK"
  BY MethodIs
<1> HIDE DEF q1
<1>4. /\ q2 \in Parses /\ q2.req.body = p.req.body
      /\ q2.status = "OK" => q1.status = "OK" /\ q2.at = 3 /\ msg[2] = "SP"
      /\ q1.status = "OK" /\ 2 <= Len(msg) /\ msg[2] = "SP" => q2.status = "OK"
  BY <1>3, SpaceIs
<1> HIDE DEF q2
<1>5. /\ q3 \in Parses /\ q3.req.body = p.req.body
      /\ q3.status = "OK" =>
           /\ q2.status = "OK" /\ q3.at \in 3 .. Len(msg) /\ msg[q3.at] = "SP"
           /\ \A k \in 3 .. q3.at - 1 : msg[k] # "SP"
           /\ q3.req.path = [from |-> 3, to |-> q3.at]
      /\ q2.status = "OK" /\ (\E k \in 3 .. Len(msg) : msg[k] = "SP") => q3.status = "OK"
  BY <1>4, PathIs
<1> HIDE DEF q3
<1>6. /\ q4 \in Parses /\ q4.req.body = p.req.body
      /\ q4.status = "OK" =>
           q3.status = "OK" /\ q4.at = q3.at + 1 /\ q4.req.path = q3.req.path
      /\ q3.status = "OK" => q4.status = "OK"
  <2>1. q3.status = "OK" => q3.at <= Len(msg) /\ msg[q3.at] = "SP"
    BY <1>2, <1>5
  <2> QED
    BY <1>5, <2>1, SpaceIs
<1> HIDE DEF q4
<1>7. /\ q5 \in Parses /\ q5.req.body = p.req.body
      /\ q5.status = "OK" =>
           /\ q4.status = "OK" /\ q5.at = q4.at + 2 /\ q4.at + 1 <= Len(msg)
           /\ msg[q4.at] = "HTTP/" /\ msg[q4.at + 1] \in Versions
           /\ q5.req.path = q4.req.path /\ q5.req.version = msg[q4.at + 1]
      /\ q4.status = "OK" /\ q4.at + 1 <= Len(msg) /\ msg[q4.at] = "HTTP/"
            /\ msg[q4.at + 1] \in Versions => q5.status = "OK"
  BY <1>6, VersionIs
<1> HIDE DEF q5
<1>8. /\ q6 \in Parses /\ q6.req.body = p.req.body
      /\ q6.status = "OK" =>
           /\ q5.status = "OK" /\ q6.req = q5.req
           /\ \/ q5.at <= Len(msg) /\ msg[q5.at] = "LF" /\ q6.at = q5.at + 1
              \/ /\ q5.at + 1 <= Len(msg) /\ q6.at = q5.at + 2
                 /\ msg[q5.at] = "CR" /\ msg[q5.at + 1] = "LF"
      /\ q5.status = "OK" /\ q6.status # "OK" =>
           /\ ~(q5.at <= Len(msg) /\ msg[q5.at] = "LF")
           /\ ~(q5.at < Len(msg) /\ msg[q5.at] = "CR" /\ msg[q5.at + 1] = "LF")
  BY <1>7, NewlineIs
<1> HIDE DEF q6
<1> DEFINE to == q3.at
<1>9. ASSUME q6.status = "OK" PROVE LineRead(q6)
  <2>1. /\ q1.status = "OK" /\ q2.status = "OK" /\ q3.status = "OK"
        /\ q4.status = "OK" /\ q5.status = "OK"
    BY <1>4, <1>5, <1>6, <1>7, <1>8, <1>9
  <2>2. to \in 3 .. Len(msg) /\ q4.at = to + 1 /\ q5.at = q4.at + 2
    BY <1>5, <1>6, <1>7, <2>1
  <2>3. q4.at + 1 = to + 2 /\ q5.at = to + 3
    BY <1>2, <2>2
  <2>4. q6.req.path = [from |-> 3, to |-> to] /\ q6.req.version = msg[to + 2]
    <3>1. q6.req.path = q3.req.path /\ q6.req.version = msg[q4.at + 1]
      BY <1>6, <1>7, <1>8, <1>9, <2>1
    <3> QED
      BY <1>5, <2>1, <2>3, <3>1
  <2>5. /\ msg[1] \in Methods /\ msg[2] = "SP" /\ msg[to] = "SP"
        /\ \A k \in 3 .. to - 1 : msg[k] # "SP"
        /\ msg[to + 1] = "HTTP/" /\ msg[to + 2] \in Versions
    BY <1>3, <1>4, <1>5, <1>7, <2>1, <2>2, <2>3
  <2>a. \/ q5.at <= Len(msg) /\ msg[q5.at] = "LF" /\ q6.at = q5.at + 1
        \/ /\ q5.at + 1 <= Len(msg) /\ q6.at = q5.at + 2
           /\ msg[q5.at] = "CR" /\ msg[q5.at + 1] = "LF"
    BY <1>8, <1>9
  <2>b. q5.at = to + 3 /\ q5.at + 1 = to + 4 /\ q5.at + 2 = to + 5
    BY <2>2, <2>3
  <2>6. \/ to + 3 <= Len(msg) /\ msg[to + 3] = "LF" /\ q6.at = to + 4
        \/ /\ to + 4 <= Len(msg) /\ q6.at = to + 5
           /\ msg[to + 3] = "CR" /\ msg[to + 4] = "LF"
    BY <2>a, <2>b
  <2> HIDE DEF to
  <2>7. /\ to \in 3 .. Len(msg) - 3 /\ LineEnd(to) <= Len(msg)
        /\ msg[LineEnd(to)] = "LF" /\ q6.at = LineEnd(to) + 1
    BY <1>2, <2>2, <2>6 DEF LineEnd
  <2>8. q6.req.path.from = 3 /\ q6.req.path.to = to
    BY <2>4
  <2> QED
    BY <2>4, <2>5, <2>7, <2>8 DEF LineRead, Line
<1>10. ASSUME NEW t, Line(t) PROVE q6.status = "OK"
  <2>1. /\ t \in 3 .. Len(msg) - 3 /\ 1 <= Len(msg) /\ 2 <= Len(msg)
        /\ t \in 3 .. Len(msg) /\ msg[t] = "SP" /\ msg[1] \in Methods /\ msg[2] = "SP"
    BY <1>2, <1>10 DEF Line
  <2>2. q3.status = "OK" /\ q4.status = "OK"
    BY <1>3, <1>4, <1>5, <1>6, <2>1
  <2>3. to \in 3 .. Len(msg) /\ msg[to] = "SP" /\ \A k \in 3 .. to - 1 : msg[k] # "SP"
    BY <1>5, <2>2
  <2>4. q4.at = to + 1
    BY <1>6, <2>2
  <2> HIDE DEF to
  <2>5. \A k \in 3 .. t - 1 : msg[k] # "SP"
    BY <1>10 DEF Line
  <2>6. to = t
    <3>1. ~(t < to)
      <4>1. t < to => t \in 3 .. to - 1
        BY <2>1, <2>3
      <4> QED
        BY <2>1, <2>3, <4>1
    <3>2. ~(to < t)
      <4>1. to < t => to \in 3 .. t - 1
        BY <2>1, <2>3
      <4> QED
        BY <2>3, <2>5, <4>1
    <3> QED
      BY <2>1, <2>3, <3>1, <3>2
  <2>7. q4.at = t + 1 /\ q4.at + 1 = t + 2 /\ t + 2 <= Len(msg)
    BY <1>2, <2>1, <2>4, <2>6
  <2>8. msg[t + 1] = "HTTP/" /\ msg[t + 2] \in Versions
    BY <1>10 DEF Line
  <2>9. q5.status = "OK"
    BY <1>7, <2>2, <2>7, <2>8
  <2>10. q5.at = t + 3
    <3>1. q5.at = q4.at + 2
      BY <1>7, <2>9
    <3> QED
      BY <2>1, <2>7, <3>1
  <2>11. \/ t + 3 <= Len(msg) /\ msg[t + 3] = "LF"
         \/ t + 3 < Len(msg) /\ msg[t + 3] = "CR" /\ msg[t + 4] = "LF"
    BY <1>2, <1>10, <2>1 DEF Line, LineEnd
  <2>12. t + 3 + 1 = t + 4
    BY <2>1
  <2> QED
    BY <1>8, <2>9, <2>10, <2>11, <2>12
<1> QED
  BY <1>1, <1>8, <1>9, <1>10

-----------------------------------------------------------------------------
(* The loop that skips the headers *)

\* The next line of a parse p that has come to i.
Past(p, i) == SkipPastNewline([p EXCEPT !.at = i])

\* One turn of the loop at i, where f is what the turns behind i come to.
Turn(p, f, i) ==
    LET past == Past(p, i)
        blank == ParseNewline(past)
    IN  IF past.status # "OK" THEN past
        ELSE IF past.at = End THEN Fail(past, "SLICE_END")
        ELSE IF blank.status # "OK" THEN f[blank.at]
        ELSE [blank EXCEPT !.req.headers.to = past.at]

IsLoop(p, f) == f = [i \in 1 .. End |-> Turn(p, f, i)]

\* shttp_slice_skip_past_newline: behind the next LF, or nowhere.
LEMMA PastIs ==
    ASSUME msg \in Seq(Symbols), NEW p \in Parses, p.status = "OK", NEW i \in 1 .. End
    PROVE  /\ Past(p, i) \in Parses /\ Past(p, i).req = p.req
           /\ Past(p, i).status = "OK" =>
                /\ Past(p, i).at \in i + 1 .. End /\ msg[Past(p, i).at - 1] = "LF"
                /\ \A k \in i .. Past(p, i).at - 2 : msg[k] # "LF"
           /\ Past(p, i).status # "OK" => \A k \in i .. Len(msg) : msg[k] # "LF"
<1> DEFINE p1 == [p EXCEPT !.at = i]
           lf == SkipUntil("LF", p1.at)
<1>1. p1 \in Parses /\ p1.at = i /\ p1.req = p.req /\ p1.status = "OK"
  BY DEF Parses
<1>2. /\ lf \in i .. End /\ (lf # End => msg[lf] = "LF")
      /\ \A k \in i .. lf - 1 : msg[k] # "LF"
  BY <1>1, SkipUntilIs
<1>3. End = Len(msg) + 1 /\ Len(msg) \in Nat
  BY InBuffer
<1>4. Past(p, i) = IF lf = End THEN [p1 EXCEPT !.at = End, !.status = "NEWLINE_EXPECTED"]
                   ELSE [p1 EXCEPT !.at = lf + 1]
  BY DEF Past, SkipPastNewline
<1> HIDE DEF p1, lf
<1>5. CASE lf = End
  <2>1. End \in 1 .. End
    BY <1>3
  <2>2. \A k \in i .. Len(msg) : msg[k] # "LF"
    BY <1>2, <1>3, <1>5
  <2> QED
    BY <1>1, <1>4, <1>5, <2>1, <2>2 DEF Parses, Statuses
<1>6. CASE lf # End
  <2>1. lf + 1 \in 1 .. End /\ lf + 1 \in i + 1 .. End /\ (lf + 1) - 1 = lf /\ (lf + 1) - 2 = lf - 1
    BY <1>2, <1>3, <1>6
  <2>2. /\ Past(p, i) \in Parses /\ Past(p, i).req = p.req /\ Past(p, i).at = lf + 1
        /\ Past(p, i).status = "OK"
    BY <1>1, <1>4, <1>6, <2>1 DEF Parses
  <2> QED
    BY <1>2, <1>6, <2>1, <2>2
<1> QED
  BY <1>5, <1>6

\* A turn goes forward, so it looks at nothing but what is behind it.
LEMMA TurnGoesForward ==
    ASSUME msg \in Seq(Symbols), NEW p \in Parses, p.status = "OK", NEW i \in 1 .. End,
           NEW f, NEW g, \A j \in i + 1 .. End : f[j] = g[j]
    PROVE  Turn(p, f, i) = Turn(p, g, i)
<1> DEFINE past == Past(p, i)
           blank == ParseNewline(past)
<1>1. past \in Parses /\ (past.status = "OK" => past.at \in i + 1 .. End)
  BY PastIs
<1> HIDE DEF past
<1>2. CASE past.status # "OK" \/ past.at = End
  BY <1>2 DEF Turn, past
<1>3. CASE past.status = "OK" /\ past.at # End
  <2>1. /\ blank \in Parses
        /\ blank.status # "OK" => blank.at = past.at \/ blank.at = past.at + 1
    BY <1>1, <1>3, NewlineIs
  <2> HIDE DEF blank
  <2>2. blank.status # "OK" => blank.at \in i + 1 .. End
    <3>1. blank.at \in 1 .. End /\ past.at \in i + 1 .. End /\ End \in Nat
      BY <1>1, <1>3, <2>1, InBuffer DEF Parses
    <3> QED
      BY <2>1, <3>1
  <2>3. blank.status # "OK" => f[blank.at] = g[blank.at]
    BY <2>2
  <2>4. /\ Turn(p, f, i) = IF blank.status # "OK" THEN f[blank.at]
                           ELSE [blank EXCEPT !.req.headers.to = past.at]
        /\ Turn(p, g, i) = IF blank.status # "OK" THEN g[blank.at]
                           ELSE [blank EXCEPT !.req.headers.to = past.at]
    BY <1>3 DEF Turn, past, blank
  <2> QED
    BY <2>3, <2>4
<1> QED
  BY <1>2, <1>3

\* So the loop is defined, from the end of the message backwards.
LEMMA LoopExists ==
    ASSUME msg \in Seq(Symbols), NEW p \in Parses, p.status = "OK"
    PROVE  \E f : IsLoop(p, f)
<1> DEFINE S == {n \in 0 .. End : \E f : \A i \in End - n + 1 .. End : f[i] = Turn(p, f, i)}
<1>1. End \in Nat
  BY InBuffer
<1>2. 0 \in S
  BY <1>1
<1>3. ASSUME NEW n \in 0 .. End - 1, n \in S
      PROVE  n + 1 \in S
  <2>1. PICK f : \A i \in End - n + 1 .. End : f[i] = Turn(p, f, i)
    BY <1>3
  <2> DEFINE g == [i \in 1 .. End |-> IF i = End - n THEN Turn(p, f, i) ELSE f[i]]
  <2>2. ASSUME NEW i \in End - n .. End
        PROVE  g[i] = Turn(p, g, i)
    <3>1. i \in 1 .. End
      BY <1>1, <2>2
    <3>2. g[i] = Turn(p, f, i)
      BY <1>1, <2>1, <3>1
    <3>3. \A j \in i + 1 .. End : f[j] = g[j]
      BY <1>1, <2>2
    <3> HIDE DEF g
    <3>4. Turn(p, f, i) = Turn(p, g, i)
      BY <3>1, <3>3, TurnGoesForward
    <3> QED
      BY <3>2, <3>4
  <2> HIDE DEF g
  <2>3. \A i \in End - (n + 1) + 1 .. End : g[i] = Turn(p, g, i)
    <3>1. End - (n + 1) + 1 = End - n
      BY <1>1
    <3> QED
      BY <2>2, <3>1
  <2>4. n + 1 \in 0 .. End
    BY <1>1
  <2> QED
    BY <2>3, <2>4
<1> HIDE DEF S
<1>4. 0 .. End \subseteq S
  BY <1>1, <1>2, <1>3, UpTo
<1>5. End \in S
  BY <1>1, <1>4
<1>6. PICK f : \A i \in End - End + 1 .. End : f[i] = Turn(p, f, i)
  BY <1>5 DEF S
<1> DEFINE h == [i \in 1 .. End |-> f[i]]
<1>7. ASSUME NEW i \in 1 .. End
      PROVE  h[i] = Turn(p, h, i)
  <2>1. f[i] = Turn(p, f, i)
    BY <1>1, <1>6
  <2>2. \A j \in i + 1 .. End : f[j] = h[j]
    BY <1>1
  <2> HIDE DEF h
  <2>3. Turn(p, f, i) = Turn(p, h, i)
    BY <2>2, TurnGoesForward
  <2> QED
    BY <2>1, <2>3 DEF h
<1>8. h = [i \in 1 .. End |-> Turn(p, h, i)]
  <2>1. h = [i \in 1 .. End |-> h[i]]
    OBVIOUS
  <2> HIDE DEF h
  <2> QED
    BY <1>7, <2>1
<1> QED
  BY <1>8 DEF IsLoop

\* What the loop comes to from i: the headers end at the first empty line behind
\* i, and the parse goes on behind that line; it fails only if there is none.
Skipped(p, i, q) ==
    /\ q \in Parses /\ q.req.body = p.req.body /\ q.req.path = p.req.path
    /\ q.req.version = p.req.version /\ q.req.headers.from = p.req.headers.from
    /\ q.status = "OK" =>
         /\ q.req.headers.to \in i + 1 .. Len(msg) /\ Blank(q.req.headers.to)
         /\ q.at = q.req.headers.to + (IF msg[q.req.headers.to] = "LF" THEN 1 ELSE 2)
         /\ \A k \in i + 1 .. q.req.headers.to - 1 : ~Blank(k)
    /\ q.status # "OK" => \A k \in i + 1 .. Len(msg) : ~Blank(k)

\* No line begins inside of a line.
LEMMA InsideALine ==
    ASSUME msg \in Seq(Symbols), NEW i \in 1 .. End, NEW a \in i + 1 .. End,
           \A k \in i .. a - 2 : msg[k] # "LF"
    PROVE  \A k \in i + 1 .. a - 1 : ~LineStart(k)
<1> SUFFICES ASSUME NEW k \in i + 1 .. a - 1 PROVE ~LineStart(k)
  OBVIOUS
<1>1. End = Len(msg) + 1 /\ Len(msg) \in Nat
  BY InBuffer
<1>2. k - 1 \in i .. a - 2 /\ k # 1
  BY <1>1
<1> QED
  BY <1>2 DEF LineStart

\* A turn that does not find the empty line leaves it to the turns behind.
LEMMA TurnIs ==
    ASSUME msg \in Seq(Symbols), NEW p \in Parses, p.status = "OK", NEW i \in 1 .. End,
           NEW f, \A j \in i + 1 .. End : Skipped(p, j, f[j])
    PROVE  Skipped(p, i, Turn(p, f, i))
<1> DEFINE past == Past(p, i)
           a == past.at
           blank == ParseNewline(past)
           q == Turn(p, f, i)
<1>1. End = Len(msg) + 1 /\ Len(msg) \in Nat /\ i \in Nat
  BY InBuffer
<1>2. /\ past \in Parses /\ past.req = p.req
      /\ past.status = "OK" => /\ a \in i + 1 .. End /\ msg[a - 1] = "LF"
                               /\ \A k \in i .. a - 2 : msg[k] # "LF"
      /\ past.status # "OK" => \A k \in i .. Len(msg) : msg[k] # "LF"
  BY PastIs
<1> HIDE DEF past
<1>3. CASE past.status # "OK"
  <2>1. q = past
    BY <1>3 DEF Turn, past
  <2>2. ASSUME NEW k \in i + 1 .. Len(msg) PROVE ~Blank(k)
    <3>1. k - 1 \in i .. Len(msg) /\ k # 1
      BY <1>1
    <3>2. msg[k - 1] # "LF"
      BY <1>2, <1>3, <3>1
    <3> QED
      BY <3>1, <3>2 DEF Blank, LineStart
  <2> QED
    BY <1>2, <1>3, <2>1, <2>2 DEF Skipped
<1>4. CASE past.status = "OK" /\ a = End
  <2>1. q = [past EXCEPT !.status = "SLICE_END"]
    BY <1>4 DEF Turn, past, Fail
  <2>2. q \in Parses /\ q.req = p.req /\ q.status = "SLICE_END"
    BY <1>2, <2>1 DEF Parses, Statuses
  <2>3. ASSUME NEW k \in i + 1 .. Len(msg) PROVE ~Blank(k)
    <3>1. k \in i + 1 .. a - 1
      BY <1>1, <1>4
    <3>2. ~LineStart(k)
      BY <1>2, <1>4, <3>1, InsideALine
    <3> QED
      BY <3>2 DEF Blank
  <2> HIDE DEF q
  <2> QED
    BY <2>2, <2>3 DEF Skipped, q
<1>5. CASE past.status = "OK" /\ a # End
  <2>1. /\ a \in i + 1 .. Len(msg) /\ msg[a - 1] = "LF" /\ a \in Nat /\ i + 1 <= a
        /\ \A k \in i + 1 .. a - 1 : ~LineStart(k)
    BY <1>1, <1>2, <1>5, InsideALine
  <2>2. LineStart(a)
    BY <2>1 DEF LineStart
  <2>3. /\ blank \in Parses /\ blank.req = p.req
        /\ blank.status = "OK" =>
             \/ a <= Len(msg) /\ msg[a] = "LF" /\ blank.at = a + 1
             \/ /\ a + 1 <= Len(msg) /\ blank.at = a + 2
                /\ msg[a] = "CR" /\ msg[a + 1] = "LF"
        /\ blank.status # "OK" =>
             /\ \/ blank.at = a
                \/ a <= Len(msg) /\ msg[a] = "CR" /\ blank.at = a + 1
             /\ ~(a <= Len(msg) /\ msg[a] = "LF")
             /\ ~(a < Len(msg) /\ msg[a] = "CR" /\ msg[a + 1] = "LF")
    BY <1>2, <1>5, NewlineIs
  <2>4. q = IF blank.status # "OK" THEN f[blank.at]
            ELSE [blank EXCEPT !.req.headers.to = a]
    BY <1>5 DEF Turn, past, blank
  <2> HIDE DEF blank, q, a
  <2>5. CASE blank.status = "OK"
    <3> DEFINE h == [p.req.headers EXCEPT !.to = a]
               r == [p.req EXCEPT !.headers = h]
    <3>1. q = [blank EXCEPT !.req = r]
      BY <2>3, <2>4, <2>5
    <3>2. a \in -1 .. End
      BY <1>1, <2>1
    <3>3. h \in Places /\ h.from = p.req.headers.from /\ h.to = a
      BY <3>2 DEF Parses, Requests, Places
    <3> HIDE DEF h
    <3>4. /\ r \in Requests /\ r.headers = h /\ r.body = p.req.body /\ r.path = p.req.path
          /\ r.version = p.req.version
      BY <3>3 DEF Parses, Requests
    <3> HIDE DEF r
    <3>5. q \in Parses /\ q.req = r /\ q.at = blank.at /\ q.status = "OK"
      BY <2>3, <2>5, <3>1, <3>4 DEF Parses
    <3>6. Blank(a)
      BY <1>1, <2>1, <2>2, <2>3, <2>5 DEF Blank
    <3>7. q.at = a + (IF msg[a] = "LF" THEN 1 ELSE 2)
      BY <2>3, <2>5, <3>5
    <3>8. \A k \in i + 1 .. a - 1 : ~Blank(k)
      BY <2>1 DEF Blank
    <3>9. /\ q.req.headers.to = a /\ q.req.headers.from = p.req.headers.from
          /\ q.req.body = p.req.body /\ q.req.path = p.req.path
          /\ q.req.version = p.req.version
      BY <3>3, <3>4, <3>5
    <3>10. Skipped(p, i, q)
      BY <2>1, <3>5, <3>6, <3>7, <3>8, <3>9 DEF Skipped
    <3> QED
      BY <3>10 DEF q
  <2>6. CASE blank.status # "OK"
    <3> DEFINE b == blank.at
    <3>1. b = a \/ (b = a + 1 /\ msg[a] = "CR")
      BY <2>3, <2>6 DEF Parses
    <3>2. b \in i + 1 .. End /\ q = f[b]
      BY <1>1, <2>1, <2>3, <2>4, <2>6 DEF Parses
    <3> HIDE DEF b
    <3>3. Skipped(p, b, q)
      BY <3>2
    <3>4. ~Blank(a)
      BY <2>3, <2>6 DEF Blank
    <3>5. b = a + 1 => ~Blank(b)
      <4>1. b = a + 1 => b # 1 /\ msg[b - 1] # "LF"
        BY <2>1, <3>1
      <4> QED
        BY <4>1 DEF Blank, LineStart
    <3>6. ASSUME q.status = "OK"
          PROVE  /\ q.req.headers.to \in i + 1 .. Len(msg)
                 /\ \A k \in i + 1 .. q.req.headers.to - 1 : ~Blank(k)
      <4> DEFINE to == q.req.headers.to
      <4>1. to \in b + 1 .. Len(msg) /\ \A k \in b + 1 .. to - 1 : ~Blank(k)
        BY <3>3, <3>6 DEF Skipped
      <4> HIDE DEF to
      <4>2. to \in i + 1 .. Len(msg)
        BY <1>1, <3>2, <4>1
      <4>3. ASSUME NEW k \in i + 1 .. to - 1
            PROVE  ~Blank(k)
        <5>1. k \in i + 1 .. a - 1 \/ k = a \/ (k = b /\ b = a + 1) \/ k \in b + 1 .. to - 1
          BY <1>1, <2>1, <3>1, <3>2, <4>1
        <5>2. k \in i + 1 .. a - 1 => ~Blank(k)
          BY <2>1 DEF Blank
        <5> QED
          BY <3>4, <3>5, <4>1, <5>1, <5>2
      <4> QED
        BY <4>2, <4>3 DEF to
    <3>7. ASSUME q.status # "OK", NEW k \in i + 1 .. Len(msg)
          PROVE  ~Blank(k)
      <4>1. k \in i + 1 .. a - 1 \/ k = a \/ (k = b /\ b = a + 1) \/ k \in b + 1 .. Len(msg)
        BY <1>1, <2>1, <3>1, <3>2
      <4>2. k \in i + 1 .. a - 1 => ~Blank(k)
        BY <2>1 DEF Blank
      <4>3. k \in b + 1 .. Len(msg) => ~Blank(k)
        BY <3>3, <3>7 DEF Skipped
      <4> QED
        BY <3>4, <3>5, <4>1, <4>2, <4>3
    <3>8. Skipped(p, i, q)
      BY <3>3, <3>6, <3>7 DEF Skipped
    <3> QED
      BY <3>8 DEF q
  <2> QED
    BY <2>5, <2>6
<1> QED
  BY <1>3, <1>4, <1>5

\* shttp_slice_skip_headers, whatever turns it takes.
LEMMA SkipHeadersIs ==
    ASSUME msg \in Seq(Symbols), NEW p \in Parses, p.status = "OK"
    PROVE  Skipped(p, p.at, SkipHeaders(p))
<1> DEFINE f == CHOOSE g : IsLoop(p, g)
           S == {n \in 0 .. End : \A i \in End - n + 1 .. End : Skipped(p, i, f[i])}
<1>1. End \in Nat /\ p.at \in 1 .. End
  BY InBuffer DEF Parses
<1>2. SkipHeaders(p) = f[p.at]
  BY DEF SkipHeaders, IsLoop, Turn, Past
<1>3. IsLoop(p, f)
  BY LoopExists
<1> HIDE DEF f
<1>4. \A i \in 1 .. End : f[i] = Turn(p, f, i)
  BY <1>3 DEF IsLoop
<1>5. 0 \in S
  BY <1>1
<1>6. ASSUME NEW n \in 0 .. End - 1, n \in S
      PROVE  n + 1 \in S
  <2>1. \A i \in End - n + 1 .. End : Skipped(p, i, f[i])
    BY <1>6
  <2>2. End - n \in 1 .. End /\ (End - n) + 1 = End - n + 1 /\ n + 1 \in 0 .. End
    BY <1>1
  <2>3. Skipped(p, End - n, Turn(p, f, End - n))
    BY <2>1, <2>2, TurnIs
  <2>4. Skipped(p, End - n, f[End - n])
    BY <1>4, <2>2, <2>3
  <2>5. ASSUME NEW i \in End - (n + 1) + 1 .. End
        PROVE  Skipped(p, i, f[i])
    <3>1. i = End - n \/ i \in End - n + 1 .. End
      BY <1>1
    <3> QED
      BY <2>1, <2>4, <3>1
  <2> QED
    BY <2>2, <2>5
<1> HIDE DEF S
<1>7. 0 .. End \subseteq S
  BY <1>1, <1>5, <1>6, UpTo
<1>8. \A i \in End - End + 1 .. End : Skipped(p, i, f[i])
  <2>1. End \in S
    BY <1>1, <1>7
  <2> QED
    BY <2>1 DEF S
<1>9. p.at \in End - End + 1 .. End
  BY <1>1
<1> QED
  BY <1>2, <1>8, <1>9

-----------------------------------------------------------------------------
(* The body, and the whole of shttp_msg_request *)

\* The place of the body, for an accepted request whose headers end at h and
\* whose empty line ends before a.
BodyAt(h, a) ==
    LET eol == Min({i \in a .. Len(msg) : msg[i] = "LF"})
    IN  [from |-> h, to |-> IF eol > a /\ msg[eol - 1] = "CR" THEN eol - 1 ELSE eol]

\* The body is left alone if the message ends with the empty line.
LEMMA BodyIs ==
    ASSUME msg \in Seq(Symbols), NEW p \in Parses, p.status = "OK"
    PROVE  LET q == Body(p)
           IN  /\ q \in Parses /\ q.req.path = p.req.path
               /\ q.req.version = p.req.version /\ q.req.headers = p.req.headers
               /\ q.status = "OK" =>
                    /\ q.at = End
                    /\ p.at = End => q.req.body = p.req.body
                    /\ p.at # End => q.req.body = BodyAt(p.req.headers.to, p.at)
               /\ q.status = "OK" <=>
                    p.at = End \/ \E k \in p.at .. Len(msg) : msg[k] = "LF"
<1>1. End = Len(msg) + 1 /\ Len(msg) \in Nat /\ p.at \in 1 .. End
  BY InBuffer DEF Parses
<1>2. CASE p.at = End
  BY <1>2 DEF Body
<1>3. CASE p.at # End
  <2> DEFINE h == p.req.headers.to
             b1 == [p.req.body EXCEPT !.from = h]
             r1 == [p.req EXCEPT !.body = b1]
             p1 == [p EXCEPT !.req = r1]
             lf == SkipUntil("LF", p1.at)
             stop == IF lf > p1.at /\ msg[lf - 1] = "CR" THEN lf - 1 ELSE lf
             p2 == IF lf = End THEN [p1 EXCEPT !.at = End, !.status = "NEWLINE_EXPECTED"]
                   ELSE [p1 EXCEPT !.at = stop]
             b2 == [b1 EXCEPT !.to = stop]
             r2 == [r1 EXCEPT !.body = b2]
             p3 == [p2 EXCEPT !.req = r2, !.at = End]
  <2>1. h \in -1 .. End /\ b1 \in Places /\ b1.from = h
    BY DEF Parses, Requests, Places
  <2> HIDE DEF h
  <2>2. /\ r1 \in Requests /\ r1.body = b1 /\ r1.path = p.req.path
        /\ r1.version = p.req.version /\ r1.headers = p.req.headers
    <3> HIDE DEF b1
    <3> QED
      BY <2>1 DEF Parses, Requests
  <2>3. p1 \in Parses /\ p1.req = r1 /\ p1.at = p.at /\ p1.status = "OK"
    <3> HIDE DEF r1
    <3> QED
      BY <2>2 DEF Parses
  <2>4. p1 = [p EXCEPT !.req.body.from = p.req.headers.to]
    BY DEF h
  <2>5. Body(p) = IF p2.status = "OK" THEN [p2 EXCEPT !.req.body.to = p2.at, !.at = End] ELSE p2
    <3>1. SkipUntilNewline(p1) = p2
      <4> HIDE DEF p1
      <4>1. CASE lf = End
        BY <4>1 DEF SkipUntilNewline
      <4>2. CASE lf # End /\ lf > p1.at /\ msg[lf - 1] = "CR"
        BY <4>2 DEF SkipUntilNewline
      <4>3. CASE lf # End /\ ~(lf > p1.at /\ msg[lf - 1] = "CR")
        BY <4>3 DEF SkipUntilNewline
      <4> QED
        BY <4>1, <4>2, <4>3
    <3> HIDE DEF p1, p2
    <3> QED
      BY <1>3, <2>4, <3>1, Zenon DEF Body, Then
  <2> HIDE DEF p1, r1, b1
  <2>6. /\ lf \in p.at .. End /\ (lf # End => msg[lf] = "LF")
        /\ \A k \in p.at .. lf - 1 : msg[k] # "LF"
    BY <1>1, <2>3, SkipUntilIs
  <2> HIDE DEF lf
  <2>7. CASE lf = End
    <3>1. /\ p2 \in Parses /\ p2.req = r1 /\ p2.status = "NEWLINE_EXPECTED"
      <4>1. p2 = [p1 EXCEPT !.at = End, !.status = "NEWLINE_EXPECTED"]
        BY <2>7
      <4>2. End \in 1 .. End
        BY <1>1
      <4> HIDE DEF p2
      <4> QED
        BY <2>3, <4>1, <4>2 DEF Parses, Statuses
    <3> HIDE DEF p2
    <3>2. Body(p) = p2
      BY <2>5, <3>1
    <3>3. ~(p.at = End \/ \E k \in p.at .. Len(msg) : msg[k] = "LF")
      BY <1>1, <1>3, <2>6, <2>7
    <3> QED
      BY <2>2, <3>1, <3>2, <3>3
  <2>8. CASE lf # End
    <3>1. stop \in 1 .. End /\ stop \in -1 .. End
      <4>1. lf \in 1 .. End /\ p1.at \in 1 .. End
        BY <1>1, <2>3, <2>6
      <4>2. stop = lf \/ (stop = lf - 1 /\ lf > p1.at)
        OBVIOUS
      <4> HIDE DEF stop
      <4> QED
        BY <1>1, <4>1, <4>2
    <3>2. BodyAt(h, p.at) = [from |-> h, to |-> stop]
      <4> DEFINE S == {i \in p.at .. Len(msg) : msg[i] = "LF"}
      <4>1. lf \in S /\ S \subseteq Nat /\ \A k \in S : lf <= k
        <5>1. lf \in S /\ S \subseteq Nat
          BY <1>1, <2>6, <2>8
        <5>2. ASSUME NEW k \in S PROVE lf <= k
          BY <1>1, <2>6
        <5> QED
          BY <5>1, <5>2
      <4>2. Min(S) \in S /\ \A k \in S : Min(S) <= k
        BY <4>1, MinIsLeast
      <4>3. Min(S) = lf
        BY <4>1, <4>2
      <4> QED
        BY <2>3, <4>3 DEF BodyAt
    <3> HIDE DEF stop
    <3>3. p2 \in Parses /\ p2.req = r1 /\ p2.at = stop /\ p2.status = "OK"
      BY <2>3, <2>8, <3>1 DEF Parses
    <3> HIDE DEF p2
    <3>4. Body(p) = p3
      <4>1. [p2 EXCEPT !.req.body.to = p2.at, !.at = End] = p3
        BY <2>2, <3>3
      <4> QED
        BY <2>5, <3>3, <4>1
    <3>5. b2 \in Places /\ b2 = [from |-> h, to |-> stop]
      <4>1. b2 = [from |-> h, to |-> stop]
        BY <2>1 DEF Places
      <4> QED
        BY <2>1, <3>1, <4>1 DEF Places
    <3> HIDE DEF b2
    <3>6. /\ r2 \in Requests /\ r2.body = b2 /\ r2.path = p.req.path
          /\ r2.version = p.req.version /\ r2.headers = p.req.headers
      BY <2>2, <3>5 DEF Requests
    <3> HIDE DEF r2
    <3>7. p3 \in Parses /\ p3.req = r2 /\ p3.at = End /\ p3.status = "OK"
      <4>1. End \in 1 .. End
        BY <1>1
      <4> QED
        BY <3>3, <3>6, <4>1 DEF Parses
    <3> HIDE DEF p3
    <3>8. \E k \in p.at .. Len(msg) : msg[k] = "LF"
      <4>1. lf \in p.at .. Len(msg) /\ msg[lf] = "LF"
        BY <1>1, <2>6, <2>8
      <4> QED
        BY <4>1
    <3> QED
      BY <1>3, <3>2, <3>4, <3>5, <3>6, <3>7, <3>8 DEF h
  <2> QED
    BY <2>7, <2>8
<1> QED
  BY <1>2, <1>3

\* Where the empty line at h ends.
After(h) == h + (IF msg[h] = "LF" THEN 1 ELSE 2)

\* An accepted request, in a structure that had b for a body.
Accepted(q, b) ==
    /\ q.req.path.from = 3 /\ q.req.path.to \in 3 .. Len(msg)
    /\ msg[2] = "SP" /\ msg[q.req.path.to] = "SP"
    /\ \A k \in 3 .. q.req.path.to - 1 : msg[k] # "SP"
    /\ q.req.version = msg[q.req.path.to + 2]
    /\ q.req.headers.from \in 1 .. Len(msg) /\ msg[q.req.headers.from - 1] = "LF"
    /\ \A k \in q.req.path.to .. q.req.headers.from - 2 : msg[k] # "LF"
    /\ q.req.headers.to \in q.req.headers.from + 1 .. Len(msg) /\ Blank(q.req.headers.to)
    /\ \A k \in q.req.headers.from + 1 .. q.req.headers.to - 1 : ~Blank(k)
    /\ q.at = End
    /\ After(q.req.headers.to) \in 1 .. End
    /\ After(q.req.headers.to) = End => q.req.body = b
    /\ After(q.req.headers.to) # End =>
          q.req.body = BodyAt(q.req.headers.to, After(q.req.headers.to))

\* What has to be behind the request line, from a on: a header line or more, an
\* empty line, and behind it nothing or a newline somewhere.
Rest(a) ==
    /\ a <= Len(msg)
    /\ \E b \in a + 1 .. Len(msg) :
          /\ Blank(b) /\ \A k \in a + 1 .. b - 1 : ~Blank(k)
          /\ After(b) = End \/ \E k \in After(b) .. Len(msg) : msg[k] = "LF"

\* What is behind the request line: headers and a body.
LEMMA SlicesIs ==
    ASSUME msg \in Seq(Symbols), NEW p \in Parses, p.status = "OK", LineRead(p)
    PROVE  LET q == Slices(p)
           IN  /\ q \in Parses
               /\ q.status = "OK" => Accepted(q, p.req.body)
               /\ q.status = "OK" <=> Rest(p.at)
<1>1. End = Len(msg) + 1 /\ Len(msg) \in Nat /\ p.at \in 1 .. End
  BY InBuffer DEF Parses
<1>2. CASE p.at = End
  <2>1. Slices(p) = [p EXCEPT !.status = "SLICE_END"]
    BY <1>2 DEF Slices, Fail
  <2>2. ~Rest(p.at)
    BY <1>1, <1>2 DEF Rest
  <2> QED
    BY <2>1, <2>2 DEF Parses, Statuses
<1>3. CASE p.at # End
  <2> DEFINE h == [p.req.headers EXCEPT !.from = p.at]
             r == [p.req EXCEPT !.headers = h]
             p1 == [p EXCEPT !.req = r]
             p2 == SkipHeaders(p1)
             p3 == Body(p2)
  <2>1. Slices(p) = IF p2.status = "OK" THEN p3 ELSE p2
    <3>1. [p EXCEPT !.req.headers.from = p.at] = p1
      OBVIOUS
    <3> HIDE DEF p1
    <3> QED
      BY <1>3, <3>1 DEF Slices, Then
  <2>2. h \in Places /\ h.from = p.at
    BY <1>1 DEF Parses, Requests, Places
  <2> HIDE DEF h
  <2>3. /\ r \in Requests /\ r.headers = h /\ r.body = p.req.body /\ r.path = p.req.path
        /\ r.version = p.req.version
    BY <2>2 DEF Parses, Requests
  <2> HIDE DEF r
  <2>4. p1 \in Parses /\ p1.req = r /\ p1.at = p.at /\ p1.status = "OK"
    BY <2>3 DEF Parses
  <2> HIDE DEF p1
  <2>5. Skipped(p1, p.at, p2)
    BY <2>4, SkipHeadersIs
  <2> HIDE DEF p2
  <2>6. p2 \in Parses
    BY <2>5 DEF Skipped
  <2>7. CASE p2.status = "OK"
    <3> DEFINE to == p2.req.headers.to
    <3>1. /\ p2.req.body = p.req.body /\ p2.req.path = p.req.path
          /\ p2.req.version = p.req.version /\ p2.req.headers.from = p.at
      BY <2>2, <2>3, <2>4, <2>5 DEF Skipped
    <3>2. /\ to \in p.at + 1 .. Len(msg) /\ Blank(to) /\ p2.at = After(to)
          /\ \A k \in p.at + 1 .. to - 1 : ~Blank(k)
      BY <2>5, <2>7 DEF Skipped, After
    <3>3. /\ p3 \in Parses /\ p3.req.path = p2.req.path
          /\ p3.req.version = p2.req.version /\ p3.req.headers = p2.req.headers
          /\ p3.status = "OK" =>
               /\ p3.at = End
               /\ p2.at = End => p3.req.body = p2.req.body
               /\ p2.at # End => p3.req.body = BodyAt(to, p2.at)
          /\ p3.status = "OK" <=>
               p2.at = End \/ \E k \in p2.at .. Len(msg) : msg[k] = "LF"
      BY <2>6, <2>7, BodyIs
    <3> HIDE DEF to, p3
    <3>4. ASSUME p3.status = "OK"
          PROVE  Accepted(p3, p.req.body)
      <4>1. /\ p3.req.path = p.req.path /\ p3.req.version = p.req.version
            /\ p3.req.headers.from = p.at /\ p3.req.headers.to = to
        BY <3>1, <3>3 DEF to
      <4>2. /\ p.req.path.from = 3 /\ p.req.path.to \in 3 .. Len(msg)
            /\ msg[2] = "SP" /\ msg[p.req.path.to] = "SP"
            /\ \A k \in 3 .. p.req.path.to - 1 : msg[k] # "SP"
            /\ p.req.version = msg[p.req.path.to + 2]
        <5>1. p.req.path.to \in 3 .. Len(msg) - 3
          BY DEF LineRead, Line
        <5>2. p.req.path.to \in 3 .. Len(msg)
          BY <1>1, <5>1
        <5> QED
          BY <5>2, Zenon DEF LineRead, Line
      <4>7. /\ msg[p.at - 1] = "LF"
            /\ \A k \in p.req.path.to .. p.at - 2 : msg[k] # "LF"
        <5>1. Line(p.req.path.to) /\ p.at = LineEnd(p.req.path.to) + 1
          BY <1>1 DEF LineRead
        <5> QED
          BY <5>1, LineIs, Zenon
      <4>3. p.at \in 1 .. Len(msg) /\ to \in p.at + 1 .. Len(msg)
        BY <1>1, <1>3, <3>2
      <4>4. p2.at \in 1 .. End /\ p3.at = End
        BY <2>6, <3>3, <3>4 DEF Parses
      <4>5. After(to) = End => p3.req.body = p.req.body
        BY <3>1, <3>2, <3>3, <3>4
      <4>6. After(to) # End => p3.req.body = BodyAt(to, After(to))
        BY <3>2, <3>3, <3>4
      <4> QED
        BY <3>2, <4>1, <4>2, <4>3, <4>4, <4>5, <4>6, <4>7 DEF Accepted
    <3>5. p3.status = "OK" => Rest(p.at)
      BY <1>1, <1>3, <3>2, <3>3 DEF Rest
    <3>6. ASSUME Rest(p.at) PROVE p3.status = "OK"
      <4>1. PICK b \in p.at + 1 .. Len(msg) :
              /\ Blank(b) /\ \A k \in p.at + 1 .. b - 1 : ~Blank(k)
              /\ After(b) = End \/ \E k \in After(b) .. Len(msg) : msg[k] = "LF"
        BY <3>6 DEF Rest
      <4>2. b = to
        <5>1. ~(b < to)
          <6>1. b < to => b \in p.at + 1 .. to - 1
            BY <1>1, <3>2
          <6> QED
            BY <3>2, <4>1, <6>1
        <5>2. ~(to < b)
          <6>1. to < b => to \in p.at + 1 .. b - 1
            BY <1>1, <3>2
          <6> QED
            BY <3>2, <4>1, <6>1
        <5> QED
          BY <1>1, <3>2, <5>1, <5>2
      <4> QED
        BY <3>2, <3>3, <4>1, <4>2
    <3> QED
      BY <2>1, <2>7, <3>3, <3>4, <3>5, <3>6 DEF p3
  <2>8. CASE p2.status # "OK"
    <3>1. \A k \in p.at + 1 .. Len(msg) : ~Blank(k)
      BY <2>5, <2>8 DEF Skipped
    <3>2. ~Rest(p.at)
      BY <3>1 DEF Rest
    <3> QED
      BY <2>1, <2>6, <2>8, <3>2
  <2> QED
    BY <2>7, <2>8
<1> QED
  BY <1>2, <1>3

-----------------------------------------------------------------------------
(* The theorems *)

RqTypes ==
    /\ msg \in Seq(Symbols) /\ at \in 1 .. End /\ req \in Requests /\ status \in Statuses

\* Whatever the structure holds before a parse is NULL or from before.
NothingRead ==
    /\ at = 1
    /\ \A s \in {req.path, req.headers, req.body} :
          s.from \in {0, Stale} /\ s.to \in {0, Stale}

\* An accepted request has a header line at least, with its newline.
HeadersPlaced ==
    status = "OK" => /\ req.headers.from \in 1 .. Len(msg)
                     /\ req.headers.to \in req.headers.from + 1 .. Len(msg)
                     /\ msg[req.headers.to - 1] = "LF"

RqInv ==
    /\ RqTypes
    /\ msg = <<>> => status = "none"
    /\ status = "none" => NothingRead
    /\ HeadersPlaced
    /\ HeadersAreLines /\ PathBetweenSpaces /\ AcceptsWellFormed /\ BodyOfThisMessage

\* A program that has not been asked anything has a structure of zeroes.
LEMMA RqInvInit == Init => RqInv
<1> SUFFICES ASSUME Init PROVE RqInv
  OBVIOUS
<1>1. PICK m \in {"GET"} \cap Methods, v \in {"1.0"} \cap Versions :
         req = [method |-> m, version |-> v, path |-> Nowhere,
                headers |-> Nowhere, body |-> Nowhere]
  BY DEF Init
<1>2. msg = <<>> /\ at = 1 /\ status = "none"
  BY DEF Init
<1>3. End = 1 /\ msg \in Seq(Symbols) /\ status \in Statuses
  BY <1>2 DEF End, Statuses
<1>4. Nowhere \in Places /\ Nowhere.from = 0 /\ Nowhere.to = 0
  BY <1>3 DEF Nowhere, Places
<1>5. req \in Requests /\ req.path = Nowhere /\ req.headers = Nowhere /\ req.body = Nowhere
  <2> HIDE DEF Nowhere
  <2> QED
    BY <1>1, <1>4 DEF Requests
<1>6. RqTypes /\ NothingRead
  BY <1>2, <1>3, <1>4, <1>5 DEF RqTypes, NothingRead
<1>7. /\ HeadersAreLines /\ PathBetweenSpaces /\ AcceptsWellFormed /\ BodyOfThisMessage
      /\ HeadersPlaced
  BY <1>2 DEF HeadersAreLines, PathBetweenSpaces, AcceptsWellFormed, BodyOfThisMessage,
              HeadersPlaced
<1> QED
  BY <1>2, <1>6, <1>7 DEF RqInv

\* A message that arrives moves the end of the buffer and nothing else.
LEMMA ReceiveStep == ASSUME RqInv, NEW m \in Messages, Receive(m) PROVE RqInv'
<1>1. /\ msg = <<>> /\ msg' = m /\ at' = at /\ req' = req /\ status' = status
      /\ m \in Seq(Symbols) /\ m # <<>>
  BY RequestAssumption DEF Receive
<1>2. RqTypes /\ status = "none" /\ NothingRead
  BY <1>1 DEF RqInv
<1>3. End' \in Nat \ {0}
  BY <1>1 DEF End
<1>4. req \in Requests /\ Places \subseteq [from : Int, to : Int]
  <2>1. -1 .. End \subseteq Int
    OBVIOUS
  <2> QED
    BY <1>2, <2>1 DEF Places, RqTypes
<1>5. req.path \in Places' /\ req.headers \in Places' /\ req.body \in Places'
  <2>1. /\ req.path \in [from : Int, to : Int] /\ req.headers \in [from : Int, to : Int]
        /\ req.body \in [from : Int, to : Int]
    BY <1>4 DEF Requests
  <2>2. {0, Stale} \subseteq -1 .. End'
    BY <1>3 DEF Stale
  <2> QED
    BY <1>2, <2>1, <2>2 DEF NothingRead, Places
<1>6. req \in Requests'
  BY <1>2, <1>5 DEF RqTypes, Requests
<1>7. RqTypes' /\ NothingRead'
  BY <1>1, <1>2, <1>3, <1>6 DEF RqTypes, NothingRead
<1>8. (/\ HeadersAreLines /\ PathBetweenSpaces /\ AcceptsWellFormed /\ BodyOfThisMessage
       /\ HeadersPlaced)'
  BY <1>1, <1>2 DEF HeadersAreLines, PathBetweenSpaces, AcceptsWellFormed, BodyOfThisMessage,
                    HeadersPlaced
<1> QED
  BY <1>1, <1>2, <1>7, <1>8 DEF RqInv

\* What Accepted says of a parse, the properties say of the structure.
LEMMA AcceptedIs ==
    ASSUME msg \in Seq(Symbols), NEW q \in Parses, NEW b \in Places, b.from \in {0, Stale},
           msg' = msg, at' = q.at, req' = q.req, status' = q.status,
           q.status = "OK" => Accepted(q, b)
    PROVE  (HeadersAreLines /\ PathBetweenSpaces /\ BodyOfThisMessage /\ HeadersPlaced)'
<1>1. CASE status' # "OK"
  BY <1>1 DEF HeadersAreLines, PathBetweenSpaces, BodyOfThisMessage, HeadersPlaced
<1>2. CASE status' = "OK"
  <2> DEFINE from == req'.headers.from
             to == req'.headers.to
             pto == req'.path.to
  <2>1. End = Len(msg) + 1 /\ Len(msg) \in Nat
    BY InBuffer
  <2>2. Accepted(q, b)
    BY <1>2
  <2>3. /\ req'.path.from = 3 /\ pto \in 3 .. Len(msg) /\ msg[2] = "SP" /\ msg[pto] = "SP"
        /\ \A k \in 3 .. pto - 1 : msg[k] # "SP"
        /\ req'.version = msg[pto + 2]
    BY <2>2 DEF Accepted
  <2>4. /\ from \in 1 .. Len(msg) /\ msg[from - 1] = "LF"
        /\ \A k \in pto .. from - 2 : msg[k] # "LF"
    BY <2>2 DEF Accepted
  <2>5. /\ to \in from + 1 .. Len(msg) /\ Blank(to)
        /\ \A k \in from + 1 .. to - 1 : ~Blank(k)
    BY <2>2 DEF Accepted
  <2>6. /\ at' = End /\ After(to) \in 1 .. End
        /\ After(to) = End => req'.body.from \in {0, Stale}
        /\ After(to) < End => req'.body = BodyAt(to, After(to))
    BY <2>1, <2>2 DEF Accepted
  <2>7. PathBetweenSpaces'
    BY <2>3 DEF PathBetweenSpaces
  <2>8. HeadersAreLines'
    <3>1. LineStart(from)
      BY <2>4 DEF LineStart
    <3> HIDE DEF from, to, pto
    <3>2. ASSUME NEW i \in pto + 1 .. from - 1 PROVE ~LineStart(i)
      <4>1. i # 1 /\ i - 1 \in pto .. from - 2
        BY <2>1, <2>3, <2>4
      <4> QED
        BY <2>4, <4>1 DEF LineStart
    <3>3. /\ LineStart(from) /\ (\A i \in pto + 1 .. from - 1 : ~LineStart(i))
          /\ Blank(to) /\ \A i \in from + 1 .. to - 1 : ~Blank(i)
      BY <2>5, <3>1, <3>2
    <3> QED
      BY <3>3 DEF HeadersAreLines, LineStart, Blank, from, to, pto
  <2>9. BodyOfThisMessage'
    <3> HIDE DEF to
    <3> QED
      BY <2>6 DEF BodyOfThisMessage, After, BodyAt, End, to
  <2>10. HeadersPlaced'
    <3>1. to # 1 /\ msg[to - 1] = "LF"
      BY <2>1, <2>4, <2>5 DEF Blank, LineStart
    <3> QED
      BY <2>4, <2>5, <3>1 DEF HeadersPlaced
  <2> QED
    BY <2>7, <2>8, <2>9, <2>10
<1> QED
  BY <1>1, <1>2

\* A message is well formed if it has a request line and the rest of it.
LEMMA WellFormedIs ==
    ASSUME msg \in Seq(Symbols)
    PROVE  WellFormed <=> \E to : Line(to) /\ Rest(LineEnd(to) + 1)
<1>1. End = Len(msg) + 1 /\ Len(msg) \in Nat
  BY InBuffer
<1>2. ASSUME NEW to, Line(to), Rest(LineEnd(to) + 1)
      PROVE  WellFormed
  <2>1. /\ to \in 3 .. Len(msg) - 3 /\ LineEnd(to) \in {to + 3, to + 4}
        /\ LineEnd(to) < Len(msg) /\ msg[LineEnd(to)] = "LF"
    BY <1>1, <1>2 DEF Line, LineEnd, Rest
  <2>2. LineEnd(to) + 1 + 1 = LineEnd(to) + 2
    BY <2>1
  <2>3. to \in {p \in 3 .. Len(msg) : msg[p] = "SP"} /\ Len(msg) > to + 3
    BY <1>1, <1>2, <2>1 DEF Line
  <2>4. \E blank \in LineEnd(to) + 2 .. Len(msg) :
          /\ Blank(blank)
          /\ \A i \in LineEnd(to) + 2 .. blank - 1 : ~Blank(i)
          /\ After(blank) = End \/ \E i \in After(blank) .. Len(msg) : msg[i] = "LF"
    BY <1>2, <2>2 DEF Rest
  <2>5. PICK blank \in LineEnd(to) + 2 .. Len(msg) :
          /\ Blank(blank)
          /\ \A i \in LineEnd(to) + 2 .. blank - 1 : ~Blank(i)
          /\ After(blank) = End \/ \E i \in After(blank) .. Len(msg) : msg[i] = "LF"
    BY <2>4
  <2>6. After(blank) = IF msg[blank] = "LF" THEN blank + 1 ELSE blank + 2
    BY DEF After
  <2> QED
    BY <1>2, <2>1, <2>3, <2>5, <2>6 DEF WellFormed, Line, LineEnd
<1>3. ASSUME WellFormed
      PROVE  \E to : Line(to) /\ Rest(LineEnd(to) + 1)
  <2>1. PICK to \in {p \in 3 .. Len(msg) : msg[p] = "SP"} :
          /\ Len(msg) > to + 3
          /\ msg[1] \in Methods /\ msg[2] = "SP"
          /\ \A i \in 3 .. to - 1 : msg[i] # "SP"
          /\ msg[to + 1] = "HTTP/" /\ msg[to + 2] \in Versions
          /\ LineEnd(to) < Len(msg) /\ msg[LineEnd(to)] = "LF"
          /\ \E blank \in LineEnd(to) + 2 .. Len(msg) :
                /\ Blank(blank)
                /\ \A i \in LineEnd(to) + 2 .. blank - 1 : ~Blank(i)
                /\ LET after == IF msg[blank] = "LF" THEN blank + 1 ELSE blank + 2
                   IN  after = End \/ \E i \in after .. Len(msg) : msg[i] = "LF"
    BY <1>3 DEF WellFormed, LineEnd
  <2>2. to \in 3 .. Len(msg) - 3 /\ LineEnd(to) \in {to + 3, to + 4}
    BY <1>1, <2>1 DEF LineEnd
  <2>3. /\ LineEnd(to) + 1 + 1 = LineEnd(to) + 2 /\ LineEnd(to) + 1 <= Len(msg)
        /\ LineEnd(to) <= Len(msg)
    BY <1>1, <2>1, <2>2
  <2>4. Line(to)
    BY <2>1, <2>2, <2>3 DEF Line
  <2>5. PICK blank \in LineEnd(to) + 2 .. Len(msg) :
          /\ Blank(blank)
          /\ \A i \in LineEnd(to) + 2 .. blank - 1 : ~Blank(i)
          /\ LET after == IF msg[blank] = "LF" THEN blank + 1 ELSE blank + 2
             IN  after = End \/ \E i \in after .. Len(msg) : msg[i] = "LF"
    BY <2>1
  <2>6. After(blank) = IF msg[blank] = "LF" THEN blank + 1 ELSE blank + 2
    <3>1. blank \in Int
      BY <2>2
    <3> QED
      BY <3>1 DEF After
  <2>7. Rest(LineEnd(to) + 1)
    BY <2>3, <2>5, <2>6 DEF Rest
  <2> QED
    BY <2>4, <2>7
<1> QED
  BY <1>2, <1>3

\* shttp_msg_request reads the message from its first symbol.
LEMMA MsgRequestStep == ASSUME RqInv, MsgRequest PROVE RqInv'
<1> DEFINE p == [at |-> 1, req |-> req, status |-> "OK"]
           l == RequestLine(p)
           q == IF l.status = "OK" THEN Slices(l) ELSE l
<1>1. /\ msg # <<>> /\ status = "none" /\ RqTypes /\ NothingRead
      /\ msg' = msg
  BY DEF RqInv, MsgRequest
<1>2. at' = q.at /\ req' = q.req /\ status' = q.status
  <2>1. p = [at |-> at, req |-> req, status |-> "OK"]
    BY <1>1 DEF NothingRead
  <2> HIDE DEF p
  <2> QED
    BY <2>1 DEF MsgRequest, Then
<1>3. p \in Parses /\ p.at = 1 /\ p.req = req /\ p.status = "OK"
  <2>1. 1 \in 1 .. End /\ req \in Requests
    BY <1>1, InBuffer DEF RqTypes
  <2> QED
    BY <2>1 DEF Parses, Statuses
<1> HIDE DEF p
<1>4. /\ l \in Parses /\ l.req.body = req.body
      /\ l.status = "OK" => LineRead(l)
      /\ (\E to : Line(to)) => l.status = "OK"
  BY <1>1, <1>3, RequestLineIs DEF RqTypes
<1> HIDE DEF l
<1>5. /\ q \in Parses
      /\ q.status = "OK" => Accepted(q, req.body)
      /\ q.status = "OK" <=> l.status = "OK" /\ Rest(l.at)
  BY <1>1, <1>4, SlicesIs DEF RqTypes
<1> HIDE DEF q
<1>6. req.body \in Places /\ req.body.from \in {0, Stale}
  BY <1>1 DEF RqTypes, Requests, NothingRead
<1>7. (HeadersAreLines /\ PathBetweenSpaces /\ BodyOfThisMessage /\ HeadersPlaced)'
  BY <1>1, <1>2, <1>5, <1>6, AcceptedIs DEF RqTypes
<1>8. RqTypes' /\ status' # "none"
  <2>1. End' = End /\ Requests' = Requests
    BY <1>1 DEF End, Requests, Places
  <2>2. q.at \in 1 .. End /\ q.req \in Requests /\ q.status \in Statuses /\ q.status # "none"
    BY <1>5 DEF Parses
  <2> QED
    BY <1>1, <1>2, <2>1, <2>2 DEF RqTypes
<1>9. AcceptsWellFormed'
  <2>1. l.status = "OK" /\ Rest(l.at) <=> WellFormed
    <3>1. ASSUME l.status = "OK", Rest(l.at) PROVE WellFormed
      <4>1. Line(l.req.path.to) /\ l.at = LineEnd(l.req.path.to) + 1
        BY <1>4, <3>1 DEF LineRead
      <4> QED
        BY <1>1, <3>1, <4>1, WellFormedIs DEF RqTypes
    <3>2. ASSUME WellFormed PROVE l.status = "OK" /\ Rest(l.at)
      <4>1. PICK to : Line(to) /\ Rest(LineEnd(to) + 1)
        BY <1>1, <3>2, WellFormedIs DEF RqTypes
      <4>2. l.status = "OK"
        BY <1>4, <4>1
      <4>3. Line(l.req.path.to) /\ l.at = LineEnd(l.req.path.to) + 1
        BY <1>4, <4>2 DEF LineRead
      <4>4. l.req.path.to = to
        BY <1>1, <4>1, <4>3, LineIs DEF RqTypes
      <4> QED
        BY <4>1, <4>2, <4>3, <4>4
    <3> QED
      BY <3>1, <3>2
  <2>2. status' = "OK" <=> WellFormed
    BY <1>2, <1>5, <2>1
  <2>3. WellFormed' <=> WellFormed
    BY <1>1 DEF WellFormed, Blank, LineStart, End
  <2> QED
    BY <2>2, <2>3 DEF AcceptsWellFormed
<1> QED
  BY <1>1, <1>7, <1>8, <1>9 DEF RqInv

\* A structure that is used again keeps where it pointed, and nothing of it
\* is taken for a place in the next message.
LEMMA ReuseStep == ASSUME RqInv, Reuse PROVE RqInv'
<1> DEFINE Old(s) == [e \in {"from", "to"} |-> IF s[e] = 0 THEN 0 ELSE Stale]
<1>1. /\ msg' = <<>> /\ at' = 1 /\ status' = "none"
      /\ req' = [req EXCEPT !.path = Old(req.path), !.headers = Old(req.headers),
                            !.body = Old(req.body)]
  BY DEF Reuse
<1>2. ASSUME NEW s
      PROVE  Old(s) \in [from : {0, Stale}, to : {0, Stale}]
  <2>1. Old(s) = [from |-> IF s.from = 0 THEN 0 ELSE Stale,
                  to |-> IF s.to = 0 THEN 0 ELSE Stale]
    OBVIOUS
  <2> QED
    BY <2>1
<1>3. req \in Requests
  BY DEF RqInv, RqTypes
<1>4. End' = 1 /\ msg' \in Seq(Symbols) /\ status' \in Statuses
  BY <1>1 DEF End, Statuses
<1>5. Places' = [from : -1 .. 1, to : -1 .. 1]
  BY <1>4 DEF Places
<1> DEFINE a == Old(req.path)
           h == Old(req.headers)
           b == Old(req.body)
<1>6. /\ a \in [from : {0, Stale}, to : {0, Stale}]
      /\ h \in [from : {0, Stale}, to : {0, Stale}]
      /\ b \in [from : {0, Stale}, to : {0, Stale}]
  BY <1>2
<1> HIDE DEF a, h, b
<1>7. a \in Places' /\ h \in Places' /\ b \in Places'
  BY <1>5, <1>6 DEF Stale
<1>8. req' \in Requests' /\ req'.path = a /\ req'.headers = h /\ req'.body = b
  <2>1. req' = [req EXCEPT !.path = a, !.headers = h, !.body = b]
    BY <1>1 DEF a, h, b
  <2>2. /\ req.method \in Methods \cup {"LENGTH"} /\ req.version \in Versions \cup {"LENGTH"}
    BY <1>3 DEF Requests
  <2>3. req' = [method |-> req.method, version |-> req.version, path |-> a, headers |-> h,
                body |-> b]
    BY <1>3, <2>1 DEF Requests
  <2> QED
    BY <1>7, <2>2, <2>3 DEF Requests
<1>9. RqTypes' /\ NothingRead'
  BY <1>1, <1>4, <1>6, <1>8 DEF RqTypes, NothingRead
<1>10. (/\ HeadersAreLines /\ PathBetweenSpaces /\ AcceptsWellFormed /\ BodyOfThisMessage
        /\ HeadersPlaced)'
  BY <1>1 DEF HeadersAreLines, PathBetweenSpaces, AcceptsWellFormed, BodyOfThisMessage,
              HeadersPlaced
<1> QED
  BY <1>1, <1>9, <1>10 DEF RqInv

\* Every step of the parsing program keeps the invariant.
LEMMA RqInvStep == RqInv /\ [Next]_vars => RqInv'
<1> SUFFICES ASSUME RqInv, [Next]_vars PROVE RqInv'
  OBVIOUS
<1>1. CASE \E m \in Messages : Receive(m)
  BY <1>1, ReceiveStep
<1>2. CASE MsgRequest
  BY <1>2, MsgRequestStep
<1>3. CASE Reuse
  BY <1>3, ReuseStep
<1>4. CASE UNCHANGED vars
  BY <1>4 DEF vars, RqInv, RqTypes, NothingRead, HeadersPlaced, HeadersAreLines, PathBetweenSpaces,
              AcceptsWellFormed, WellFormed, BodyOfThisMessage, LineStart, Blank, End,
              Requests, Places
<1> QED
  BY <1>1, <1>2, <1>3, <1>4 DEF Next

\* What it says of the types.
LEMMA RqInvTypes == RqInv => TypeOK
<1> SUFFICES ASSUME RqInv PROVE TypeOK
  OBVIOUS
<1>1. msg \in Seq(Symbols) /\ at \in 1 .. End /\ req \in Requests /\ status \in Statuses
  BY DEF RqInv, RqTypes
<1> QED
  BY <1>1, InBuffer DEF TypeOK, Requests, Places

\* Every pointer of the structure is in the buffer, NULL or from before.
THEOREM RequestTypes == Spec => []TypeOK
BY RqInvInit, RqInvStep, RqInvTypes, PTL DEF Spec

\* The headers of an accepted request are the lines up to the empty one.
THEOREM HeadersFound == Spec => []HeadersAreLines
<1>1. RqInv => HeadersAreLines
  BY DEF RqInv
<1> QED
  BY RqInvInit, RqInvStep, <1>1, PTL DEF Spec

\* The path of an accepted request lies between the first two spaces.
THEOREM PathFound == Spec => []PathBetweenSpaces
<1>1. RqInv => PathBetweenSpaces
  BY DEF RqInv
<1> QED
  BY RqInvInit, RqInvStep, <1>1, PTL DEF Spec

\* The server takes the requests of the form it answers, and no others.
THEOREM WellFormedAccepted == Spec => []AcceptsWellFormed
<1>1. RqInv => AcceptsWellFormed
  BY DEF RqInv
<1> QED
  BY RqInvInit, RqInvStep, <1>1, PTL DEF Spec

\* The body of an accepted request is of this message, or was not touched.
THEOREM BodyFound == Spec => []BodyOfThisMessage
<1>1. RqInv => BodyOfThisMessage
  BY DEF RqInv
<1> QED
  BY RqInvInit, RqInvStep, <1>1, PTL DEF Spec

-----------------------------------------------------------------------------
(* The program of module Messages *)

\* A program that reads the headers of the requests it gets, or writes
\* responses, takes the steps of Request or leaves it alone: what is proved
\* above holds of MessagesSpec, which the runs check.
THEOREM ReadingIsParsing == MessagesSpec => Spec
<1>1. MessagesInit => Init
  BY DEF MessagesInit, HeadersInit
<1>2. [Reads \/ Writes]_<<headersVars, writing, direction>> => [Next]_vars
  <2> SUFFICES ASSUME [Reads \/ Writes]_<<headersVars, writing, direction>>
               PROVE  [Next]_vars
    OBVIOUS
  <2>1. CASE HeadersNext
    <3>1. HeadersNext => Next \/ UNCHANGED vars
      BY DEF HeadersNext, Next, ReuseAll, TakeHeaders, NextLine, LookInside, ReadKey,
             ReadValue, LookOutside
    <3> QED
      BY <2>1, <3>1
  <2>2. CASE UNCHANGED headersVars
    BY <2>2 DEF headersVars
  <2> QED
    BY <2>1, <2>2 DEF Reads, Writes
<1> QED
  BY <1>1, <1>2, PTL DEF MessagesSpec, Spec
=============================================================================
