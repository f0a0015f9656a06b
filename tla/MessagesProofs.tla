--------------------------- MODULE MessagesProofs ---------------------------
(***************************************************************************)
(* Theorems about module Messages: its reading half, which is modules      *)
(* Request and Headers, for messages of every length and a program that    *)
(* makes its calls in any order; and its writing half, which is module     *)
(* Response, for every length of headers, body and reason phrase and every *)
(* size of the buffer.                                                     *)
(***************************************************************************)
EXTENDS RequestProofs, SequenceTheorems

-----------------------------------------------------------------------------
(* The members of a set of positions, in order *)

Enumerates(e, S) ==
    /\ e \in Seq(Nat)
    /\ \A k \in 1 .. Len(e) : e[k] \in S
    /\ \A j, k \in 1 .. Len(e) : j < k => e[j] < e[k]
    /\ \A i \in S : \E k \in 1 .. Len(e) : e[k] = i

\* What the recursive function in InOrder is at i.
Gathered(S, f, i) ==
    IF i = 0 THEN <<>> ELSE IF i \in S THEN Append(f[i - 1], i) ELSE f[i - 1]

IsGathering(S, f) == f = [i \in 0 .. Len(msg) |-> Gathered(S, f, i)]

\* There is such a function.
LEMMA GatheringExists ==
    ASSUME msg \in Seq(Symbols), NEW S
    PROVE  \E f : IsGathering(S, f)
<1> DEFINE N == {n \in 0 .. Len(msg) : \E f : \A i \in 0 .. n : f[i] = Gathered(S, f, i)}
<1>1. Len(msg) \in Nat
  BY InBuffer
<1>2. 0 \in N
  <2>1. \A i \in 0 .. 0 : [i0 \in {0} |-> <<>>][i] = Gathered(S, [i0 \in {0} |-> <<>>], i)
    BY DEF Gathered
  <2> QED
    BY <1>1, <2>1
<1>3. ASSUME NEW n \in 0 .. Len(msg) - 1, n \in N
      PROVE  n + 1 \in N
  <2>1. PICK f : \A i \in 0 .. n : f[i] = Gathered(S, f, i)
    BY <1>3
  <2> DEFINE g == [i \in 0 .. n + 1 |-> IF i = n + 1 THEN Gathered(S, f, i) ELSE f[i]]
  <2>2. ASSUME NEW i \in 0 .. n + 1
        PROVE  g[i] = Gathered(S, g, i)
    <3>1. g[i] = Gathered(S, f, i)
      BY <2>1
    <3>2. i # 0 => g[i - 1] = f[i - 1]
      BY <1>1
    <3> HIDE DEF g
    <3> QED
      BY <3>1, <3>2 DEF Gathered
  <2> HIDE DEF g
  <2>3. n + 1 \in 0 .. Len(msg)
    BY <1>1
  <2> QED
    BY <2>2, <2>3
<1> HIDE DEF N
<1>4. Len(msg) \in N
  <2>1. 0 .. Len(msg) \subseteq N
    BY <1>1, <1>2, <1>3, UpTo
  <2> QED
    BY <1>1, <2>1
<1>5. PICK f : \A i \in 0 .. Len(msg) : f[i] = Gathered(S, f, i)
  BY <1>4 DEF N
<1> DEFINE h == [i \in 0 .. Len(msg) |-> f[i]]
<1>6. ASSUME NEW i \in 0 .. Len(msg)
      PROVE  h[i] = Gathered(S, h, i)
  <2>1. i # 0 => h[i - 1] = f[i - 1]
    BY <1>1
  <2>2. h[i] = Gathered(S, f, i)
    BY <1>5
  <2> HIDE DEF h
  <2> QED
    BY <2>1, <2>2 DEF Gathered
<1>7. h = [i \in 0 .. Len(msg) |-> h[i]]
  OBVIOUS
<1> HIDE DEF h
<1> QED
  BY <1>6, <1>7 DEF IsGathering

\* InOrder lists the set from its least member to its greatest.
LEMMA InOrderIs ==
    ASSUME msg \in Seq(Symbols), NEW S \in SUBSET (1 .. Len(msg))
    PROVE  Enumerates(InOrder(S), S)
<1> DEFINE f == CHOOSE g : IsGathering(S, g)
           N == {n \in 0 .. Len(msg) : Enumerates(f[n], S \cap (1 .. n))}
<1>1. Len(msg) \in Nat
  BY InBuffer
<1>2. InOrder(S) = f[Len(msg)]
  BY DEF InOrder, IsGathering, Gathered
<1>3. IsGathering(S, f)
  BY GatheringExists
<1> HIDE DEF f
<1>4. \A i \in 0 .. Len(msg) : f[i] = Gathered(S, f, i)
  BY <1>3 DEF IsGathering
<1>5. 0 \in N
  <2>1. f[0] = <<>>
    BY <1>1, <1>4 DEF Gathered
  <2>2. Enumerates(<<>>, S \cap (1 .. 0))
    BY DEF Enumerates
  <2> QED
    BY <1>1, <2>1, <2>2
<1>6. ASSUME NEW n \in 0 .. Len(msg) - 1, n \in N
      PROVE  n + 1 \in N
  <2> DEFINE e == f[n]
  <2>1. /\ n \in Nat /\ n + 1 \in 0 .. Len(msg) /\ n + 1 # 0 /\ (n + 1) - 1 = n
        /\ Enumerates(e, S \cap (1 .. n))
    BY <1>1, <1>6
  <2>2. f[n + 1] = IF n + 1 \in S THEN Append(e, n + 1) ELSE e
    BY <1>4, <2>1 DEF Gathered
  <2> HIDE DEF e
  <2>3. CASE n + 1 \notin S
    <3>1. S \cap (1 .. n + 1) = S \cap (1 .. n)
      BY <2>1, <2>3
    <3> QED
      BY <2>1, <2>2, <2>3, <3>1
  <2>4. CASE n + 1 \in S
    <3> DEFINE g == Append(e, n + 1)
    <3>1. /\ e \in Seq(Nat) /\ Len(e) \in Nat
          /\ \A k \in 1 .. Len(e) : e[k] \in S /\ e[k] \in 1 .. n
          /\ \A j, k \in 1 .. Len(e) : j < k => e[j] < e[k]
          /\ \A i \in S \cap (1 .. n) : \E k \in 1 .. Len(e) : e[k] = i
      BY <2>1 DEF Enumerates
    <3>2. /\ g \in Seq(Nat) /\ Len(g) = Len(e) + 1 /\ g[Len(e) + 1] = n + 1
          /\ \A k \in 1 .. Len(e) : g[k] = e[k]
      BY <2>1, <3>1
    <3> HIDE DEF g
    <3>3. ASSUME NEW k \in 1 .. Len(g)
          PROVE  /\ g[k] \in S \cap (1 .. n + 1)
                 /\ k \in 1 .. Len(e) \/ k = Len(e) + 1
      <4>1. CASE k = Len(e) + 1
        BY <2>1, <2>4, <3>2, <4>1
      <4>2. CASE k # Len(e) + 1
        <5>1. k \in 1 .. Len(e)
          BY <3>1, <3>2, <4>2
        <5>2. g[k] = e[k] /\ e[k] \in S /\ e[k] \in 1 .. n
          BY <3>1, <3>2, <5>1
        <5> QED
          BY <2>1, <5>1, <5>2
      <4> QED
        BY <4>1, <4>2
    <3>4. ASSUME NEW j \in 1 .. Len(g), NEW k \in 1 .. Len(g), j < k
          PROVE  g[j] < g[k]
      <4>1. j \in 1 .. Len(e) /\ g[j] = e[j] /\ e[j] \in 1 .. n
        <5> DEFINE l == Len(e)
        <5>1. l \in Nat /\ j \in 1 .. l + 1 /\ k \in 1 .. l + 1
          BY <3>1, <3>2
        <5> HIDE DEF l
        <5>2. j \in 1 .. l
          BY <3>4, <5>1
        <5> QED
          BY <3>1, <3>2, <5>2 DEF l
      <4>2. CASE k = Len(e) + 1
        BY <2>1, <3>2, <4>1, <4>2
      <4>3. CASE k # Len(e) + 1
        <5>1. k \in 1 .. Len(e) /\ g[k] = e[k]
          BY <3>2, <3>3, <4>3
        <5> QED
          BY <3>1, <3>4, <4>1, <5>1
      <4> QED
        BY <4>2, <4>3
    <3>5. ASSUME NEW i \in S \cap (1 .. n + 1)
          PROVE  \E k \in 1 .. Len(g) : g[k] = i
      <4>1. CASE i = n + 1
        BY <3>1, <3>2, <4>1
      <4>2. CASE i # n + 1
        <5>1. PICK k \in 1 .. Len(e) : e[k] = i
          BY <2>1, <3>1, <4>2
        <5> QED
          BY <3>1, <3>2, <5>1
      <4> QED
        BY <4>1, <4>2
    <3>6. Enumerates(g, S \cap (1 .. n + 1))
      BY <3>2, <3>3, <3>4, <3>5 DEF Enumerates
    <3> QED
      BY <2>1, <2>2, <2>4, <3>6 DEF g
  <2> QED
    BY <2>3, <2>4
<1> HIDE DEF N
<1>7. Len(msg) \in N
  <2>1. 0 .. Len(msg) \subseteq N
    BY <1>1, <1>5, <1>6, UpTo
  <2> QED
    BY <1>1, <2>1
<1>8. S \cap (1 .. Len(msg)) = S
  OBVIOUS
<1> QED
  BY <1>2, <1>7, <1>8 DEF N

\* The member m of S comes next behind the first n of them.
Follows(m, n, e, S) ==
    /\ m \in S /\ (n > 0 => e[n] < m)
    /\ \A i \in S : i < m => n > 0 /\ i <= e[n]

LEMMA NextInOrder ==
    ASSUME NEW S \in SUBSET Nat, NEW e, Enumerates(e, S), NEW n \in 0 .. Len(e),
           NEW m, Follows(m, n, e, S)
    PROVE  n < Len(e) /\ e[n + 1] = m
<1>1. /\ e \in Seq(Nat) /\ Len(e) \in Nat
      /\ \A k \in 1 .. Len(e) : e[k] \in S
      /\ \A j, k \in 1 .. Len(e) : j < k => e[j] < e[k]
  BY DEF Enumerates
<1>2. PICK k \in 1 .. Len(e) : e[k] = m
  BY DEF Enumerates, Follows
<1>3. m \in S /\ (n > 0 => e[n] < m) /\ \A i \in S : i < m => n > 0 /\ i <= e[n]
  BY DEF Follows
<1>4. k > n
  <2>1. n > 0 => e[n] < e[k] /\ e[n] \in Nat /\ e[k] \in Nat
    BY <1>1, <1>2, <1>3
  <2>2. n > 0 /\ k < n => e[k] < e[n]
    BY <1>1
  <2> QED
    BY <1>1, <1>2, <2>1, <2>2
<1>5. k = n + 1
  <2>1. SUFFICES ASSUME k > n + 1 PROVE FALSE
    BY <1>1, <1>2, <1>4
  <2>2. e[n + 1] \in S /\ e[n + 1] < m
    BY <1>1, <1>2, <2>1
  <2>3. n > 0 /\ e[n + 1] <= e[n]
    BY <1>3, <2>2
  <2>4. e[n] < e[n + 1] /\ e[n] \in Nat /\ e[n + 1] \in Nat
    BY <1>1, <2>1, <2>3
  <2> QED
    BY <2>3, <2>4
<1> QED
  BY <1>1, <1>2, <1>5

\* There is none.
LEMMA LastInOrder ==
    ASSUME NEW S \in SUBSET Nat, NEW e, Enumerates(e, S), NEW n \in 0 .. Len(e),
           \A i \in S : n > 0 /\ i <= e[n]
    PROVE  Len(e) = n
<1>1. /\ e \in Seq(Nat) /\ Len(e) \in Nat
      /\ \A k \in 1 .. Len(e) : e[k] \in S
      /\ \A j, k \in 1 .. Len(e) : j < k => e[j] < e[k]
  BY DEF Enumerates
<1>2. SUFFICES ASSUME n < Len(e) PROVE FALSE
  BY <1>1
<1>3. e[n + 1] \in S /\ e[n + 1] \in Nat
  BY <1>1, <1>2
<1>4. n > 0 /\ e[n + 1] <= e[n]
  BY <1>3
<1>5. e[n] < e[n + 1] /\ e[n] \in Nat
  BY <1>1, <1>2, <1>4
<1> QED
  BY <1>3, <1>4, <1>5

-----------------------------------------------------------------------------
(* The calls, from a slice of the message *)

Spans == {s \in [from : 1 .. End, to : 1 .. End] : s.from <= s.to}

\* A span has its two ends, and moving one of them leaves the other.
LEMMA SpanIs ==
    ASSUME msg \in Seq(Symbols), NEW s \in Spans
    PROVE  /\ s.from \in 1 .. End /\ s.to \in 1 .. End /\ s.from <= s.to
           /\ s.from \in Nat /\ s.to \in Nat /\ s.to - 1 <= Len(msg)
           /\ \A i \in s.from .. s.to :
                 /\ At(s, i) \in Spans /\ At(s, i).from = i /\ At(s, i).to = s.to
                 /\ Upto(s, i) \in Spans /\ Upto(s, i) = [from |-> s.from, to |-> i]
<1>1. End = Len(msg) + 1 /\ Len(msg) \in Nat
  BY InBuffer
<1>2. /\ s.from \in 1 .. End /\ s.to \in 1 .. End /\ s.from <= s.to
      /\ s = [from |-> s.from, to |-> s.to]
  BY DEF Spans
<1>3. ASSUME NEW i \in s.from .. s.to
      PROVE  /\ At(s, i) = [from |-> i, to |-> s.to] /\ At(s, i) \in Spans
             /\ Upto(s, i) = [from |-> s.from, to |-> i] /\ Upto(s, i) \in Spans
  <2>1. i \in 1 .. End /\ s.from <= i /\ i <= s.to
    BY <1>1, <1>2
  <2>2. At(s, i) = [from |-> i, to |-> s.to] /\ Upto(s, i) = [from |-> s.from, to |-> i]
    BY <1>2 DEF At, Upto
  <2> QED
    BY <1>2, <2>1, <2>2 DEF Spans
<1> QED
  BY <1>1, <1>2, <1>3

\* A scan ends at the first mark of the span, or at its end.
LEMMA UntilIs ==
    ASSUME msg \in Seq(Symbols), NEW s \in Spans, NEW marks
    PROVE  /\ Until(marks, s) \in s.from .. s.to
           /\ \A k \in s.from .. Until(marks, s) - 1 : msg[k] \notin marks
           /\ Until(marks, s) # s.to => msg[Until(marks, s)] \in marks
<1> DEFINE S == {i \in s.from .. s.to - 1 : msg[i] \in marks} \cup {s.to}
<1>1. s.from \in Nat /\ s.to \in Nat /\ s.from <= s.to
  BY SpanIs
<1>2. S \subseteq Nat /\ S # {}
  BY <1>1
<1>3. Min(S) \in S /\ \A k \in S : Min(S) <= k
  BY <1>2, MinIsLeast
<1>4. Until(marks, s) = Min(S)
  BY DEF Until
<1>5. Min(S) \in s.from .. s.to /\ (Min(S) # s.to => msg[Min(S)] \in marks)
  BY <1>1, <1>3
<1>6. ASSUME NEW k \in s.from .. Min(S) - 1 PROVE msg[k] \notin marks
  BY <1>1, <1>3, <1>5
<1> QED
  BY <1>4, <1>5, <1>6

\* Without a CR the text still begins where it did.
LEMMA WithoutCRIs ==
    ASSUME msg \in Seq(Symbols), NEW s \in Spans, NEW i \in s.from .. s.to
    PROVE  WithoutCR(s, i) \in s.from .. s.to
<1>1. s.from \in Nat /\ s.to \in Nat
  BY SpanIs
<1> QED
  BY <1>1 DEF WithoutCR

\* shttp_header_next, on a slice that ends with a newline.
LEMMA HeaderNextIs ==
    ASSUME msg \in Seq(Symbols), NEW s \in Spans,
           s.from # s.to => msg[s.to - 1] = "LF"
    PROVE  /\ s.from = s.to => HeaderNext(s) = Ended(s)
           /\ s.from # s.to => \E lf \in s.from .. s.to - 1 :
                /\ msg[lf] = "LF" /\ \A k \in s.from .. lf - 1 : msg[k] # "LF"
                /\ HeaderNext(s) = [s |-> At(s, lf + 1), out |-> Upto(s, WithoutCR(s, lf)),
                                    status |-> "OK"]
<1>1. CASE s.from = s.to
  BY <1>1 DEF HeaderNext
<1>2. CASE s.from # s.to
  <2> DEFINE lf == Until({"LF"}, s)
  <2>1. s.from \in Nat /\ s.to \in Nat /\ s.from <= s.to
    BY SpanIs
  <2>2. /\ lf \in s.from .. s.to /\ (lf # s.to => msg[lf] = "LF")
        /\ \A k \in s.from .. lf - 1 : msg[k] # "LF"
    BY UntilIs
  <2>3. lf # s.to
    <3>1. lf = s.to => s.to - 1 \in s.from .. lf - 1
      BY <1>2, <2>1
    <3> QED
      BY <1>2, <2>2, <3>1
  <2>4. HeaderNext(s) = [s |-> At(s, lf + 1), out |-> Upto(s, WithoutCR(s, lf)),
                         status |-> "OK"]
    BY <1>2, <2>3 DEF HeaderNext
  <2> HIDE DEF lf
  <2>5. lf \in s.from .. s.to - 1
    BY <2>1, <2>2, <2>3
  <2> QED
    BY <1>2, <2>2, <2>3, <2>4, <2>5
<1> QED
  BY <1>1, <1>2

\* One optional space is passed.
LEMMA PastSpaceIs ==
    ASSUME NEW i \in Nat, NEW to \in Nat, i <= to
    PROVE  PastSpace(i, to) \in i .. to
BY DEF PastSpace

\* shttp_header_key.
LEMMA HeaderKeyIs ==
    ASSUME msg \in Seq(Symbols), NEW s \in Spans
    PROVE  \/ HeaderKey(s) = Ended(s)
           \/ \E colon \in s.from .. s.to - 1 :
                /\ msg[colon] = ":" /\ \A k \in s.from .. colon - 1 : msg[k] # ":"
                /\ HeaderKey(s) = [s |-> At(s, PastSpace(colon + 1, s.to)),
                                   out |-> Upto(s, colon),
                                   status |-> IF colon + 1 = s.to THEN "SLICE_END" ELSE "OK"]
<1> DEFINE colon == Until({":"}, s)
<1>1. s.from \in Nat /\ s.to \in Nat /\ s.from <= s.to
  BY SpanIs
<1>2. /\ colon \in s.from .. s.to /\ (colon # s.to => msg[colon] = ":")
      /\ \A k \in s.from .. colon - 1 : msg[k] # ":"
  BY UntilIs
<1>3. HeaderKey(s) = IF colon = s.to THEN Ended(s)
                     ELSE [s |-> At(s, PastSpace(colon + 1, s.to)), out |-> Upto(s, colon),
                           status |-> IF colon + 1 = s.to THEN "SLICE_END" ELSE "OK"]
  BY DEF HeaderKey
<1> HIDE DEF colon
<1>4. colon # s.to => colon \in s.from .. s.to - 1
  BY <1>1, <1>2
<1> QED
  BY <1>2, <1>3, <1>4

\* shttp_header_value: a value, or no separator.
LEMMA HeaderValueIs ==
    ASSUME msg \in Seq(Symbols), NEW s \in Spans
    PROVE  \/ /\ HeaderValue(s) = Ended(s)
              /\ \A k \in s.from .. s.to - 1 : msg[k] \notin {"SP", "LF", ","}
           \/ \E mark \in s.from .. s.to - 1 :
                /\ msg[mark] \in {"SP", "LF", ","}
                /\ \A k \in s.from .. mark - 1 : msg[k] \notin {"SP", "LF", ","}
                /\ HeaderValue(s) =
                      [s |-> At(s, IF msg[mark] = "SP" THEN mark + 1
                                   ELSE PastSpace(mark + 1, s.to)),
                       out |-> Upto(s, WithoutCR(s, mark)), status |-> "OK"]
<1> DEFINE mark == Until({"SP", "LF", ","}, s)
           next == IF msg[mark] = "SP" THEN mark ELSE mark + 1
<1>1. s.from \in Nat /\ s.to \in Nat /\ s.from <= s.to
  BY SpanIs
<1>2. /\ mark \in s.from .. s.to /\ (mark # s.to => msg[mark] \in {"SP", "LF", ","})
      /\ \A k \in s.from .. mark - 1 : msg[k] \notin {"SP", "LF", ","}
  BY UntilIs
<1>3. HeaderValue(s) = IF mark = s.to THEN Ended(s)
                       ELSE [s |-> At(s, PastSpace(next, s.to)),
                             out |-> Upto(s, WithoutCR(s, mark)), status |-> "OK"]
  BY DEF HeaderValue
<1> HIDE DEF mark
<1>4. mark # s.to => mark \in s.from .. s.to - 1
  <2>1. mark \in s.from .. s.to
    BY <1>2
  <2> QED
    BY <1>1, <2>1
<1>5. ASSUME mark # s.to
      PROVE  PastSpace(next, s.to) =
                 IF msg[mark] = "SP" THEN mark + 1 ELSE PastSpace(mark + 1, s.to)
  <2>1. mark \in s.from .. s.to - 1 /\ mark < s.to
    BY <1>1, <1>4, <1>5
  <2>2. msg[mark] = "SP" => PastSpace(mark, s.to) = mark + 1
    BY <2>1 DEF PastSpace
  <2> QED
    BY <2>2
<1> HIDE DEF next
<1> QED
  BY <1>2, <1>3, <1>4, <1>5

-----------------------------------------------------------------------------
(* Where the lines and the values are *)

Newlines == {i \in req.headers.from .. req.headers.to - 1 : msg[i] = "LF"}
Ends == InOrder(Newlines)
LineFrom(n) == IF n = 1 THEN req.headers.from ELSE Ends[n - 1] + 1
LineAt(n) == [from |-> LineFrom(n),
              to |-> IF Ends[n] > LineFrom(n) /\ msg[Ends[n] - 1] = "CR"
                     THEN Ends[n] - 1 ELSE Ends[n]]

Mark(i) == msg[i] \in {"LF", ","}
Separates(i) == Mark(i) \/ (msg[i] = "SP" /\ ~(i > first /\ Mark(i - 1)))
Separators == {i \in first .. inside.to - 1 : Separates(i)}
Cuts == InOrder(Separators)
WordFrom(n) ==
    IF n = 1 THEN first
    ELSE IF Mark(Cuts[n - 1]) /\ Cuts[n - 1] + 1 < inside.to /\ msg[Cuts[n - 1] + 1] = "SP"
    THEN Cuts[n - 1] + 2 ELSE Cuts[n - 1] + 1
WordAt(n) == [from |-> WordFrom(n),
              to |-> IF Cuts[n] > WordFrom(n) /\ msg[Cuts[n] - 1] = "CR"
                     THEN Cuts[n] - 1 ELSE Cuts[n]]

LEMMA EndsInOrder ==
    ASSUME msg \in Seq(Symbols), status = "OK", HeadersPlaced
    PROVE  /\ Newlines \in SUBSET Nat /\ Enumerates(Ends, Newlines) /\ Len(Ends) \in Nat
           /\ \A k \in 1 .. Len(Ends) : Ends[k] \in Newlines /\ Ends[k] \in Nat
<1>1. Len(msg) \in Nat
  BY InBuffer
<1>2. /\ req.headers.from \in 1 .. Len(msg)
      /\ req.headers.to \in req.headers.from + 1 .. Len(msg)
  BY DEF HeadersPlaced
<1>3. Newlines \in SUBSET (1 .. Len(msg)) /\ Newlines \in SUBSET Nat
  BY <1>1, <1>2 DEF Newlines
<1>4. Enumerates(Ends, Newlines)
  BY <1>3, InOrderIs DEF Ends
<1>5. Len(Ends) \in Nat /\ \A k \in 1 .. Len(Ends) : Ends[k] \in Newlines
  BY <1>4 DEF Enumerates
<1> QED
  BY <1>3, <1>4, <1>5

\* Behind n lines, what is left begins with the next one, or is nothing.
LEMMA LineAdvances ==
    ASSUME msg \in Seq(Symbols), status = "OK", HeadersPlaced,
           NEW n \in 0 .. Len(Ends), NEW s \in Spans,
           s.to = req.headers.to, s.from = LineFrom(n + 1)
    PROVE  /\ s.from = s.to => Len(Ends) = n
           /\ \A lf \in s.from .. s.to - 1 :
                msg[lf] = "LF" /\ (\A k \in s.from .. lf - 1 : msg[k] # "LF") =>
                  /\ n < Len(Ends) /\ Ends[n + 1] = lf
                  /\ LineAt(n + 1) = Upto(s, WithoutCR(s, lf))
                  /\ LineFrom(n + 2) = lf + 1
<1>1. /\ Newlines \in SUBSET Nat /\ Enumerates(Ends, Newlines) /\ Len(Ends) \in Nat
      /\ \A k \in 1 .. Len(Ends) : Ends[k] \in Newlines /\ Ends[k] \in Nat
  BY EndsInOrder
<1>2. /\ s.from \in Nat /\ s.to \in Nat /\ s.from <= s.to /\ n \in Nat
      /\ req.headers.from \in Nat
  BY <1>1, SpanIs DEF HeadersPlaced
<1>3. /\ n = 0 => s.from = req.headers.from
      /\ n > 0 => s.from = Ends[n] + 1 /\ Ends[n] \in Nat /\ n \in 1 .. Len(Ends)
  BY <1>1, <1>2 DEF LineFrom
<1>4. ASSUME NEW i \in Newlines, ~(n > 0 /\ i <= Ends[n])
      PROVE  i \in s.from .. s.to - 1 /\ msg[i] = "LF"
  BY <1>1, <1>2, <1>3, <1>4 DEF Newlines
<1>5. s.from = s.to => Len(Ends) = n
  <2>1. SUFFICES ASSUME s.from = s.to PROVE Len(Ends) = n
    OBVIOUS
  <2>2. \A i \in Newlines : n > 0 /\ i <= Ends[n]
    BY <1>2, <1>4, <2>1
  <2> QED
    BY <1>1, <2>2, LastInOrder
<1>6. ASSUME NEW lf \in s.from .. s.to - 1, msg[lf] = "LF",
             \A k \in s.from .. lf - 1 : msg[k] # "LF"
      PROVE  /\ n < Len(Ends) /\ Ends[n + 1] = lf
             /\ LineAt(n + 1) = Upto(s, WithoutCR(s, lf))
             /\ LineFrom(n + 2) = lf + 1
  <2>1. lf \in Newlines /\ (n > 0 => Ends[n] < lf) /\ lf \in Nat
    <3>1. req.headers.from <= s.from
      BY <1>1, <1>2, <1>3 DEF Newlines
    <3> QED
      BY <1>2, <1>3, <1>6, <3>1 DEF Newlines
  <2>2. \A i \in Newlines : i < lf => n > 0 /\ i <= Ends[n]
    <3>1. TAKE i \in Newlines
    <3>2. SUFFICES ASSUME i < lf, ~(n > 0 /\ i <= Ends[n]) PROVE FALSE
      OBVIOUS
    <3>3. i \in s.from .. lf - 1 /\ msg[i] = "LF"
      BY <1>2, <1>4, <2>1, <3>2
    <3> QED
      BY <1>6, <3>3
  <2>3. n < Len(Ends) /\ Ends[n + 1] = lf
    <3>1. Follows(lf, n, Ends, Newlines)
      BY <2>1, <2>2 DEF Follows
    <3> QED
      BY <1>1, <3>1, NextInOrder
  <2>4. LineFrom(n + 2) = lf + 1
    BY <1>2, <2>3 DEF LineFrom
  <2>5. WithoutCR(s, lf) = (IF lf > s.from /\ msg[lf - 1] = "CR" THEN lf - 1 ELSE lf)
    BY DEF WithoutCR
  <2>6. Upto(s, WithoutCR(s, lf)) = [from |-> s.from, to |-> WithoutCR(s, lf)]
    <3>1. WithoutCR(s, lf) \in s.from .. s.to
      BY <1>2, WithoutCRIs
    <3> QED
      BY <3>1, SpanIs
  <2>7. LineAt(n + 1) = [from |-> s.from, to |-> WithoutCR(s, lf)]
    BY <2>3, <2>5 DEF LineAt
  <2> QED
    BY <2>3, <2>4, <2>6, <2>7
<1> QED
  BY <1>5, <1>6

LEMMA CutsInOrder ==
    ASSUME msg \in Seq(Symbols), inside \in Spans, first \in 1 .. End
    PROVE  /\ Separators \in SUBSET Nat /\ Enumerates(Cuts, Separators) /\ Len(Cuts) \in Nat
           /\ \A k \in 1 .. Len(Cuts) : Cuts[k] \in Separators /\ Cuts[k] \in Nat
<1>1. End = Len(msg) + 1 /\ Len(msg) \in Nat
  BY InBuffer
<1>2. inside.to \in 1 .. End
  BY SpanIs
<1>3. Separators \in SUBSET (1 .. Len(msg)) /\ Separators \in SUBSET Nat
  BY <1>1, <1>2 DEF Separators
<1>4. Enumerates(Cuts, Separators)
  BY <1>3, InOrderIs DEF Cuts
<1>5. Len(Cuts) \in Nat /\ \A k \in 1 .. Len(Cuts) : Cuts[k] \in Separators
  BY <1>4 DEF Enumerates
<1> QED
  BY <1>3, <1>4, <1>5

\* Behind n values, what is left begins with the next one or has no separator.
LEMMA WordAdvances ==
    ASSUME msg \in Seq(Symbols), inside \in Spans, first \in 1 .. End,
           NEW n \in 0 .. Len(Cuts), inside.from = WordFrom(n + 1)
    PROVE  /\ (\A k \in inside.from .. inside.to - 1 : msg[k] \notin {"SP", "LF", ","}) =>
                 Len(Cuts) = n
           /\ \A m \in inside.from .. inside.to - 1 :
                /\ msg[m] \in {"SP", "LF", ","}
                /\ \A k \in inside.from .. m - 1 : msg[k] \notin {"SP", "LF", ","}
                => /\ n < Len(Cuts) /\ Cuts[n + 1] = m
                   /\ WordAt(n + 1) = Upto(inside, WithoutCR(inside, m))
                   /\ WordFrom(n + 2) = IF msg[m] = "SP" THEN m + 1
                                        ELSE PastSpace(m + 1, inside.to)
<1>1. /\ Separators \in SUBSET Nat /\ Enumerates(Cuts, Separators) /\ Len(Cuts) \in Nat
      /\ \A k \in 1 .. Len(Cuts) : Cuts[k] \in Separators /\ Cuts[k] \in Nat
  BY CutsInOrder
<1>2. /\ inside.from \in Nat /\ inside.to \in Nat /\ inside.from <= inside.to
      /\ n \in Nat /\ first \in Nat
  BY <1>1, SpanIs, InBuffer
<1> DEFINE c == Cuts[n]
<1>3. /\ n = 0 => inside.from = first
      /\ n > 0 =>
           /\ c \in Nat /\ c \in first .. inside.to - 1 /\ n \in 1 .. Len(Cuts)
           /\ inside.from = IF Mark(c) /\ c + 1 < inside.to /\ msg[c + 1] = "SP"
                            THEN c + 2 ELSE c + 1
  BY <1>1, <1>2 DEF WordFrom, Separators
<1> HIDE DEF c
<1>4. first <= inside.from
  BY <1>2, <1>3
<1>5. ASSUME NEW i \in Separators, ~(n > 0 /\ i <= c)
      PROVE  i \in inside.from .. inside.to - 1 /\ msg[i] \in {"SP", "LF", ","}
  <2>1. /\ i \in Nat /\ i \in first .. inside.to - 1
        /\ Mark(i) \/ (msg[i] = "SP" /\ ~(i > first /\ Mark(i - 1)))
    BY <1>1 DEF Separators, Separates
  <2>2. msg[i] \in {"SP", "LF", ","}
    BY <2>1 DEF Mark
  <2>3. inside.from <= i
    <3>1. SUFFICES ASSUME i < inside.from PROVE FALSE
      BY <1>2, <2>1
    <3>2. n > 0 /\ i = c + 1 /\ Mark(c) /\ msg[i] = "SP" /\ i > first /\ i - 1 = c
      BY <1>2, <1>3, <1>5, <2>1, <3>1
    <3>3. ~Mark(i)
      BY <3>2 DEF Mark
    <3> QED
      BY <2>1, <3>2, <3>3
  <2>4. i \in inside.from .. inside.to - 1
    BY <1>2, <2>1, <2>3
  <2> QED
    BY <2>2, <2>4, Zenon
<1>6. ASSUME \A k \in inside.from .. inside.to - 1 : msg[k] \notin {"SP", "LF", ","}
      PROVE  Len(Cuts) = n
  <2>1. \A i \in Separators : n > 0 /\ i <= Cuts[n]
    BY <1>5, <1>6 DEF c
  <2> QED
    BY <1>1, <2>1, LastInOrder
<1>7. ASSUME NEW m \in inside.from .. inside.to - 1, msg[m] \in {"SP", "LF", ","},
             \A k \in inside.from .. m - 1 : msg[k] \notin {"SP", "LF", ","}
      PROVE  /\ n < Len(Cuts) /\ Cuts[n + 1] = m
             /\ WordAt(n + 1) = Upto(inside, WithoutCR(inside, m))
             /\ WordFrom(n + 2) = IF msg[m] = "SP" THEN m + 1
                                  ELSE PastSpace(m + 1, inside.to)
  <2>1. m \in Nat /\ m \in first .. inside.to - 1 /\ (n > 0 => c < m)
    BY <1>2, <1>3, <1>4
  <2>2. Separates(m)
    <3>1. CASE msg[m] \in {"LF", ","}
      BY <3>1 DEF Separates, Mark
    <3>2. CASE msg[m] = "SP"
      <4>1. SUFFICES ASSUME m > first, Mark(m - 1) PROVE FALSE
        BY <3>2 DEF Separates
      <4>2. msg[m - 1] \in {"SP", "LF", ","} /\ msg[m - 1] # "SP"
        BY <4>1 DEF Mark
      <4>3. m = inside.from
        <5>1. m # inside.from => m - 1 \in inside.from .. m - 1
          BY <1>2, <2>1
        <5> QED
          BY <1>7, <4>2, <5>1
      <4>4. n > 0
        BY <1>2, <1>3, <4>1, <4>3
      <4>5. CASE m = c + 1
        <5>1. c = m - 1 /\ c + 1 < inside.to /\ c \in Nat
          BY <1>2, <1>3, <2>1, <4>4, <4>5
        <5>2. Mark(c) /\ msg[c + 1] = "SP"
          BY <3>2, <4>1, <4>5, <5>1
        <5>3. inside.from = c + 2
          BY <1>3, <4>4, <5>1, <5>2
        <5> QED
          BY <4>3, <4>5, <5>1, <5>3
      <4>6. CASE m # c + 1
        <5>1. inside.from = c + 2 /\ msg[c + 1] = "SP" /\ m - 1 = c + 1
          BY <1>2, <1>3, <4>3, <4>4, <4>6
        <5> QED
          BY <4>2, <5>1
      <4> QED
        BY <4>5, <4>6
    <3> QED
      BY <1>7, <3>1, <3>2
  <2>3. m \in Separators
    BY <2>1, <2>2 DEF Separators
  <2>4. \A i \in Separators : i < m => n > 0 /\ i <= c
    <3>1. TAKE i \in Separators
    <3>2. SUFFICES ASSUME i < m, ~(n > 0 /\ i <= c) PROVE FALSE
      OBVIOUS
    <3>3. i \in inside.from .. inside.to - 1 /\ msg[i] \in {"SP", "LF", ","}
      BY <1>5, <3>2
    <3>4. i \in inside.from .. m - 1
      <4>1. i \in inside.from .. inside.to - 1
        BY <3>3
      <4> QED
        BY <1>2, <2>1, <3>2, <4>1
    <3> QED
      BY <1>7, <3>3, <3>4
  <2>5. n < Len(Cuts) /\ Cuts[n + 1] = m
    <3>1. Follows(m, n, Cuts, Separators)
      BY <2>1, <2>3, <2>4 DEF Follows, c
    <3> QED
      BY <1>1, <3>1, NextInOrder
  <2>6. WordFrom(n + 2) = IF Mark(m) /\ m + 1 < inside.to /\ msg[m + 1] = "SP"
                          THEN m + 2 ELSE m + 1
    BY <1>2, <2>5 DEF WordFrom
  <2>7. WordFrom(n + 2) = IF msg[m] = "SP" THEN m + 1 ELSE PastSpace(m + 1, inside.to)
    <3>1. CASE msg[m] = "SP"
      BY <2>6, <3>1 DEF Mark
    <3>2. CASE msg[m] # "SP"
      <4>1. Mark(m)
        BY <1>7, <3>2 DEF Mark
      <4>2. PastSpace(m + 1, inside.to) =
                IF m + 1 < inside.to /\ msg[m + 1] = "SP" THEN m + 1 + 1 ELSE m + 1
        BY DEF PastSpace
      <4>3. m + 1 + 1 = m + 2
        BY <2>1
      <4> QED
        BY <2>6, <3>2, <4>1, <4>2, <4>3
    <3> QED
      BY <3>1, <3>2
  <2>8. WithoutCR(inside, m) = (IF m > inside.from /\ msg[m - 1] = "CR" THEN m - 1 ELSE m)
    BY DEF WithoutCR
  <2>9. Upto(inside, WithoutCR(inside, m)) = [from |-> inside.from, to |-> WithoutCR(inside, m)]
    <3>1. m \in inside.from .. inside.to
      BY <1>2, <2>1
    <3>2. WithoutCR(inside, m) \in inside.from .. inside.to
      BY <3>1, WithoutCRIs
    <3> QED
      BY <3>2, SpanIs
  <2>10. WordAt(n + 1) = [from |-> inside.from, to |-> WithoutCR(inside, m)]
    BY <2>5, <2>8 DEF WordAt
  <2> QED
    BY <2>5, <2>7, <2>9, <2>10
<1> QED
  BY <1>6, <1>7

-----------------------------------------------------------------------------
(* The invariant *)

IterTypes ==
    /\ headers \in Spans \cup {Nowhere} /\ inside \in Spans \cup {Nowhere}
    /\ lines \in Seq(Spans) /\ words \in Seq(Spans) /\ key \in Seq(Spans)
    /\ Len(key) <= 1 /\ first \in 0 .. End
    /\ read \in {"none", "OK", "SLICE_END"}

\* What is left of the headers begins behind the lines that were returned.
LinesInv ==
    headers # Nowhere =>
        /\ status = "OK" /\ headers.to = req.headers.to
        /\ Len(lines) <= Len(Ends) /\ headers.from = LineFrom(Len(lines) + 1)
        /\ \A n \in 1 .. Len(lines) : lines[n] = LineAt(n)
        /\ inside = Nowhere /\ read = "SLICE_END" => Len(lines) = Len(Ends)

KeyInv ==
    key # <<>> =>
        /\ \A i \in key[1].from .. key[1].to - 1 : msg[i] # ":"
        /\ msg[key[1].to] = ":"
        /\ first = key[1].to + (IF key[1].to + 1 < inside.to
                                   /\ msg[key[1].to + 1] = "SP" THEN 2 ELSE 1)

\* What is left inside begins behind the values that were returned.
WordsInv ==
    inside # Nowhere =>
        /\ first \in 1 .. End
        /\ Len(words) <= Len(Cuts)
        /\ read \in {"none", "OK"} => inside.from = WordFrom(Len(words) + 1)
        /\ \A n \in 1 .. Len(words) : words[n] = WordAt(n)
        /\ read = "SLICE_END" => Len(words) = Len(Cuts)
        /\ read = "none" => words = <<>> /\ key = <<>>
        /\ KeyInv

IterInv ==
    /\ IterTypes /\ LinesInv /\ WordsInv
    /\ headers = Nowhere => NotYet
    /\ inside = Nowhere => words = <<>> /\ key = <<>> /\ first = 0

\* What it says of the properties.
LEMMA IterInvIs ==
    ASSUME RqInv, IterInv
    PROVE  HeadersTypeOK /\ HeaderLines /\ HeaderWords
<1>1. msg \in Seq(Symbols) /\ End = Len(msg) + 1 /\ Len(msg) \in Nat
  BY InBuffer DEF RqInv, RqTypes
<1>2. HeadersTypeOK
  <2>1. TypeOK
    BY RqInvTypes
  <2>2. /\ IterTypes /\ lines \in Seq(Spans) /\ words \in Seq(Spans) /\ key \in Seq(Spans)
        /\ headers \in Spans \cup {Nowhere} /\ inside \in Spans \cup {Nowhere}
    BY DEF IterInv, IterTypes
  <2>3. lines \o words \o key \in Seq(Spans)
    BY <2>2
  <2>4. Range(lines \o words \o key) \subseteq Spans
    BY <2>3 DEF Range
  <2>5. \A s \in Spans \cup {Nowhere} :
            s.from \in 0 .. Len(msg) + 1 /\ s.to \in 0 .. Len(msg) + 1
    BY <1>1 DEF Spans, Nowhere
  <2>6. \A s \in {headers, inside} \cup Range(lines \o words \o key) :
            s.from \in 0 .. Len(msg) + 1 /\ s.to \in 0 .. Len(msg) + 1
    BY <2>2, <2>4, <2>5
  <2>7. Len(key) <= 1 /\ first \in 0 .. Len(msg) + 1
        /\ read \in {"none", "OK", "SLICE_END", "NEWLINE_EXPECTED"}
    BY <1>1, <2>2 DEF IterTypes
  <2> QED
    BY <2>1, <2>6, <2>7 DEF HeadersTypeOK
<1>3. HeaderLines
  <2>1. SUFFICES ASSUME headers # Nowhere
                 PROVE  /\ Len(lines) <= Len(Ends)
                        /\ lines = [n \in 1 .. Len(lines) |-> LineAt(n)]
                        /\ read # "NEWLINE_EXPECTED"
                        /\ inside = Nowhere /\ read = "SLICE_END" => Len(lines) = Len(Ends)
    BY DEF HeaderLines, Ends, Newlines, LineAt, LineFrom
  <2>2. lines = [n \in 1 .. Len(lines) |-> lines[n]]
    BY DEF IterInv, IterTypes
  <2> QED
    BY <2>1, <2>2 DEF IterInv, IterTypes, LinesInv
<1>4. HeaderWords
  <2>1. SUFFICES ASSUME inside # Nowhere
                 PROVE  /\ Len(words) <= Len(Cuts)
                        /\ words = [n \in 1 .. Len(words) |-> WordAt(n)]
                        /\ read = "SLICE_END" => Len(words) = Len(Cuts)
                        /\ KeyInv
    BY DEF HeaderWords, Cuts, Separators, Separates, Mark, WordAt, WordFrom, KeyInv
  <2>2. words = [n \in 1 .. Len(words) |-> words[n]]
    BY DEF IterInv, IterTypes
  <2> QED
    BY <2>1, <2>2 DEF IterInv, WordsInv
<1> QED
  BY <1>2, <1>3, <1>4

\* Before the program has a request there is nothing to say.
LEMMA NotYetIs == NotYet => IterInv
<1> SUFFICES ASSUME NotYet PROVE IterInv
  OBVIOUS
<1>1. /\ headers = Nowhere /\ inside = Nowhere /\ first = 0
      /\ lines = <<>> /\ key = <<>> /\ words = <<>> /\ read = "none"
  BY DEF NotYet
<1>2. 0 \in 0 .. End
  BY DEF End
<1> QED
  BY <1>1, <1>2 DEF IterInv, IterTypes, LinesInv, WordsInv, NotYet

-----------------------------------------------------------------------------
(* The steps *)

\* As long as the message and the request stay, so does where the lines are;
LEMMA SameLines ==
    ASSUME UNCHANGED vars
    PROVE  /\ End' = End /\ Spans' = Spans /\ Ends' = Ends
           /\ \A n : LineFrom(n)' = LineFrom(n) /\ LineAt(n)' = LineAt(n)
<1>1. msg' = msg /\ req' = req
  BY DEF vars
<1>2. End' = End /\ Spans' = Spans
  BY <1>1 DEF End, Spans
<1>3. Ends' = Ends
  BY <1>1 DEF Ends, Newlines, InOrder
<1>4. \A n : LineFrom(n)' = LineFrom(n)
  BY <1>1, <1>3 DEF LineFrom
<1>5. \A n : LineAt(n)' = LineAt(n)
  BY <1>1, <1>3, <1>4 DEF LineAt
<1> QED
  BY <1>2, <1>3, <1>4, <1>5

\* and where the values are, if the program goes on where it was.
LEMMA SameWords ==
    ASSUME UNCHANGED vars, first' = first, inside'.to = inside.to
    PROVE  /\ Cuts' = Cuts
           /\ \A n : WordFrom(n)' = WordFrom(n) /\ WordAt(n)' = WordAt(n)
<1>1. msg' = msg
  BY DEF vars
<1>2. Cuts' = Cuts
  BY <1>1 DEF Cuts, Separators, Separates, Mark, InOrder
<1>3. \A n : WordFrom(n)' = WordFrom(n)
  BY <1>1, <1>2 DEF WordFrom, Mark
<1>4. \A n : WordAt(n)' = WordAt(n)
  BY <1>1, <1>2, <1>3 DEF WordAt
<1> QED
  BY <1>2, <1>3, <1>4

\* A program that is not in the headers yet has an accepted request to take.
LEMMA TakeStep == ASSUME RqInv, IterInv, TakeHeaders PROVE IterInv'
<1>1. /\ status = "OK" /\ headers = Nowhere /\ headers' = req.headers
      /\ UNCHANGED vars /\ UNCHANGED <<lines, inside, key, words, first, read>>
  BY DEF TakeHeaders
<1>2. /\ NotYet /\ lines = <<>> /\ inside = Nowhere /\ words = <<>> /\ key = <<>>
      /\ first = 0 /\ read = "none"
  BY <1>1 DEF IterInv, NotYet
<1>3. End = Len(msg) + 1 /\ Len(msg) \in Nat /\ msg \in Seq(Symbols) /\ HeadersPlaced
  BY InBuffer DEF RqInv, RqTypes
<1>4. headers' \in Spans /\ headers' # Nowhere
  <2>1. /\ req.headers.from \in 1 .. Len(msg)
        /\ req.headers.to \in req.headers.from + 1 .. Len(msg)
    BY <1>1, <1>3 DEF HeadersPlaced
  <2>2. req.headers \in Places
    BY DEF RqInv, RqTypes, Requests
  <2>3. req.headers = [from |-> req.headers.from, to |-> req.headers.to]
    BY <2>2 DEF Places
  <2>4. req.headers.from \in 1 .. End /\ req.headers.to \in 1 .. End
        /\ req.headers.from <= req.headers.to
    BY <1>3, <2>1
  <2>5. req.headers \in Spans
    BY <2>3, <2>4 DEF Spans
  <2> QED
    BY <1>1, <1>3, <2>1, <2>5 DEF Nowhere
<1>5. Spans' = Spans /\ End' = End /\ Ends' = Ends /\ \A n : LineFrom(n)' = LineFrom(n)
  BY <1>1, SameLines
<1>6. 0 <= Len(Ends)
  BY <1>1, <1>3, EndsInOrder
<1>7. LinesInv'
  <2>1. Len(lines) = 0 /\ LineFrom(1) = req.headers.from
    BY <1>2 DEF LineFrom
  <2>2. Len(lines)' = 0 /\ LineFrom(1)' = headers'.from
    BY <1>1, <1>5, <2>1
  <2> QED
    BY <1>1, <1>2, <1>5, <1>6, <2>2 DEF LinesInv, vars
<1>8. IterTypes'
  BY <1>1, <1>2, <1>4, <1>5 DEF IterInv, IterTypes
<1> QED
  BY <1>1, <1>2, <1>4, <1>7, <1>8 DEF IterInv, WordsInv

\* shttp_header_next returns the next line, or SLICE_END behind the last one.
LEMMA NextLineStep == ASSUME RqInv, IterInv, NextLine PROVE IterInv'
<1> DEFINE r == HeaderNext(headers)
           n == Len(lines)
<1>1. /\ headers # Nowhere /\ inside = Nowhere /\ headers' = r.s
      /\ lines' = (IF r.status = "OK" THEN Append(lines, r.out) ELSE lines)
      /\ read' = r.status
      /\ UNCHANGED vars /\ UNCHANGED <<inside, key, words, first>>
  BY DEF NextLine
<1>2. msg \in Seq(Symbols) /\ HeadersPlaced /\ IterTypes /\ LinesInv
  BY DEF RqInv, RqTypes, IterInv
<1>3. /\ headers \in Spans /\ status = "OK" /\ headers.to = req.headers.to
      /\ lines \in Seq(Spans) /\ n \in 0 .. Len(Ends) /\ headers.from = LineFrom(n + 1)
      /\ \A k \in 1 .. n : lines[k] = LineAt(k)
  BY <1>1, <1>2, EndsInOrder DEF IterTypes, LinesInv
<1>4. /\ Spans' = Spans /\ End' = End /\ Ends' = Ends
      /\ \A k : LineFrom(k)' = LineFrom(k) /\ LineAt(k)' = LineAt(k)
  BY <1>1, SameLines
<1>5. /\ headers.from \in Nat /\ headers.to \in Nat /\ headers.from >= 1
      /\ headers.from <= headers.to
      /\ \A i \in headers.from .. headers.to : At(headers, i) \in Spans
           /\ At(headers, i).from = i /\ At(headers, i).to = headers.to
           /\ Upto(headers, i) \in Spans
  BY <1>2, <1>3, SpanIs
<1>6. msg[headers.to - 1] = "LF"
  BY <1>2, <1>3 DEF HeadersPlaced
<1>7. /\ headers' \in Spans /\ headers' # Nowhere /\ headers'.to = req'.headers.to
      /\ lines' \in Seq(Spans) /\ Len(lines') <= Len(Ends)
      /\ headers'.from = LineFrom(Len(lines') + 1)
      /\ \A k \in 1 .. Len(lines') : lines'[k] = LineAt(k)
      /\ read' \in {"OK", "SLICE_END"}
      /\ read' = "SLICE_END" => Len(lines') = Len(Ends)
  <2>0. req' = req /\ \A i \in 1 .. headers.to : At(headers, i) # Nowhere
    BY <1>1, <1>5 DEF vars, At, Nowhere
  <2>1. CASE headers.from = headers.to
    <3>1. r = Ended(headers)
      BY <1>2, <1>3, <2>1, HeaderNextIs
    <3>2. headers' = At(headers, headers.to) /\ lines' = lines /\ read' = "SLICE_END"
      BY <1>1, <3>1 DEF Ended
    <3>3. headers.to \in headers.from .. headers.to /\ headers.to \in 1 .. headers.to
      BY <1>5, <2>1
    <3>4. Len(Ends) = n
      BY <1>2, <1>3, <2>1, LineAdvances
    <3>5. /\ headers' \in Spans /\ headers'.from = headers.to /\ headers'.to = headers.to
          /\ headers' # Nowhere
      BY <1>5, <2>0, <3>2, <3>3
    <3> QED
      BY <1>3, <2>0, <2>1, <3>2, <3>4, <3>5
  <2>2. CASE headers.from # headers.to
    <3>1. PICK lf \in headers.from .. headers.to - 1 :
            /\ msg[lf] = "LF" /\ \A k \in headers.from .. lf - 1 : msg[k] # "LF"
            /\ r = [s |-> At(headers, lf + 1), out |-> Upto(headers, WithoutCR(headers, lf)),
                    status |-> "OK"]
      BY <1>2, <1>3, <1>6, <2>2, HeaderNextIs
    <3>2. /\ n < Len(Ends) /\ LineAt(n + 1) = Upto(headers, WithoutCR(headers, lf))
          /\ LineFrom(n + 2) = lf + 1
      BY <1>2, <1>3, <3>1, LineAdvances
    <3>3. /\ headers' = At(headers, lf + 1) /\ lines' = Append(lines, LineAt(n + 1))
          /\ read' = "OK"
      BY <1>1, <3>1, <3>2
    <3>4. /\ lf \in headers.from .. headers.to /\ lf + 1 \in headers.from .. headers.to
          /\ lf + 1 \in 1 .. headers.to
      BY <1>5, <3>1
    <3>5. LineAt(n + 1) \in Spans
      <4>1. WithoutCR(headers, lf) \in headers.from .. headers.to
        BY <1>2, <1>3, <3>4, WithoutCRIs
      <4> QED
        BY <1>5, <3>2, <4>1
    <3>6. /\ headers' \in Spans /\ headers'.from = lf + 1 /\ headers'.to = headers.to
          /\ headers' # Nowhere
      BY <1>5, <2>0, <3>3, <3>4
    <3>7. /\ lines' \in Seq(Spans) /\ Len(lines') = n + 1 /\ Len(lines') + 1 = n + 2
          /\ \A k \in 1 .. n + 1 : lines'[k] = IF k = n + 1 THEN LineAt(n + 1) ELSE lines[k]
      <4>1. n \in Nat
        BY <1>3
      <4> HIDE DEF n
      <4>2. n = Len(lines)
        BY DEF n
      <4> QED
        BY <1>3, <3>3, <3>5, <4>1, <4>2
    <3>8. ASSUME NEW k \in 1 .. n + 1 PROVE lines'[k] = LineAt(k)
      <4>1. k \in 1 .. n \/ k = n + 1
        BY <1>3
      <4> QED
        BY <1>3, <3>7, <4>1
    <3>9. Len(lines') <= Len(Ends)
      BY <1>2, <1>3, <3>2, <3>7, EndsInOrder
    <3> QED
      BY <1>3, <2>0, <3>2, <3>3, <3>6, <3>7, <3>8, <3>9
  <2> QED
    BY <2>1, <2>2
<1> HIDE DEF r, n
<1>8. LinesInv'
  BY <1>1, <1>3, <1>4, <1>7 DEF LinesInv, vars
<1>9. IterTypes'
  BY <1>1, <1>2, <1>4, <1>7 DEF IterTypes
<1> QED
  BY <1>1, <1>7, <1>8, <1>9 DEF IterInv, WordsInv

\* Inside of a line, or of what is left, nothing has been read yet.
LEMMA LookInsideStep == ASSUME RqInv, IterInv, LookInside PROVE IterInv'
<1>1. /\ headers # Nowhere /\ inside = Nowhere
      /\ \/ lines # <<>> /\ inside' = Last(lines)
         \/ inside' = headers
      /\ read' = "none" /\ first' = inside'.from
      /\ UNCHANGED vars /\ UNCHANGED <<headers, lines, key, words>>
  BY DEF LookInside
<1>2. msg \in Seq(Symbols) /\ IterTypes /\ LinesInv /\ words = <<>> /\ key = <<>>
  BY <1>1 DEF RqInv, RqTypes, IterInv
<1>3. inside' \in Spans
  BY <1>1, <1>2 DEF IterTypes, Last
<1>4. /\ Spans' = Spans /\ End' = End /\ Ends' = Ends
      /\ \A k : LineFrom(k)' = LineFrom(k) /\ LineAt(k)' = LineAt(k)
  BY <1>1, SameLines
<1>5. first' \in 1 .. End /\ first' \in 0 .. End /\ inside' # Nowhere
  <2>1. inside'.from \in 1 .. End
    BY <1>2, <1>3, SpanIs
  <2> QED
    BY <1>1, <2>1, <1>2, InBuffer DEF Nowhere
<1>6. LinesInv'
  BY <1>1, <1>2, <1>4, <1>5 DEF LinesInv, vars
<1>7. WordsInv'
  <2>1. Len(Cuts') \in Nat
    <3>1. (msg \in Seq(Symbols) /\ inside \in Spans /\ first \in 1 .. End => Len(Cuts) \in Nat)'
      BY CutsInOrder, PTL
    <3> QED
      BY <1>1, <1>2, <1>3, <1>4, <1>5, <3>1 DEF vars
  <2>2. words' = <<>> /\ key' = <<>> /\ Len(words') = 0 /\ Len(words') + 1 = 1
    BY <1>1, <1>2
  <2>3. WordFrom(1)' = first'
    BY DEF WordFrom
  <2> QED
    BY <1>1, <1>4, <1>5, <2>1, <2>2, <2>3 DEF WordsInv, KeyInv
<1>8. IterTypes'
  BY <1>1, <1>2, <1>3, <1>4, <1>5 DEF IterTypes
<1> QED
  BY <1>1, <1>5, <1>6, <1>7, <1>8 DEF IterInv

\* shttp_header_key begins the values behind the key, or at the end.
LEMMA ReadKeyStep == ASSUME RqInv, IterInv, ReadKey PROVE IterInv'
<1> DEFINE r == HeaderKey(inside)
<1>1. /\ inside # Nowhere /\ read = "none" /\ inside' = r.s /\ first' = r.s.from
      /\ key' = (IF r.out = Nowhere THEN key ELSE <<r.out>>) /\ read' = r.status
      /\ UNCHANGED vars /\ UNCHANGED <<headers, lines, words>>
  BY DEF ReadKey
<1>2. msg \in Seq(Symbols) /\ IterTypes /\ LinesInv /\ WordsInv /\ inside \in Spans
      /\ words = <<>> /\ key = <<>>
  BY <1>1 DEF RqInv, RqTypes, IterInv, IterTypes, WordsInv
<1>3. /\ Spans' = Spans /\ End' = End /\ Ends' = Ends
      /\ \A k : LineFrom(k)' = LineFrom(k) /\ LineAt(k)' = LineAt(k)
  BY <1>1, SameLines
<1>4. /\ inside.from \in Nat /\ inside.to \in Nat /\ inside.from <= inside.to
      /\ inside.from \in 1 .. End /\ inside.to \in 1 .. End /\ End \in Nat
  BY <1>2, SpanIs, InBuffer
<1>5. \A i \in inside.from .. inside.to :
           At(inside, i) \in Spans /\ At(inside, i).from = i /\ At(inside, i).to = inside.to
           /\ Upto(inside, i) \in Spans /\ Upto(inside, i) = [from |-> inside.from, to |-> i]
  BY <1>2, SpanIs
<1>6. /\ inside' \in Spans /\ inside'.to = inside.to /\ inside'.from = first'
      /\ first' \in 1 .. End /\ inside' # Nowhere
      /\ key' \in Seq(Spans) /\ Len(key') <= 1 /\ KeyInv'
      /\ read' \in {"OK", "SLICE_END"}
      /\ read' = "SLICE_END" => first' = inside'.to
  <2>0. \/ r = Ended(inside)
        \/ \E colon \in inside.from .. inside.to - 1 :
             /\ msg[colon] = ":" /\ \A k \in inside.from .. colon - 1 : msg[k] # ":"
             /\ r = [s |-> At(inside, PastSpace(colon + 1, inside.to)),
                     out |-> Upto(inside, colon),
                     status |-> IF colon + 1 = inside.to THEN "SLICE_END" ELSE "OK"]
    BY <1>2, HeaderKeyIs
  <2> HIDE DEF r
  <2>1. CASE r = Ended(inside)
    <3>1. /\ inside' = At(inside, inside.to) /\ first' = inside'.from
          /\ r.out = Nowhere /\ read' = "SLICE_END"
      BY <1>1, <2>1 DEF Ended
    <3>2. key' = <<>>
      BY <1>1, <1>2, <3>1
    <3>3. inside.to \in inside.from .. inside.to
      BY <1>4
    <3>4. inside' \in Spans /\ inside'.from = inside.to /\ inside'.to = inside.to
      BY <1>5, <3>1, <3>3
    <3>5. inside' # Nowhere
      BY <1>4, <3>4 DEF Nowhere
    <3>6. KeyInv'
      BY <3>2 DEF KeyInv
    <3> QED
      BY <1>4, <3>1, <3>2, <3>4, <3>5, <3>6
  <2>2. CASE r # Ended(inside)
    <3>0. PICK colon \in inside.from .. inside.to - 1 :
             /\ msg[colon] = ":" /\ \A k \in inside.from .. colon - 1 : msg[k] # ":"
             /\ r = [s |-> At(inside, PastSpace(colon + 1, inside.to)),
                     out |-> Upto(inside, colon),
                     status |-> IF colon + 1 = inside.to THEN "SLICE_END" ELSE "OK"]
      BY <2>0, <2>2
    <3> DEFINE past == PastSpace(colon + 1, inside.to)
               out == Upto(inside, colon)
    <3>1. /\ inside' = At(inside, past) /\ first' = inside'.from
          /\ key' = (IF out = Nowhere THEN key ELSE <<out>>)
          /\ read' = (IF colon + 1 = inside.to THEN "SLICE_END" ELSE "OK")
      BY <1>1, <3>0
    <3>2. /\ past \in colon + 1 .. inside.to
          /\ past = colon + 1 + (IF colon + 1 < inside.to /\ msg[colon + 1] = "SP"
                                 THEN 1 ELSE 0)
      <4>1. colon + 1 \in Nat /\ colon + 1 <= inside.to
        BY <1>4
      <4>2. past \in colon + 1 .. inside.to
        BY <1>4, <4>1, PastSpaceIs
      <4> QED
        BY <4>1, <4>2 DEF PastSpace
    <3> HIDE DEF past, out
    <3>3. past \in inside.from .. inside.to /\ colon \in inside.from .. inside.to
      BY <1>4, <3>2
    <3>4. inside' \in Spans /\ inside'.from = past /\ inside'.to = inside.to /\ first' = past
      BY <1>5, <3>1, <3>3
    <3>5. out \in Spans /\ out = [from |-> inside.from, to |-> colon]
      BY <1>5, <3>3 DEF out
    <3>6. key' = <<out>> /\ key'[1].from = inside.from /\ key'[1].to = colon
      <4>1. out.from # 0 /\ out.from = inside.from /\ out.to = colon
        BY <1>4, <3>5
      <4> QED
        BY <3>1, <4>1 DEF Nowhere
    <3>7. first' = colon + (IF colon + 1 < inside.to /\ msg[colon + 1] = "SP" THEN 2 ELSE 1)
      <4>1. colon \in Nat
        BY <1>4
      <4> QED
        BY <3>2, <3>4, <4>1
    <3>8. KeyInv'
      BY <1>1, <3>0, <3>4, <3>6, <3>7 DEF KeyInv, vars
    <3>9. first' \in 1 .. End /\ inside' # Nowhere
      <4>1. past \in 1 .. End /\ past # 0
        BY <1>4, <3>2
      <4> QED
        BY <3>4, <4>1 DEF Nowhere
    <3>10. key' \in Seq(Spans) /\ Len(key') <= 1
      BY <3>5, <3>6
    <3>11. read' = "SLICE_END" => first' = inside'.to
      <4>1. colon + 1 = inside.to => past = inside.to
        BY <1>4, <3>2
      <4> QED
        BY <3>1, <3>4, <4>1
    <3> QED
      BY <3>1, <3>4, <3>8, <3>9, <3>10, <3>11
  <2> QED
    BY <2>1, <2>2
<1> HIDE DEF r
<1>7. Len(Cuts') \in Nat /\ (read' = "SLICE_END" => Len(Cuts') = 0)
  <2>1. (msg \in Seq(Symbols) /\ inside \in Spans /\ first \in 1 .. End
           => /\ Separators \in SUBSET Nat /\ Enumerates(Cuts, Separators)
              /\ Len(Cuts) \in Nat)'
    BY CutsInOrder, PTL
  <2>2. /\ Separators' \in SUBSET Nat /\ Enumerates(Cuts', Separators')
        /\ Len(Cuts') \in Nat
    BY <1>1, <1>2, <1>3, <1>6, <2>1 DEF vars, Enumerates
  <2>3. ASSUME read' = "SLICE_END" PROVE Separators' = {}
    <3>1. first' = inside'.to /\ first' \in Nat
      BY <1>4, <1>6, <2>3
    <3> QED
      BY <3>1 DEF Separators
  <2>4. ASSUME Separators' = {} PROVE Len(Cuts') = 0
    <3>1. Len(Cuts') = 0 \/ 1 \in 1 .. Len(Cuts')
      BY <2>2
    <3>2. \A k \in 1 .. Len(Cuts') : Cuts'[k] \in Separators'
      BY <2>2 DEF Enumerates
    <3> QED
      BY <2>4, <3>1, <3>2
  <2> QED
    BY <2>2, <2>3, <2>4
<1>8. LinesInv'
  BY <1>1, <1>2, <1>3, <1>6 DEF LinesInv, vars
<1>9. WordsInv'
  <2>1. words' = <<>> /\ Len(words') = 0 /\ Len(words') + 1 = 1
    BY <1>1, <1>2
  <2>2. WordFrom(1)' = first'
    BY DEF WordFrom
  <2> QED
    BY <1>3, <1>6, <1>7, <2>1, <2>2 DEF WordsInv
<1>10. IterTypes'
  <2>1. first' \in 0 .. End
    BY <1>4, <1>6
  <2> QED
    BY <1>1, <1>2, <1>3, <1>6, <2>1 DEF IterTypes
<1>11. headers' # Nowhere
  BY <1>1 DEF IterInv, NotYet
<1> QED
  BY <1>6, <1>8, <1>9, <1>10, <1>11 DEF IterInv

\* shttp_header_value returns what lies before the next separator.
LEMMA ReadValueStep == ASSUME RqInv, IterInv, ReadValue PROVE IterInv'
<1> DEFINE r == HeaderValue(inside)
           n == Len(words)
<1>1. /\ inside # Nowhere /\ inside' = r.s
      /\ words' = (IF r.status = "OK" THEN Append(words, r.out) ELSE words)
      /\ read' = r.status
      /\ UNCHANGED vars /\ UNCHANGED <<headers, lines, key, first>>
  BY DEF ReadValue
<1>2. /\ msg \in Seq(Symbols) /\ IterTypes /\ LinesInv /\ WordsInv /\ inside \in Spans
      /\ first \in 1 .. End /\ words \in Seq(Spans)
  BY <1>1 DEF RqInv, RqTypes, IterInv, IterTypes, WordsInv
<1>3. /\ n \in 0 .. Len(Cuts) /\ inside.from = WordFrom(n + 1)
      /\ \A k \in 1 .. n : words[k] = WordAt(k)
      /\ Len(Cuts) \in Nat
  BY <1>1, <1>2, CutsInOrder DEF WordsInv, ReadValue
<1>4. /\ Spans' = Spans /\ End' = End /\ Ends' = Ends
      /\ \A k : LineFrom(k)' = LineFrom(k) /\ LineAt(k)' = LineAt(k)
  BY <1>1, SameLines
<1>5. /\ inside.from \in Nat /\ inside.to \in Nat /\ inside.from <= inside.to
      /\ inside.from \in 1 .. End /\ inside.to \in 1 .. End /\ End \in Nat
  BY <1>2, SpanIs, InBuffer
<1>6. \A i \in inside.from .. inside.to :
           At(inside, i) \in Spans /\ At(inside, i).from = i /\ At(inside, i).to = inside.to
           /\ Upto(inside, i) \in Spans
  BY <1>2, SpanIs
<1>7. /\ inside' \in Spans /\ inside'.to = inside.to
      /\ words' \in Seq(Spans) /\ Len(words') <= Len(Cuts)
      /\ \A k \in 1 .. Len(words') : words'[k] = WordAt(k)
      /\ \/ read' = "SLICE_END" /\ Len(words') = Len(Cuts) /\ inside'.from = inside.to
         \/ read' = "OK" /\ inside'.from = WordFrom(Len(words') + 1)
  <2>0. \/ /\ r = Ended(inside)
           /\ \A k \in inside.from .. inside.to - 1 : msg[k] \notin {"SP", "LF", ","}
        \/ \E mark \in inside.from .. inside.to - 1 :
             /\ msg[mark] \in {"SP", "LF", ","}
             /\ \A k \in inside.from .. mark - 1 : msg[k] \notin {"SP", "LF", ","}
             /\ r = [s |-> At(inside, IF msg[mark] = "SP" THEN mark + 1
                                      ELSE PastSpace(mark + 1, inside.to)),
                     out |-> Upto(inside, WithoutCR(inside, mark)), status |-> "OK"]
    BY <1>2, HeaderValueIs
  <2> HIDE DEF r
  <2>1. CASE /\ r = Ended(inside)
             /\ \A k \in inside.from .. inside.to - 1 : msg[k] \notin {"SP", "LF", ","}
    <3>1. inside' = At(inside, inside.to) /\ words' = words /\ read' = "SLICE_END"
      BY <1>1, <2>1 DEF Ended
    <3>2. Len(Cuts) = n
      BY <1>2, <1>3, <2>1, WordAdvances
    <3>3. inside.to \in inside.from .. inside.to
      BY <1>5
    <3>4. inside' \in Spans /\ inside'.from = inside.to /\ inside'.to = inside.to
      BY <1>6, <3>1, <3>3
    <3> QED
      BY <1>2, <1>3, <3>1, <3>2, <3>4
  <2>2. CASE ~(/\ r = Ended(inside)
               /\ \A k \in inside.from .. inside.to - 1 : msg[k] \notin {"SP", "LF", ","})
    <3>0. PICK mark \in inside.from .. inside.to - 1 :
             /\ msg[mark] \in {"SP", "LF", ","}
             /\ \A k \in inside.from .. mark - 1 : msg[k] \notin {"SP", "LF", ","}
             /\ r = [s |-> At(inside, IF msg[mark] = "SP" THEN mark + 1
                                      ELSE PastSpace(mark + 1, inside.to)),
                     out |-> Upto(inside, WithoutCR(inside, mark)), status |-> "OK"]
      BY <2>0, <2>2
    <3>1. /\ n < Len(Cuts) /\ WordAt(n + 1) = Upto(inside, WithoutCR(inside, mark))
          /\ WordFrom(n + 2) = IF msg[mark] = "SP" THEN mark + 1
                               ELSE PastSpace(mark + 1, inside.to)
      BY <1>2, <1>3, <3>0, WordAdvances
    <3>2. /\ inside' = At(inside, WordFrom(n + 2)) /\ words' = Append(words, WordAt(n + 1))
          /\ read' = "OK"
      BY <1>1, <3>0, <3>1
    <3>3. WordFrom(n + 2) \in inside.from .. inside.to /\ mark \in inside.from .. inside.to
      <4>1. mark + 1 \in Nat /\ mark + 1 <= inside.to /\ mark + 1 \in inside.from .. inside.to
        BY <1>5
      <4>2. PastSpace(mark + 1, inside.to) \in mark + 1 .. inside.to
        BY <1>5, <4>1, PastSpaceIs
      <4>3. PastSpace(mark + 1, inside.to) \in inside.from .. inside.to
        BY <1>5, <4>1, <4>2
      <4>4. mark \in inside.from .. inside.to
        BY <1>5
      <4> QED
        BY <3>1, <4>1, <4>3, <4>4
    <3>4. WordAt(n + 1) \in Spans
      <4>1. WithoutCR(inside, mark) \in inside.from .. inside.to
        BY <1>2, <3>3, WithoutCRIs
      <4> QED
        BY <1>6, <3>1, <4>1
    <3>5. /\ inside' \in Spans /\ inside'.from = WordFrom(n + 2) /\ inside'.to = inside.to
      BY <1>6, <3>2, <3>3
    <3>6. /\ words' \in Seq(Spans) /\ Len(words') = n + 1 /\ Len(words') + 1 = n + 2
          /\ \A k \in 1 .. n + 1 : words'[k] = IF k = n + 1 THEN WordAt(n + 1) ELSE words[k]
      <4>1. n \in Nat
        BY <1>3
      <4> HIDE DEF n
      <4>2. n = Len(words)
        BY DEF n
      <4> QED
        BY <1>2, <3>2, <3>4, <4>1, <4>2
    <3>7. ASSUME NEW k \in 1 .. n + 1 PROVE words'[k] = WordAt(k)
      <4>1. k \in 1 .. n \/ k = n + 1
        BY <1>3
      <4> QED
        BY <1>3, <3>6, <4>1
    <3>8. Len(words') <= Len(Cuts)
      BY <1>3, <3>1, <3>6
    <3> QED
      BY <3>2, <3>5, <3>6, <3>7, <3>8
  <2> QED
    BY <2>1, <2>2
<1> HIDE DEF r, n
<1>8. Cuts' = Cuts /\ \A k : WordFrom(k)' = WordFrom(k) /\ WordAt(k)' = WordAt(k)
  BY <1>1, <1>7, SameWords
<1>9. KeyInv'
  <2>1. key' = key /\ first' = first /\ msg' = msg /\ inside'.to = inside.to
    BY <1>1, <1>7 DEF vars
  <2> QED
    BY <1>1, <1>2, <2>1 DEF WordsInv, KeyInv
<1>10. inside' # Nowhere
  <2>1. inside'.from # 0
    BY <1>4, <1>5, <1>7 DEF Spans
  <2> QED
    BY <2>1 DEF Nowhere
<1>11. LinesInv'
  BY <1>1, <1>2, <1>4, <1>10 DEF LinesInv, vars
<1>12. WordsInv'
  BY <1>1, <1>2, <1>4, <1>7, <1>8, <1>9 DEF WordsInv
<1>13. IterTypes'
  BY <1>1, <1>2, <1>4, <1>7 DEF IterTypes
<1>14. headers' # Nowhere
  BY <1>1 DEF IterInv, NotYet
<1> QED
  BY <1>10, <1>11, <1>12, <1>13, <1>14 DEF IterInv

\* Outside again, the lines are as they were.
LEMMA LookOutsideStep == ASSUME RqInv, IterInv, LookOutside PROVE IterInv'
<1>1. /\ inside # Nowhere /\ inside' = Nowhere /\ first' = 0 /\ key' = <<>> /\ words' = <<>>
      /\ read' = "OK" /\ UNCHANGED vars /\ UNCHANGED <<headers, lines>>
  BY DEF LookOutside
<1>2. msg \in Seq(Symbols) /\ IterTypes /\ LinesInv
  BY DEF RqInv, RqTypes, IterInv
<1>3. /\ Spans' = Spans /\ End' = End /\ Ends' = Ends
      /\ \A k : LineFrom(k)' = LineFrom(k) /\ LineAt(k)' = LineAt(k)
  BY <1>1, SameLines
<1>4. headers' # Nowhere
  BY <1>1 DEF IterInv, NotYet
<1>5. LinesInv'
  BY <1>1, <1>2, <1>3 DEF LinesInv, vars
<1>6. IterTypes'
  BY <1>1, <1>2, <1>3, InBuffer DEF IterTypes
<1> QED
  BY <1>1, <1>4, <1>5, <1>6 DEF IterInv, WordsInv

\* If nothing that is looked at changes, nothing does.
LEMMA StutterStep == ASSUME IterInv, UNCHANGED headersVars PROVE IterInv'
<1>1. UNCHANGED vars /\ UNCHANGED iteration
  BY DEF headersVars
<1>2. UNCHANGED <<headers, lines, inside, key, words, first, read>>
  BY <1>1 DEF iteration
<1>3. /\ Spans' = Spans /\ End' = End /\ Ends' = Ends
      /\ \A k : LineFrom(k)' = LineFrom(k) /\ LineAt(k)' = LineAt(k)
  BY <1>1, SameLines
<1>4. Cuts' = Cuts /\ \A k : WordFrom(k)' = WordFrom(k) /\ WordAt(k)' = WordAt(k)
  BY <1>1, <1>2, SameWords
<1>5. IterTypes'
  BY <1>2, <1>3 DEF IterInv, IterTypes
<1>6. LinesInv'
  BY <1>1, <1>2, <1>3 DEF IterInv, LinesInv, vars
<1>7. KeyInv' <=> KeyInv
  BY <1>1, <1>2 DEF KeyInv, vars
<1>8. WordsInv'
  BY <1>2, <1>3, <1>4, <1>7 DEF IterInv, WordsInv
<1> QED
  BY <1>2, <1>5, <1>6, <1>8 DEF IterInv, NotYet

\* The first half of the program's steps: there is no request to take.
LEMMA BetweenStep ==
    ASSUME RqInv, IterInv,
           \/ msg = <<>> /\ (\E m \in Messages : Receive(m)) /\ UNCHANGED iteration
           \/ MsgRequest /\ UNCHANGED iteration
           \/ ReuseAll
    PROVE  IterInv'
<1>1. NotYet'
  <2>1. CASE ReuseAll
    BY <2>1 DEF ReuseAll, NotYet
  <2>2. CASE status # "OK" /\ UNCHANGED iteration
    <3>1. headers = Nowhere
      BY <2>2 DEF IterInv, LinesInv
    <3> QED
      BY <2>2, <3>1 DEF IterInv, NotYet, iteration
  <2>3. ASSUME \E m \in Messages : Receive(m), msg = <<>>
        PROVE  status # "OK"
    BY <2>3 DEF RqInv, HeadersPlaced
  <2>4. MsgRequest => status # "OK"
    BY DEF MsgRequest
  <2> QED
    BY <2>1, <2>2, <2>3, <2>4
<1>2. (NotYet => IterInv)'
  BY NotYetIs, PTL
<1> QED
  BY <1>1, <1>2

LEMMA IterStep == ASSUME RqInv, IterInv, HeadersNext PROVE IterInv'
BY BetweenStep, TakeStep, NextLineStep, LookInsideStep, ReadKeyStep, ReadValueStep,
   LookOutsideStep DEF HeadersNext

\* A program that goes through headers is one that gets requests, or it writes.
LEMMA ReadingIsIterating ==
    /\ MessagesInit => IterInv
    /\ RqInv /\ IterInv /\ [Reads \/ Writes]_<<headersVars, writing, direction>> => IterInv'
<1>1. MessagesInit => IterInv
  BY NotYetIs DEF MessagesInit, HeadersInit
<1>2. RqInv /\ IterInv /\ [Reads \/ Writes]_<<headersVars, writing, direction>> => IterInv'
  BY IterStep, StutterStep DEF Reads, Writes
<1> QED
  BY <1>1, <1>2

LEMMA InvAlways == MessagesSpec => [](RqInv /\ IterInv)
<1>1. MessagesSpec => []RqInv
  BY ReadingIsParsing, RqInvInit, RqInvStep, PTL DEF Spec
<1> QED
  BY ReadingIsIterating, <1>1, PTL DEF MessagesSpec

\* shttp_header_next returns every line of the headers once, in order, without
\* its newline, and then SLICE_END.
THEOREM LinesReturned == MessagesSpec => []HeaderLines
BY InvAlways, IterInvIs, PTL

\* shttp_header_key returns what comes before the first colon, and
\* shttp_header_value what lies between the separators behind it, in order.
THEOREM WordsReturned == MessagesSpec => []HeaderWords
BY InvAlways, IterInvIs, PTL

-----------------------------------------------------------------------------
(* The writing half: what shttp_msg_response is made of *)

\* SHTTP_PROP before a copy: once something has failed, nothing is copied.
CopyNext(m, s) == IF m.status = "OK" THEN Resp!Cpy(m, s) ELSE m

\* The same before the status code.
CodeNext(m, r) == IF m.status = "OK" THEN Resp!Code(m, r) ELSE m

\* The same before the version.
VersionNext(m, r) ==
    IF m.status # "OK" THEN m
    ELSE IF r.version \in Versions THEN Resp!Cpy(m, Resp!Bytes(r.version, 3))
    ELSE [m EXCEPT !.status = "VALUE_INVALID"]

\* shttp_msg_response is a chain of copies, with the version and the status
\* code among them.
LEMMA ResponseIsChain ==
    ASSUME NEW m, NEW r
    PROVE  Resp!MsgResponse(m, r) =
               CopyNext(CopyNext(CopyNext(CopyNext(CodeNext(CopyNext(
                   VersionNext(Resp!Cpy(m, Resp!Bytes("HTTP/", 5)), r), Resp!Space), r),
                   Resp!Newline), Resp!Bytes("headers", r.headers)), Resp!Newline),
                   Resp!Bytes("body", r.body))
<1>1. Resp!InsertVersion(m, r) = VersionNext(Resp!Cpy(m, Resp!Bytes("HTTP/", 5)), r)
  BY DEF Resp!InsertVersion, VersionNext, Resp!Then
<1>2. Resp!StatusLine(m, r) =
          CopyNext(CodeNext(CopyNext(Resp!InsertVersion(m, r), Resp!Space), r), Resp!Newline)
  BY DEF Resp!StatusLine, Resp!Then, CopyNext, CodeNext, Resp!InsertNewline
<1>3. Resp!MsgResponse(m, r) =
          CopyNext(CopyNext(CopyNext(Resp!StatusLine(m, r), Resp!Bytes("headers", r.headers)),
                            Resp!Newline), Resp!Bytes("body", r.body))
  BY DEF Resp!MsgResponse, Resp!Then, CopyNext, Resp!InsertNewline
<1> QED
  BY <1>1, <1>2, <1>3

-----------------------------------------------------------------------------
(* The buffer, typed: a byte names its text *)

Texts == Versions \cup {"LENGTH"} \cup DOMAIN Reasons
            \cup {"untouched", "HTTP/", "SP", "CRLF", "reason", "headers", "body"}

AllBytes == Texts \X Nat

\* The slice is inside the program's buffer.
InsideBuffer == size \in Nat /\ end \in 1 .. size + 1

\* A buffer that no write has left misshapen, with the slice's begin in it.
Sound(m) == m \in [cells : [1 .. size + 1 -> AllBytes], begin : 1 .. end,
                   status : {"OK", "SLICE_END", "VALUE_INVALID"}]

\* A text is a sequence of its bytes.
LEMMA BytesTyped ==
    ASSUME NEW t \in Texts, NEW n \in Nat
    PROVE  /\ Resp!Bytes(t, n) \in Seq(AllBytes) /\ Len(Resp!Bytes(t, n)) = n
           /\ \A i \in 1 .. n : Resp!Bytes(t, n)[i] = <<t, i>>
<1>1. \A i \in 1 .. n : <<t, i>> \in AllBytes
  BY DEF AllBytes
<1>2. Resp!Bytes(t, n) \in [1 .. n -> AllBytes]
  BY <1>1 DEF Resp!Bytes
<1> QED
  BY <1>2 DEF Resp!Bytes

\* The parts of a response are such texts.
LEMMA PartsTyped ==
    ASSUME Resp!ResponseConstants, NEW r \in Resp!Responses
    PROVE  /\ Resp!Bytes("HTTP/", 5) \in Seq(AllBytes) /\ Len(Resp!Bytes("HTTP/", 5)) = 5
           /\ Resp!Bytes(r.version, 3) \in Seq(AllBytes) /\ Len(Resp!Bytes(r.version, 3)) = 3
           /\ Resp!Space \in Seq(AllBytes) /\ Len(Resp!Space) = 1
           /\ Resp!Newline \in Seq(AllBytes) /\ Len(Resp!Newline) = 2
           /\ Resp!Bytes(r.code, 3) \in Seq(AllBytes) /\ Len(Resp!Bytes(r.code, 3)) = 3
           /\ Resp!Bytes("reason", Reasons[r.code]) \in Seq(AllBytes)
           /\ Resp!Bytes("headers", r.headers) \in Seq(AllBytes)
           /\ Resp!Bytes("body", r.body) \in Seq(AllBytes)
<1>1. /\ r.version \in Texts /\ r.code \in Texts /\ r.code \in DOMAIN Reasons
      /\ "HTTP/" \in Texts /\ "SP" \in Texts /\ "CRLF" \in Texts
      /\ "reason" \in Texts /\ "headers" \in Texts /\ "body" \in Texts
  BY DEF Resp!Responses, Texts
<1>2. r.headers \in Nat /\ r.body \in Nat
  BY DEF Resp!Responses, Resp!ResponseConstants
<1>3. Reasons[r.code] \in Nat
  BY <1>1 DEF Resp!ResponseConstants
<1> QED
  BY <1>1, <1>2, <1>3, BytesTyped DEF Resp!Space, Resp!Newline

\* Writing a sequence at a place puts its entries there, as far as the buffer
\* goes, and leaves the rest of the buffer alone.
LEMMA WrittenIs ==
    ASSUME NEW m, m.cells \in [1 .. size + 1 -> AllBytes], InsideBuffer,
           NEW place \in Nat \ {0}, NEW s \in Seq(AllBytes)
    PROVE  /\ Resp!Written(m, place, s) \in [1 .. size + 1 -> AllBytes]
           /\ \A k \in 1 .. size + 1 : k < place => Resp!Written(m, place, s)[k] = m.cells[k]
           /\ \A j \in 1 .. Len(s) :
                place + j - 1 <= size + 1 => Resp!Written(m, place, s)[place + j - 1] = s[j]
<1>1. DOMAIN m.cells = 1 .. size + 1 /\ DOMAIN s = 1 .. Len(s) /\ Len(s) \in Nat
      /\ size \in Nat
  BY DEF InsideBuffer
<1>2. \A k \in 1 .. size + 1 :
         Resp!Written(m, place, s)[k] =
             IF k - place + 1 \in 1 .. Len(s) THEN s[k - place + 1] ELSE m.cells[k]
  BY <1>1 DEF Resp!Written
<1>3. Resp!Written(m, place, s) \in [1 .. size + 1 -> AllBytes]
  <2>1. \A k \in 1 .. size + 1 : m.cells[k] \in AllBytes
    OBVIOUS
  <2>2. \A j \in 1 .. Len(s) : s[j] \in AllBytes
    OBVIOUS
  <2> QED
    BY <1>1, <2>1, <2>2 DEF Resp!Written
<1>4. ASSUME NEW k \in 1 .. size + 1, k < place
      PROVE  Resp!Written(m, place, s)[k] = m.cells[k]
  <2>1. k - place + 1 \notin 1 .. Len(s)
    BY <1>1, <1>4
  <2> QED
    BY <1>2, <2>1
<1>5. ASSUME NEW j \in 1 .. Len(s), place + j - 1 <= size + 1
      PROVE  Resp!Written(m, place, s)[place + j - 1] = s[j]
  <2>1. place + j - 1 \in 1 .. size + 1 /\ (place + j - 1) - place + 1 = j
    BY <1>1, <1>5
  <2> QED
    BY <1>2, <2>1
<1> QED
  BY <1>3, <1>4, <1>5

\* A copy writes all of s and reports OK, or as much as fits and SLICE_END.
LEMMA CpyDoes ==
    ASSUME InsideBuffer, NEW m, Sound(m), NEW s \in Seq(AllBytes)
    PROVE  /\ Sound(Resp!Cpy(m, s))
           /\ \A k \in 1 .. m.begin - 1 : Resp!Cpy(m, s).cells[k] = m.cells[k]
           /\ m.begin + Len(s) <= end =>
                /\ Resp!Cpy(m, s).status = "OK" /\ Resp!Cpy(m, s).begin = m.begin + Len(s)
                /\ \A j \in 1 .. Len(s) : Resp!Cpy(m, s).cells[m.begin + j - 1] = s[j]
           /\ m.begin + Len(s) > end => Resp!Cpy(m, s).status = "SLICE_END"
<1> DEFINE n == Min({Len(s), end - m.begin})
           part == SubSeq(s, 1, n)
<1>0. /\ Resp!Cpy(m, s).cells = Resp!Written(m, m.begin, part)
      /\ Resp!Cpy(m, s).begin = m.begin + n
      /\ Resp!Cpy(m, s).status = IF n < Len(s) THEN "SLICE_END" ELSE "OK"
      /\ Resp!Cpy(m, s) = [cells |-> Resp!Written(m, m.begin, part),
                               begin |-> m.begin + n,
                               status |-> IF n < Len(s) THEN "SLICE_END" ELSE "OK"]
  <2>1. Resp!Min({Len(s), end - m.begin}) = n
    BY DEF Resp!Min, Min
  <2> HIDE DEF n
  <2> QED
    BY <2>1 DEF Resp!Cpy
<1>1. Len(s) \in Nat /\ m.begin \in 1 .. end /\ end \in 1 .. size + 1 /\ size \in Nat
  BY DEF Sound, InsideBuffer
<1>2. n \in {Len(s), end - m.begin} /\ n <= Len(s) /\ n <= end - m.begin
  <2>1. {Len(s), end - m.begin} \subseteq Nat
    BY <1>1
  <2> QED
    BY <2>1, MinIsLeast
<1>3. n \in Nat
  BY <1>1, <1>2
<1> HIDE DEF n
<1>4. part \in Seq(AllBytes) /\ Len(part) = n /\ \A j \in 1 .. n : part[j] = s[j]
  BY <1>1, <1>2, <1>3
<1> HIDE DEF part
<1>5. m.begin \in 1 .. size + 1 /\ m.cells \in [1 .. size + 1 -> AllBytes]
  BY <1>1 DEF Sound
<1>6. /\ Resp!Written(m, m.begin, part) \in [1 .. size + 1 -> AllBytes]
      /\ \A k \in 1 .. m.begin - 1 : Resp!Written(m, m.begin, part)[k] = m.cells[k]
      /\ \A j \in 1 .. n :
           m.begin + j - 1 <= size + 1 =>
              Resp!Written(m, m.begin, part)[m.begin + j - 1] = part[j]
  <2>1. m.begin \in Nat \ {0}
    BY <1>1
  <2>2. /\ Resp!Written(m, m.begin, part) \in [1 .. size + 1 -> AllBytes]
        /\ \A k \in 1 .. size + 1 :
             k < m.begin => Resp!Written(m, m.begin, part)[k] = m.cells[k]
        /\ \A j \in 1 .. Len(part) :
             m.begin + j - 1 <= size + 1 =>
                Resp!Written(m, m.begin, part)[m.begin + j - 1] = part[j]
    BY <1>4, <1>5, <2>1, WrittenIs
  <2>3. \A k \in 1 .. m.begin - 1 : k \in 1 .. size + 1 /\ k < m.begin
    BY <1>1
  <2> QED
    BY <1>4, <2>2, <2>3
<1>7. /\ Resp!Cpy(m, s).cells = Resp!Written(m, m.begin, part)
      /\ Resp!Cpy(m, s).begin = m.begin + n
      /\ Resp!Cpy(m, s).status = IF n < Len(s) THEN "SLICE_END" ELSE "OK"
  BY <1>0
<1>8. m.begin + n \in 1 .. end
  BY <1>1, <1>2, <1>3
<1>9. Sound(Resp!Cpy(m, s))
  <2>1. Resp!Cpy(m, s) = [cells |-> Resp!Written(m, m.begin, part), begin |-> m.begin + n,
                     status |-> IF n < Len(s) THEN "SLICE_END" ELSE "OK"]
    BY <1>0
  <2> QED
    BY <1>6, <1>8, <2>1 DEF Sound
<1>10. ASSUME m.begin + Len(s) <= end
       PROVE  /\ Resp!Cpy(m, s).status = "OK" /\ Resp!Cpy(m, s).begin = m.begin + Len(s)
              /\ \A j \in 1 .. Len(s) : Resp!Cpy(m, s).cells[m.begin + j - 1] = s[j]
  <2>1. n = Len(s)
    BY <1>1, <1>2, <1>10
  <2>2. \A j \in 1 .. n : m.begin + j - 1 <= size + 1
    BY <1>1, <1>3, <1>8
  <2>3. \A j \in 1 .. n : Resp!Written(m, m.begin, part)[m.begin + j - 1] = s[j]
    BY <1>4, <1>6, <2>2
  <2> QED
    BY <1>1, <1>7, <2>1, <2>3
<1>11. ASSUME m.begin + Len(s) > end
       PROVE  Resp!Cpy(m, s).status = "SLICE_END"
  <2>1. n < Len(s)
    BY <1>1, <1>2, <1>11
  <2> QED
    BY <1>7, <2>1
<1> QED
  BY <1>6, <1>7, <1>9, <1>10, <1>11

-----------------------------------------------------------------------------
(* How far a response has come *)

\* The buffer after the writes of t, from b on, by a call whose version is
\* known when v holds: t is there if it fits, and otherwise the first write
\* that failed is reported, the unknown version if it was that.
Reached(m, b, t, v) ==
    /\ Sound(m)
    /\ v /\ b + Len(t) <= end =>
         /\ m.status = "OK" /\ m.begin = b + Len(t)
         /\ \A j \in 1 .. Len(t) : m.cells[b + j - 1] = t[j]
    /\ ~(v /\ b + Len(t) <= end) =>
         IF ~v /\ b + 5 <= end THEN m.status = "VALUE_INVALID" ELSE m.status = "SLICE_END"

\* One more copy writes one more text.
LEMMA CopyReaches ==
    ASSUME InsideBuffer, NEW b \in 1 .. end, NEW m, NEW t \in Seq(AllBytes), NEW v \in BOOLEAN,
           Reached(m, b, t, v), NEW s \in Seq(AllBytes)
    PROVE  t \o s \in Seq(AllBytes) /\ Reached(CopyNext(m, s), b, t \o s, v)
<1>1. /\ Len(t) \in Nat /\ Len(s) \in Nat /\ b \in Nat /\ end \in Nat /\ size \in Nat
      /\ Sound(m)
  BY DEF InsideBuffer, Reached
<1>2. /\ t \o s \in Seq(AllBytes) /\ Len(t \o s) = Len(t) + Len(s)
      /\ \A j \in 1 .. Len(t) + Len(s) :
           (t \o s)[j] = IF j <= Len(t) THEN t[j] ELSE s[j - Len(t)]
  BY ConcatProperties
<1>3. CASE v /\ b + Len(t) <= end
  <2>1. /\ m.status = "OK" /\ m.begin = b + Len(t)
        /\ \A j \in 1 .. Len(t) : m.cells[b + j - 1] = t[j]
    BY <1>3 DEF Reached
  <2>2. CopyNext(m, s) = Resp!Cpy(m, s)
    BY <2>1 DEF CopyNext
  <2>3. /\ Sound(Resp!Cpy(m, s))
        /\ \A k \in 1 .. m.begin - 1 : Resp!Cpy(m, s).cells[k] = m.cells[k]
        /\ m.begin + Len(s) <= end =>
             /\ Resp!Cpy(m, s).status = "OK" /\ Resp!Cpy(m, s).begin = m.begin + Len(s)
             /\ \A j \in 1 .. Len(s) : Resp!Cpy(m, s).cells[m.begin + j - 1] = s[j]
        /\ m.begin + Len(s) > end => Resp!Cpy(m, s).status = "SLICE_END"
    BY <1>1, CpyDoes
  <2> DEFINE q == Resp!Cpy(m, s)
  <2> HIDE DEF q
  <2>4. CASE b + Len(t \o s) <= end
    <3>1. m.begin + Len(s) <= end /\ m.begin + Len(s) = b + Len(t \o s)
      BY <1>1, <1>2, <2>1, <2>4
    <3>2. q.status = "OK" /\ q.begin = b + Len(t \o s) /\ Sound(q)
      BY <2>3, <3>1 DEF q
    <3>3. ASSUME NEW j \in 1 .. Len(t \o s)
          PROVE  q.cells[b + j - 1] = (t \o s)[j]
      <4>1. CASE j <= Len(t)
        <5>1. b + j - 1 \in 1 .. m.begin - 1 /\ j \in 1 .. Len(t)
          BY <1>1, <1>2, <2>1, <4>1
        <5>2. q.cells[b + j - 1] = m.cells[b + j - 1]
          BY <2>3, <5>1 DEF q
        <5> QED
          BY <1>2, <2>1, <4>1, <5>1, <5>2
      <4>2. CASE ~(j <= Len(t))
        <5>1. j - Len(t) \in 1 .. Len(s) /\ m.begin + (j - Len(t)) - 1 = b + j - 1
          BY <1>1, <1>2, <2>1, <4>2
        <5>2. q.cells[m.begin + (j - Len(t)) - 1] = s[j - Len(t)]
          BY <2>3, <3>1, <5>1 DEF q
        <5>3. (t \o s)[j] = s[j - Len(t)]
          BY <1>2, <4>2
        <5> QED
          BY <5>1, <5>2, <5>3
      <4> QED
        BY <4>1, <4>2
    <3> QED
      BY <1>2, <1>3, <2>2, <2>4, <3>2, <3>3 DEF Reached, q
  <2>5. CASE ~(b + Len(t \o s) <= end)
    <3>1. m.begin + Len(s) > end
      BY <1>1, <1>2, <2>1, <2>5
    <3>2. CopyNext(m, s).status = "SLICE_END" /\ Sound(CopyNext(m, s))
      BY <2>2, <2>3, <3>1
    <3> QED
      BY <1>2, <1>3, <2>5, <3>2 DEF Reached
  <2> QED
    BY <2>4, <2>5
<1>4. CASE ~(v /\ b + Len(t) <= end)
  <2>1. IF ~v /\ b + 5 <= end THEN m.status = "VALUE_INVALID" ELSE m.status = "SLICE_END"
    BY <1>4 DEF Reached
  <2>2. CopyNext(m, s) = m
    BY <2>1 DEF CopyNext
  <2>3. ~(v /\ b + Len(t \o s) <= end)
    BY <1>1, <1>2, <1>4
  <2> QED
    BY <1>1, <1>2, <2>1, <2>2, <2>3 DEF Reached
<1> QED
  BY <1>3, <1>4

\* The version is the one write that can fail while there is room.
LEMMA VersionReaches ==
    ASSUME Resp!ResponseConstants, InsideBuffer, NEW b \in 1 .. end, NEW m,
           NEW r \in Resp!Responses,
           Reached(m, b, Resp!Bytes("HTTP/", 5), TRUE)
    PROVE  Reached(VersionNext(m, r), b, Resp!Bytes("HTTP/", 5) \o Resp!Bytes(r.version, 3),
                   r.version \in Versions)
<1> DEFINE h == Resp!Bytes("HTTP/", 5)
           t == Resp!Bytes(r.version, 3)
<1>1. h \in Seq(AllBytes) /\ Len(h) = 5 /\ t \in Seq(AllBytes) /\ Len(t) = 3
  BY PartsTyped
<1> HIDE DEF h, t
<1>2. h \o t \in Seq(AllBytes) /\ Len(h \o t) = 8
  <2>1. h \o t \in Seq(AllBytes) /\ Len(h \o t) = Len(h) + Len(t)
    BY <1>1, ConcatProperties, Zenon
  <2> QED
    BY <1>1, <2>1
<1>3. Reached(m, b, h, TRUE) /\ b \in Nat /\ end \in Nat
  <2>1. Reached(m, b, h, TRUE)
    BY Zenon DEF h
  <2>2. b \in Nat /\ end \in Nat
    BY SMT DEF InsideBuffer
  <2> QED
    BY <2>1, <2>2
<1>4. CASE r.version \in Versions
  <2>1. VersionNext(m, r) = CopyNext(m, t)
    BY <1>4 DEF VersionNext, CopyNext, t
  <2>2. Reached(CopyNext(m, t), b, h \o t, TRUE)
    BY <1>1, <1>3, CopyReaches
  <2> QED
    BY <1>4, <2>1, <2>2 DEF h, t
<1>5. CASE r.version \notin Versions
  <2>1. CASE b + 5 <= end
    <3>1. m.status = "OK" /\ Sound(m)
      BY <1>1, <1>3, <2>1 DEF Reached
    <3>2. VersionNext(m, r) = [m EXCEPT !.status = "VALUE_INVALID"]
      BY <1>5, <3>1 DEF VersionNext
    <3>3. Sound(VersionNext(m, r)) /\ VersionNext(m, r).status = "VALUE_INVALID"
      BY <3>1, <3>2 DEF Sound
    <3> QED
      BY <1>5, <2>1, <3>3 DEF Reached, h, t
  <2>2. CASE ~(b + 5 <= end)
    <3>1. m.status = "SLICE_END" /\ Sound(m)
      BY <1>1, <1>3, <2>2 DEF Reached
    <3>2. VersionNext(m, r) = m
      BY <3>1 DEF VersionNext
    <3> QED
      BY <1>5, <2>2, <3>1, <3>2 DEF Reached, h, t
  <2> QED
    BY <2>1, <2>2
<1> QED
  BY <1>4, <1>5

\* Three texts behind each other.
LEMMA Regrouped ==
    ASSUME NEW x \in Seq(AllBytes), NEW y \in Seq(AllBytes), NEW z \in Seq(AllBytes)
    PROVE  (x \o y) \o z = x \o (y \o z)
OBVIOUS

\* The status code and its reason phrase come as a whole or make the call fail;
\* the digits that are written where there is no room for the rest do no harm.
LEMMA CodeReaches ==
    ASSUME Resp!ResponseConstants, InsideBuffer, NEW b \in 1 .. end, NEW m,
           NEW r \in Resp!Responses,
           NEW t \in Seq(AllBytes), NEW v \in BOOLEAN, Reached(m, b, t, v)
    PROVE  LET u == ((t \o Resp!Bytes(r.code, 3)) \o Resp!Space)
                      \o Resp!Bytes("reason", Reasons[r.code])
           IN  u \in Seq(AllBytes) /\ Reached(CodeNext(m, r), b, u, v)
<1> DEFINE digits == Resp!Bytes(r.code, 3)
           reason == Resp!Bytes("reason", Reasons[r.code])
           u == (t \o (digits \o Resp!Space)) \o reason
<1>1. /\ digits \in Seq(AllBytes) /\ Len(digits) = 3
      /\ Resp!Space \in Seq(AllBytes) /\ Len(Resp!Space) = 1 /\ reason \in Seq(AllBytes)
  BY PartsTyped
<1> HIDE DEF digits, reason
<1>2. digits \o Resp!Space \in Seq(AllBytes) /\ Len(digits \o Resp!Space) = 4
  <2>1. /\ digits \o Resp!Space \in Seq(AllBytes)
        /\ Len(digits \o Resp!Space) = Len(digits) + Len(Resp!Space)
    BY <1>1, ConcatProperties, Zenon
  <2> QED
    BY <1>1, <2>1
<1>3. /\ t \o (digits \o Resp!Space) \in Seq(AllBytes)
      /\ Reached(CopyNext(m, digits \o Resp!Space), b, t \o (digits \o Resp!Space), v)
  BY <1>2, CopyReaches, Zenon
<1>4. /\ u \in Seq(AllBytes)
      /\ Reached(CopyNext(CopyNext(m, digits \o Resp!Space), reason), b, u, v)
  BY <1>1, <1>3, CopyReaches, Zenon
<1>5. u = ((t \o digits) \o Resp!Space) \o reason
  <2>1. (t \o digits) \o Resp!Space = t \o (digits \o Resp!Space)
    BY <1>1, Regrouped, Zenon
  <2> QED
    BY <2>1
<1>6. Len(u) >= Len(t) + 4 /\ Len(t) \in Nat
  <2>1. Len(t \o (digits \o Resp!Space)) = Len(t) + Len(digits \o Resp!Space)
    BY <1>2, ConcatProperties, Zenon
  <2>2. Len(u) = Len(t \o (digits \o Resp!Space)) + Len(reason)
    BY <1>1, <1>3, ConcatProperties, Zenon
  <2>3. Len(reason) \in Nat /\ Len(t) \in Nat
    BY <1>1
  <2> QED
    BY <1>2, <2>1, <2>2, <2>3
<1> HIDE DEF u
<1>7. b \in Nat /\ end \in Nat /\ size \in Nat /\ end <= size + 1
  BY DEF InsideBuffer
<1>8. Reached(CodeNext(m, r), b, u, v)
  <2>1. CASE m.status # "OK"
    <3>1. CodeNext(m, r) = CopyNext(CopyNext(m, digits \o Resp!Space), reason)
      BY <2>1 DEF CodeNext, CopyNext
    <3> QED
      BY <1>4, <3>1
  <2>2. CASE m.status = "OK" /\ end - m.begin > 3
    <3>1. m.begin \in Nat
      BY <1>7 DEF Reached, Sound
    <3>2. ~(end - m.begin < 3) /\ end - m.begin # 3
      BY <1>7, <2>2, <3>1
    <3>3. Resp!Code(m, r) = CopyNext(Resp!Cpy(m, digits \o Resp!Space), reason)
      BY <3>2, Zenon DEF Resp!Code, CopyNext, Resp!Then, digits, reason
    <3>4. CodeNext(m, r) = CopyNext(CopyNext(m, digits \o Resp!Space), reason)
      BY <2>2, <3>3 DEF CodeNext, CopyNext
    <3> QED
      BY <1>4, <3>4
  <2>3. CASE m.status = "OK" /\ ~(end - m.begin > 3)
    <3>1. /\ v /\ b + Len(t) <= end
          /\ m.begin = b + Len(t) /\ Sound(m)
      BY <1>6, <1>7, <2>3 DEF Reached
    <3>2. m.begin \in 1 .. end /\ m.cells \in [1 .. size + 1 -> AllBytes]
      BY <3>1 DEF Sound
    <3>3. ~(v /\ b + Len(u) <= end)
      BY <1>6, <1>7, <2>3, <3>1
    <3>4. Sound(Resp!Code(m, r)) /\ Resp!Code(m, r).status = "SLICE_END"
      <4>1. CASE end - m.begin < 3
        <5> DEFINE part == SubSeq(digits, 1, end - m.begin)
        <5>1. part \in Seq(AllBytes)
          <6>1. /\ end - m.begin \in Int
                /\ \A i \in 1 .. end - m.begin : digits[i] \in AllBytes
            <7>1. end - m.begin \in Int /\ 1 .. end - m.begin \subseteq 1 .. 3
              BY <1>7, <3>2, <4>1
            <7>2. \A i \in 1 .. Len(digits) : digits[i] \in AllBytes
              BY <1>1, ElementOfSeq, Zenon
            <7>3. Len(digits) = 3
              BY <1>1
            <7> QED
              BY <7>1, <7>2, <7>3
          <6> QED
            BY <6>1, SubSeqProperties
        <5> HIDE DEF part
        <5>2. Resp!Written(m, m.begin + 1, part) \in [1 .. size + 1 -> AllBytes]
          <6>1. m.begin + 1 \in Nat \ {0}
            BY <1>7, <3>2
          <6> QED
            BY <3>2, <5>1, <6>1, WrittenIs
        <5>3. Resp!Code(m, r) = [cells |-> Resp!Written(m, m.begin + 1, part), begin |-> end,
                            status |-> "SLICE_END"]
          BY <4>1 DEF Resp!Code, digits, part
        <5>4. end \in 1 .. end
          BY <1>7, <3>2
        <5> QED
          BY <5>2, <5>3, <5>4 DEF Sound
      <4>2. CASE end - m.begin = 3
        <5>1. Resp!Written(m, m.begin, digits) \in [1 .. size + 1 -> AllBytes]
          <6>1. m.begin \in Nat \ {0}
            BY <1>7, <3>2
          <6> QED
            BY <1>1, <3>2, <6>1, WrittenIs
        <5>2. Resp!Code(m, r) = [m EXCEPT !.cells = Resp!Written(m, m.begin, digits),
                                     !.status = "SLICE_END"]
          BY <4>2 DEF Resp!Code, digits
        <5> QED
          BY <3>1, <5>1, <5>2 DEF Sound
      <4> QED
        BY <1>7, <2>3, <3>2, <4>1, <4>2
    <3> QED
      BY <2>3, <3>1, <3>3, <3>4 DEF Reached, CodeNext
  <2> QED
    BY <2>1, <2>2, <2>3
<1> QED
  BY <1>4, <1>5, <1>8 DEF digits, reason

\* shttp_msg_response has written the whole response, or it reports the first
\* part that failed.
LEMMA ResponseReaches ==
    ASSUME Resp!ResponseConstants, InsideBuffer, NEW m, Sound(m), m.status = "OK",
           NEW r \in Resp!Responses
    PROVE  /\ Resp!Text(r) \in Seq(AllBytes)
           /\ Reached(Resp!MsgResponse(m, r), m.begin, Resp!Text(r), r.version \in Versions)
<1> DEFINE b == m.begin
           v == r.version \in Versions
           m1 == CopyNext(m, Resp!Bytes("HTTP/", 5))
           t1 == Resp!Bytes("HTTP/", 5)
           m2 == VersionNext(m1, r)
           t2 == t1 \o Resp!Bytes(r.version, 3)
           m3 == CopyNext(m2, Resp!Space)
           t3 == t2 \o Resp!Space
           m4 == CodeNext(m3, r)
           t4 == ((t3 \o Resp!Bytes(r.code, 3)) \o Resp!Space)
                    \o Resp!Bytes("reason", Reasons[r.code])
           m5 == CopyNext(m4, Resp!Newline)
           t5 == t4 \o Resp!Newline
           m6 == CopyNext(m5, Resp!Bytes("headers", r.headers))
           t6 == t5 \o Resp!Bytes("headers", r.headers)
           m7 == CopyNext(m6, Resp!Newline)
           t7 == t6 \o Resp!Newline
           m8 == CopyNext(m7, Resp!Bytes("body", r.body))
           t8 == t7 \o Resp!Bytes("body", r.body)
<1>1. Resp!MsgResponse(m, r) = m8
  <2>1. Resp!Cpy(m, Resp!Bytes("HTTP/", 5)) = m1
    BY DEF CopyNext
  <2> QED
    BY <2>1, ResponseIsChain
<1>2. Resp!Text(r) = t8
  BY DEF Resp!Text
<1>3. Resp!Bytes("HTTP/", 5) \in Seq(AllBytes) /\ Resp!Bytes(r.version, 3) \in Seq(AllBytes)
  BY PartsTyped
<1>a. Resp!Space \in Seq(AllBytes)
  BY PartsTyped
<1>b. Resp!Newline \in Seq(AllBytes)
  BY PartsTyped
<1>c. Resp!Bytes("headers", r.headers) \in Seq(AllBytes)
  BY PartsTyped
<1>d. Resp!Bytes("body", r.body) \in Seq(AllBytes)
  BY PartsTyped
<1>4. b \in 1 .. end /\ v \in BOOLEAN
  BY DEF Sound
<1> HIDE DEF m2, m3, m4, m5, m6, m7, m8, t2, t3, t4, t5, t6, t7, t8, b, v
<1>5. t1 \in Seq(AllBytes) /\ Reached(m1, b, t1, TRUE)
  <2>1. Reached(m, b, <<>>, TRUE)
    <3>1. b + Len(<<>>) = b /\ b <= end /\ m.begin = b
      BY <1>4 DEF b
    <3> QED
      BY <3>1 DEF Reached
  <2>2. <<>> \o t1 = t1 /\ <<>> \in Seq(AllBytes)
    BY <1>3
  <2>3. Reached(m1, b, <<>> \o t1, TRUE)
    BY <1>3, <1>4, <2>1, <2>2, CopyReaches, Zenon
  <2> QED
    BY <1>3, <2>2, <2>3
<1>6. t2 \in Seq(AllBytes) /\ Reached(m2, b, t2, v)
  <2>1. Reached(m2, b, t2, v)
    BY <1>4, <1>5, VersionReaches, Zenon DEF m2, t2, v
  <2>2. t2 \in Seq(AllBytes)
    BY <1>3, ConcatProperties, Zenon DEF t2
  <2> QED
    BY <2>1, <2>2
<1>7. t3 \in Seq(AllBytes) /\ Reached(m3, b, t3, v)
  BY <1>a, <1>4, <1>6, CopyReaches, Zenon DEF m3, t3
<1>8. t4 \in Seq(AllBytes) /\ Reached(m4, b, t4, v)
  BY <1>4, <1>7, CodeReaches, Zenon DEF m4, t4
<1>9. t5 \in Seq(AllBytes) /\ Reached(m5, b, t5, v)
  BY <1>b, <1>4, <1>8, CopyReaches, Zenon DEF m5, t5
<1>10. t6 \in Seq(AllBytes) /\ Reached(m6, b, t6, v)
  BY <1>c, <1>4, <1>9, CopyReaches, Zenon DEF m6, t6
<1>11. t7 \in Seq(AllBytes) /\ Reached(m7, b, t7, v)
  BY <1>b, <1>4, <1>10, CopyReaches, Zenon DEF m7, t7
<1>12. t8 \in Seq(AllBytes) /\ Reached(m8, b, t8, v)
  BY <1>d, <1>4, <1>11, CopyReaches, Zenon DEF m8, t8
<1> QED
  BY <1>1, <1>2, <1>12 DEF b, v

-----------------------------------------------------------------------------
(* The theorems *)

\* The state between calls: the buffer is typed and the slice is in it, and
\* what the last call did was right.
RInv ==
    /\ InsideBuffer /\ size <= MaxRoom
    /\ begin \in 1 .. end
    /\ cells \in [1 .. size + 1 -> AllBytes]
    /\ room \in 0 .. size /\ Len(sent) <= size
    /\ answer \in {"none", "OK", "SLICE_END", "VALUE_INVALID"}
    /\ calls \in 0 .. MaxCalls
    /\ Resp!WholeOrNothing
    /\ Resp!VersionBeforeEnd

\* The program's buffer as it is when the program takes it.
LEMMA FreshBuffer ==
    ASSUME size \in Nat
    PROVE  [i \in 1 .. size + 1 |-> Resp!Untouched] \in [1 .. size + 1 -> AllBytes]
<1>1. Resp!Untouched \in AllBytes
  BY DEF Resp!Untouched, AllBytes, Texts
<1> QED
  BY <1>1

\* At first nothing was sent.
LEMMA RInvInit == ASSUME Resp!ResponseConstants PROVE Resp!Init => RInv
<1> SUFFICES ASSUME Resp!Init PROVE RInv
  OBVIOUS
<1>1. size \in Nat /\ size <= MaxRoom /\ MaxRoom \in Nat /\ MaxCalls \in Nat
  BY DEF Resp!Init, Resp!ResponseConstants
<1>2. /\ begin = 1 /\ end = size + 1 /\ room = 0 /\ answer = "none" /\ sent = <<>> /\ calls = 0
      /\ cells = [i \in 1 .. size + 1 |-> Resp!Untouched]
  BY DEF Resp!Init
<1>3. cells \in [1 .. size + 1 -> AllBytes]
  BY <1>1, <1>2, FreshBuffer
<1>4. InsideBuffer /\ begin \in 1 .. end /\ room \in 0 .. size /\ Len(sent) <= size
      /\ calls \in 0 .. MaxCalls
  BY <1>1, <1>2 DEF InsideBuffer
<1>5. Resp!WholeOrNothing /\ Resp!VersionBeforeEnd
  BY <1>2 DEF Resp!WholeOrNothing, Resp!VersionBeforeEnd
<1> QED
  BY <1>1, <1>2, <1>3, <1>4, <1>5 DEF RInv

\* A call that is handed any part of the buffer sends the whole response or
\* nothing, and leaves the slice inside the buffer.
LEMMA SendStep ==
    ASSUME Resp!ResponseConstants, RInv, NEW r \in Resp!Responses, NEW ignore \in BOOLEAN,
           Resp!Send(r, ignore)
    PROVE  RInv'
<1> DEFINE m0 == [cells |-> cells, begin |-> begin, status |-> "OK"]
           m == Resp!MsgResponse(m0, r)
           t == Resp!Text(r)
           v == r.version \in Versions
<1>1. /\ InsideBuffer /\ begin \in 1 .. end /\ cells \in [1 .. size + 1 -> AllBytes]
      /\ size <= MaxRoom /\ calls \in 0 .. MaxCalls /\ calls < MaxCalls /\ MaxCalls \in Nat
      /\ size \in Nat /\ end \in 1 .. size + 1
  BY DEF RInv, Resp!Send, Resp!ResponseConstants, InsideBuffer
<1>2. Sound(m0) /\ m0.status = "OK" /\ m0.begin = begin
  BY <1>1 DEF Sound
<1>3. t \in Seq(AllBytes) /\ Reached(m, begin, t, v)
  <2> HIDE DEF m0
  <2> QED
    BY <1>1, <1>2, ResponseReaches
<1>4. /\ calls' = calls + 1 /\ res' = r /\ room' = end - begin /\ size' = size
      /\ cells' = m.cells /\ answer' = m.status
      /\ m.status = "OK" => /\ sent' = SubSeq(m.cells, begin, m.begin - 1)
                            /\ begin' = begin /\ end' = IF ignore THEN end ELSE m.begin
      /\ m.status # "OK" => /\ sent' = <<>> /\ end' = end
                            /\ begin' = IF ignore THEN begin ELSE m.begin
  BY DEF Resp!Send
<1> HIDE DEF m, t, v
<1>5. /\ Sound(m) /\ Len(t) \in Nat
      /\ m.cells \in [1 .. size + 1 -> AllBytes] /\ m.begin \in 1 .. end
      /\ m.status \in {"OK", "SLICE_END", "VALUE_INVALID"}
  BY <1>3 DEF Reached, Sound
<1>6. CASE v /\ begin + Len(t) <= end
  <2>1. /\ m.status = "OK" /\ m.begin = begin + Len(t)
        /\ \A j \in 1 .. Len(t) : m.cells[begin + j - 1] = t[j]
    BY <1>3, <1>6 DEF Reached
  <2>2. SubSeq(m.cells, begin, m.begin - 1) = t
    <3>1. \A i \in begin .. m.begin - 1 : m.cells[i] \in AllBytes
      BY <1>1, <1>5
    <3>2. begin \in Int /\ m.begin - 1 \in Int /\ (m.begin - 1) - begin + 1 = Len(t)
      BY <1>1, <1>5, <2>1
    <3> DEFINE s == SubSeq(m.cells, begin, m.begin - 1)
    <3>3. /\ s \in Seq(AllBytes)
          /\ Len(s) = IF begin <= m.begin - 1 THEN (m.begin - 1) - begin + 1 ELSE 0
          /\ \A i \in 1 .. (m.begin - 1) - begin + 1 : s[i] = m.cells[begin + i - 1]
      BY <3>1, <3>2, SubSeqProperties
    <3> HIDE DEF s
    <3>4. Len(s) = Len(t)
      BY <1>1, <1>5, <2>1, <3>3
    <3>5. \A i \in 1 .. Len(t) : s[i] = t[i]
      BY <2>1, <3>2, <3>3
    <3>6. s = t
      BY <1>3, <3>3, <3>4, <3>5, SeqEqual
    <3> QED
      BY <3>6 DEF s
  <2>3. sent' = t /\ answer' = "OK"
    BY <1>4, <2>1, <2>2
  <2>4. Len(t) <= room' /\ room' \in 0 .. size
    BY <1>1, <1>4, <1>5, <1>6
  <2>5. begin' \in 1 .. end' /\ end' \in 1 .. size + 1
    BY <1>1, <1>4, <1>5, <2>1
  <2>6. Resp!WholeOrNothing'
    BY <1>4, <1>6, <2>3, <2>4 DEF Resp!WholeOrNothing, t, v
  <2>7. Resp!VersionBeforeEnd'
    BY <2>3 DEF Resp!VersionBeforeEnd
  <2>8. Len(sent') <= size /\ calls' \in 0 .. MaxCalls
    BY <1>1, <1>4, <1>5, <2>3, <2>4
  <2> QED
    BY <1>1, <1>4, <1>5, <2>3, <2>4, <2>5, <2>6, <2>7, <2>8 DEF RInv, InsideBuffer
<1>7. CASE ~(v /\ begin + Len(t) <= end)
  <2>1. IF ~v /\ begin + 5 <= end THEN m.status = "VALUE_INVALID" ELSE m.status = "SLICE_END"
    BY <1>3, <1>7 DEF Reached
  <2>2. sent' = <<>> /\ answer' # "OK" /\ answer' = m.status /\ end' = end
    BY <1>4, <2>1
  <2>3. ~(v /\ Len(t) <= room') /\ room' \in 0 .. size
    BY <1>1, <1>4, <1>5, <1>7
  <2>4. begin' \in 1 .. end'
    BY <1>1, <1>4, <1>5, <2>2
  <2>5. Resp!WholeOrNothing'
    BY <1>4, <2>2, <2>3 DEF Resp!WholeOrNothing, t, v
  <2>6. Resp!VersionBeforeEnd'
    <3>1. begin + 5 <= end <=> room' >= 5
      BY <1>1, <1>4
    <3> QED
      BY <1>4, <2>1, <2>2, <3>1 DEF Resp!VersionBeforeEnd, v
  <2>7. Len(sent') <= size /\ calls' \in 0 .. MaxCalls
    BY <1>1, <1>4, <2>2
  <2> QED
    BY <1>1, <1>4, <1>5, <2>2, <2>3, <2>4, <2>5, <2>6, <2>7 DEF RInv, InsideBuffer
<1> QED
  BY <1>6, <1>7

\* Every step of the writing program keeps the invariant.
LEMMA RInvStep == ASSUME Resp!ResponseConstants PROVE RInv /\ [Resp!Next]_Resp!vars => RInv'
<1> SUFFICES ASSUME RInv, [Resp!Next]_Resp!vars
             PROVE  RInv'
  OBVIOUS
<1>1. CASE \E r \in Resp!Responses, ignore \in BOOLEAN : Resp!Send(r, ignore)
  BY <1>1, SendStep
<1>2. CASE Resp!Reset
  <2>1. /\ size' = size /\ begin' = 1 /\ end' = size + 1 /\ room' = 0 /\ answer' = "none"
        /\ sent' = <<>> /\ calls' = 0 /\ cells' = [i \in DOMAIN cells |-> Resp!Untouched]
    BY <1>2 DEF Resp!Reset
  <2>2. size \in Nat /\ size <= MaxRoom /\ MaxCalls \in Nat /\ DOMAIN cells = 1 .. size + 1
    BY DEF RInv, InsideBuffer, Resp!ResponseConstants
  <2>3. cells' \in [1 .. size + 1 -> AllBytes]
    BY <2>1, <2>2, FreshBuffer
  <2>4. InsideBuffer' /\ begin' \in 1 .. end' /\ room' \in 0 .. size' /\ Len(sent') <= size'
        /\ calls' \in 0 .. MaxCalls
    BY <2>1, <2>2 DEF InsideBuffer
  <2>5. Resp!WholeOrNothing' /\ Resp!VersionBeforeEnd'
    BY <2>1 DEF Resp!WholeOrNothing, Resp!VersionBeforeEnd
  <2> QED
    BY <2>1, <2>2, <2>3, <2>4, <2>5 DEF RInv
<1>3. CASE UNCHANGED Resp!vars
  BY <1>3 DEF Resp!vars, RInv, InsideBuffer, Resp!WholeOrNothing, Resp!VersionBeforeEnd
<1> QED
  BY <1>1, <1>2, <1>3 DEF Resp!Next

\* The program of module Messages takes the steps of Response, or reads requests
\* and leaves it alone.
LEMMA WritingIsResponding ==
    /\ MessagesInit => Resp!Init
    /\ [Reads \/ Writes]_<<headersVars, writing, direction>> => [Resp!Next]_Resp!vars
<1>1. MessagesInit => Resp!Init
  BY DEF MessagesInit
<1>2. ASSUME [Reads \/ Writes]_<<headersVars, writing, direction>>
      PROVE  [Resp!Next]_Resp!vars
  <2>1. CASE UNCHANGED writing
    BY <2>1 DEF writing, Resp!vars
  <2> QED
    BY <1>2, <2>1 DEF Reads, Writes
<1> QED
  BY <1>1, <1>2

\* What is sent is the whole response or nothing, and the whole response
\* exactly when the slice has room for it.
THEOREM SentWholeOrNothing == MessagesSpec => []WholeOrNothing
<1>1. RInv => WholeOrNothing
  BY DEF RInv, WholeOrNothing
<1> QED
  BY WritingIsResponding, RInvInit, RInvStep, ResponseAssumption, <1>1, PTL DEF MessagesSpec

\* A failed call reports an unknown version only when it got that far.
THEOREM FirstFailureReported == MessagesSpec => []VersionBeforeEnd
<1>1. RInv => VersionBeforeEnd
  BY DEF RInv, VersionBeforeEnd
<1> QED
  BY WritingIsResponding, RInvInit, RInvStep, ResponseAssumption, <1>1, PTL DEF MessagesSpec

\* The slice stays inside the program's buffer, whatever its calls make of it.
THEOREM ResponseTypes == MessagesSpec => []Resp!TypeOK
<1>1. Resp!Responses # {}
  <2>1. PICK code \in DOMAIN Reasons : TRUE
    BY ResponseAssumption DEF Resp!ResponseConstants
  <2>2. 0 \in 0 .. MaxHeaders /\ 0 \in 0 .. MaxBody
    BY ResponseAssumption DEF Resp!ResponseConstants
  <2>3. [version |-> "LENGTH", code |-> code, headers |-> 0, body |-> 0] \in Resp!Responses
    BY <2>1, <2>2 DEF Resp!Responses
  <2> QED
    BY <2>3
<1>2. Resp!Init => res \in Resp!Responses
  BY <1>1 DEF Resp!Init
<1>3. res \in Resp!Responses /\ [Resp!Next]_Resp!vars
          => (res \in Resp!Responses)'
  BY <1>1 DEF Resp!Next, Resp!Send, Resp!Reset, Resp!vars, Resp!Responses
<1>4. RInv /\ res \in Resp!Responses => Resp!TypeOK
  BY DEF RInv, InsideBuffer, Resp!TypeOK
<1> QED
  BY WritingIsResponding, RInvInit, RInvStep, ResponseAssumption, <1>2, <1>3, <1>4, PTL
     DEF MessagesSpec

\* Every pointer of a request, of its headers and of what was read in them is in
\* the buffer, NULL or from before, and every pointer of a response is in its own.
THEOREM MessagesTypes == MessagesSpec => []MessagesTypeOK
<1>1. MessagesSpec => []HeadersTypeOK
  BY InvAlways, IterInvIs, PTL
<1>2. MessagesSpec => []Resp!TypeOK
  BY ResponseTypes
<1>3. MessagesSpec => [](direction \in {"reading", "writing"})
  <2>1. MessagesInit => direction \in {"reading", "writing"}
    BY DEF MessagesInit
  <2>2. /\ direction \in {"reading", "writing"}
        /\ [Reads \/ Writes]_<<headersVars, writing, direction>>
        => (direction \in {"reading", "writing"})'
    BY DEF Reads, Writes
  <2> QED
    BY <2>1, <2>2, PTL DEF MessagesSpec
<1> QED
  BY <1>1, <1>2, <1>3, PTL DEF MessagesTypeOK
=============================================================================
