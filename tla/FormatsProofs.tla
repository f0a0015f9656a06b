---------------------------- MODULE FormatsProofs ----------------------------
(***************************************************************************)
(* Theorems about modules Numbers and Formats, for values and magnitudes   *)
(* of every width, texts and formats of every length and buffers of every  *)
(* size.                                                                   *)
(***************************************************************************)
EXTENDS Formats, Least, FiniteSetTheorems

-----------------------------------------------------------------------------
(* Division *)

LEMMA DivMod ==
    ASSUME NEW n \in Int, NEW m \in Nat \ {0}
    PROVE  /\ n \div m \in Int /\ n % m \in 0 .. m - 1
           /\ n - m * (n \div m) = n % m
<1>1. n - m * (n \div m) = n % m
  BY SMTT(30)
<1>2. n \div m \in Int /\ n % m \in 0 .. m - 1
  OBVIOUS
<1> QED
  BY <1>1, <1>2

\* There is one quotient and one remainder.
LEMMA DivModIs ==
    ASSUME NEW n \in Int, NEW m \in Nat \ {0}, NEW q \in Int, NEW r \in 0 .. m - 1,
           n = q * m + r
    PROVE  n \div m = q /\ n % m = r
OBVIOUS

LEMMA DivOfNat ==
    ASSUME NEW n \in Nat, NEW m \in Nat \ {0}
    PROVE  /\ n \div m \in Nat /\ n \div m <= n /\ n % m <= n
           /\ n < 10 * m => n \div m \in 0 .. 9
           /\ n < m => n \div m = 0 /\ n % m = n
           /\ m <= n => n \div m > 0
           /\ 10 * m <= n => n \div m >= 10
<1> DEFINE q == n \div m
           r == n % m
<1>1. q \in Int /\ r \in 0 .. m - 1 /\ n - m * q = r
  BY DivMod
<1> HIDE DEF q, r
<1>2. q >= 0
  <2>1. SUFFICES ASSUME q <= -1 PROVE FALSE
    BY <1>1
  <2>2. m * q <= -m
    BY <1>1, <2>1
  <2> QED
    BY <1>1, <2>2
<1>3. m * q >= q
  BY <1>1, <1>2
<1>4. q <= n /\ r <= n
  BY <1>1, <1>2, <1>3
<1>5. n < 10 * m => q <= 9
  <2>1. q >= 10 => m * q >= 10 * m
    BY <1>1
  <2> QED
    BY <1>1, <2>1
<1>6. n < m => q = 0 /\ r = n
  <2>1. q >= 1 => m * q >= m
    BY <1>1
  <2>2. q = 0 => m * q = 0
    BY <1>1
  <2> QED
    BY <1>1, <1>2, <2>1, <2>2
<1>7. m <= n => q > 0
  <2>1. q = 0 => m * q = 0
    BY <1>1
  <2> QED
    BY <1>1, <1>2, <2>1
<1>8. 10 * m <= n => q >= 10
  <2>1. q <= 9 => m * q <= 9 * m
    BY <1>1
  <2> QED
    BY <1>1, <1>2, <2>1
<1> QED
  BY <1>1, <1>2, <1>4, <1>5, <1>6, <1>7, <1>8 DEF q, r

\* To divide by 10 * m is to divide by m and by 10: the digits of the quotient.
LEMMA DivByTen ==
    ASSUME NEW n \in Nat, NEW m \in Nat \ {0}
    PROVE  /\ n \div (10 * m) = (n \div m) \div 10
           /\ (n % (10 * m)) \div m = (n \div m) % 10
           /\ (n % (10 * m)) % m = n % m
<1> DEFINE q == n \div m
           r == n % m
           q2 == q \div 10
           d == q % 10
<1>1. q \in Int /\ r \in 0 .. m - 1 /\ n - m * q = r
  BY DivMod
<1>2. q2 \in Int /\ d \in 0 .. 9 /\ q - 10 * q2 = d
  <2> HIDE DEF q
  <2> QED
    BY <1>1, DivMod
<1> HIDE DEF q, r, q2, d
<1>3. n = q2 * (10 * m) + (d * m + r)
  <2>0. q = 10 * q2 + d
    BY <1>1, <1>2
  <2>1. m * q = m * (10 * q2 + d)
    BY <2>0
  <2>2. m * (10 * q2 + d) = q2 * (10 * m) + d * m
    BY <1>1, <1>2
  <2> QED
    BY <1>1, <1>2, <2>1, <2>2
<1>4. d * m + r \in 0 .. 10 * m - 1 /\ 10 * m \in Nat \ {0}
  <2>1. d * m <= 9 * m /\ d * m >= 0
    BY <1>2
  <2> QED
    BY <1>1, <1>2, <2>1
<1>5. n \div (10 * m) = q2 /\ n % (10 * m) = d * m + r
  <2> DEFINE big == 10 * m
             rest == d * m + r
  <2>1. big \in Nat \ {0} /\ rest \in 0 .. big - 1 /\ n = q2 * big + rest
    BY <1>3, <1>4
  <2> HIDE DEF big, rest
  <2>2. n \div big = q2 /\ n % big = rest
    BY <1>2, <2>1, DivModIs
  <2> QED
    BY <2>2 DEF big, rest
<1>6. (d * m + r) \div m = d /\ (d * m + r) % m = r
  BY <1>1, <1>2, <1>4, DivModIs
<1> QED
  BY <1>5, <1>6 DEF q, r, q2, d

-----------------------------------------------------------------------------
(* The widths *)

LEMMA ValuesAre ==
    ASSUME signed \in Signs
    PROVE  /\ MinVal \in Int /\ MaxVal \in Int /\ MaxVal = MinVal + Modulus - 1
           /\ 0 \in Values /\ MaxVal < Modulus /\ Modulus \in Nat \ {0}
           /\ ~signed => MinVal = 0
           /\ \A v \in Values : v \in Int
           /\ \A n \in 0 .. MaxVal : n \in Values
           /\ signed => \A v \in Values : v < 0 /\ v # MinVal => -v \in Values
<1>1. Modulus \in Nat \ {0} /\ signed \in BOOLEAN
  BY NumbersAssumption
<1>2. CASE signed
  <2>1. Modulus % 2 = 0
    BY <1>2, NumbersAssumption
  <2> DEFINE h == Modulus \div 2
  <2>2. h \in Int /\ Modulus - 2 * h = 0
    BY <1>1, <2>1, DivMod
  <2>3. MinVal = -h
    BY <1>2 DEF MinVal
  <2> HIDE DEF h
  <2> QED
    BY <1>1, <1>2, <2>2, <2>3 DEF Values, MaxVal
<1>3. CASE ~signed
  <2>1. MinVal = 0
    BY <1>3 DEF MinVal
  <2> QED
    BY <1>1, <1>3, <2>1 DEF Values, MaxVal
<1> QED
  BY <1>1, <1>2, <1>3

\* Wrap gives the value that is the same modulo the width.
Same(a, b) == \E k \in Int : a - b = k * Modulus

LEMMA WrapIs ==
    ASSUME signed \in Signs, NEW n \in Int
    PROVE  /\ Wrap(n) \in Values /\ Wrap(n) \in Int /\ Same(n, Wrap(n))
           /\ n \in Values => Wrap(n) = n
<1>1. MinVal \in Int /\ Modulus \in Nat \ {0} /\ MaxVal = MinVal + Modulus - 1
  BY ValuesAre
<1> DEFINE d == n - MinVal
           q == d \div Modulus
           r == d % Modulus
<1>2. d \in Int /\ n = MinVal + d
  BY <1>1
<1>3. Wrap(n) = MinVal + r
  BY DEF Wrap
<1> HIDE DEF d
<1>4. q \in Int /\ r \in 0 .. Modulus - 1 /\ d - Modulus * q = r
  BY <1>1, <1>2, DivMod
<1>5. d \in 0 .. Modulus - 1 => r = d
  BY <1>1, <1>2, DivOfNat
<1> HIDE DEF q, r
<1>6. n - Wrap(n) = q * Modulus
  BY <1>1, <1>2, <1>3, <1>4
<1>7. n \in Values => d \in 0 .. Modulus - 1
  BY <1>1, <1>2 DEF Values
<1>8. Wrap(n) \in Int /\ Wrap(n) \in Values
  BY <1>1, <1>3, <1>4 DEF Values
<1>9. n \in Values => Wrap(n) = n
  BY <1>2, <1>3, <1>5, <1>7
<1> QED
  BY <1>4, <1>6, <1>8, <1>9 DEF Same

\* The same modulo the width.
LEMMA SameIs ==
    ASSUME NEW a \in Int, NEW b \in Int, NEW c \in Int
    PROVE  /\ Same(a, a)
           /\ Same(a, b) => Same(b, a) /\ Same(-a, -b)
           /\ Same(a, b) /\ Same(b, c) => Same(a, c)
           /\ Same(a, b) => (a - b) % Modulus = 0
<1>1. Modulus \in Nat \ {0}
  BY NumbersAssumption
<1>2. Same(a, a)
  <2>1. a - a = 0 * Modulus
    BY <1>1
  <2> QED
    BY <2>1 DEF Same
<1>3. ASSUME Same(a, b)
      PROVE  Same(b, a) /\ Same(-a, -b) /\ (a - b) % Modulus = 0
  <2>1. PICK k \in Int : a - b = k * Modulus
    BY <1>3 DEF Same
  <2>2. -k \in Int /\ b - a = (-k) * Modulus /\ (-a) - (-b) = (-k) * Modulus
    BY <1>1, <2>1
  <2>3. (a - b) % Modulus = 0
    <3>1. a - b = k * Modulus + 0 /\ 0 \in 0 .. Modulus - 1 /\ a - b \in Int
      BY <1>1, <2>1
    <3> QED
      BY <1>1, <2>1, <3>1, DivModIs
  <2> QED
    BY <2>2, <2>3 DEF Same
<1>4. ASSUME Same(a, b), Same(b, c) PROVE Same(a, c)
  <2>1. PICK k \in Int : a - b = k * Modulus
    BY <1>4 DEF Same
  <2>2. PICK l \in Int : b - c = l * Modulus
    BY <1>4 DEF Same
  <2>3. k + l \in Int /\ a - c = (k + l) * Modulus
    BY <1>1, <2>1, <2>2
  <2> QED
    BY <2>3 DEF Same
<1> QED
  BY <1>2, <1>3, <1>4

\* One more digit d, with and without the overflows on the way.
LEMMA SameStep ==
    ASSUME NEW a \in Int, NEW b \in Int, NEW w \in Int, NEW d \in Int, NEW x \in Int,
           Same(a, b), Same(b * 10, w), Same(w + d, x)
    PROVE  Same(10 * a + d, x)
<1>1. Modulus \in Nat \ {0}
  BY NumbersAssumption
<1>2. PICK k \in Int : a - b = k * Modulus
  BY DEF Same
<1>3. PICK l \in Int : b * 10 - w = l * Modulus
  BY DEF Same
<1>4. PICK m \in Int : w + d - x = m * Modulus
  BY DEF Same
<1>5. (10 * k + l + m) * Modulus = 10 * (k * Modulus) + l * Modulus + m * Modulus
  BY <1>1
<1>6. 10 * k + l + m \in Int /\ 10 * a + d - x = (10 * k + l + m) * Modulus
  BY <1>1, <1>2, <1>3, <1>4, <1>5
<1> QED
  BY <1>6 DEF Same

-----------------------------------------------------------------------------
(* The digits of a number *)

\* What the recursive function in Decimal is at n.
DecimalAt(f, n) == IF n < 10 THEN <<n>> ELSE Append(f[n \div 10], n % 10)

IsDecimal(f) == f = [n \in Nat |-> DecimalAt(f, n)]

UpToIsDecimal(f, n) == \A i \in 0 .. n : f[i] = DecimalAt(f, i)

\* There is such a function.
LEMMA DecimalExists == \E f : IsDecimal(f)
<1>0. ASSUME NEW n \in Nat, n >= 10
      PROVE  n \div 10 \in Nat /\ n \div 10 < n
  <2>1. n \div 10 \in Nat /\ n - 10 * (n \div 10) = n % 10 /\ n % 10 \in 0 .. 9
    BY DivMod, DivOfNat
  <2> QED
    BY <1>0, <2>1
<1>1. ASSUME NEW n \in Nat
      PROVE  \E f : UpToIsDecimal(f, n)
  <2> DEFINE N == {i \in 0 .. n : \E f : UpToIsDecimal(f, i)}
  <2>1. 0 \in N
    <3>1. UpToIsDecimal([i \in {0} |-> <<i>>], 0)
      BY DEF UpToIsDecimal, DecimalAt
    <3> QED
      BY <3>1
  <2>2. ASSUME NEW i \in 0 .. n - 1, i \in N
        PROVE  i + 1 \in N
    <3>1. PICK f : UpToIsDecimal(f, i)
      BY <2>2
    <3> DEFINE g == [k \in 0 .. i + 1 |-> IF k = i + 1 THEN DecimalAt(f, k) ELSE f[k]]
    <3>2. ASSUME NEW k \in 0 .. i + 1
          PROVE  g[k] = DecimalAt(g, k)
      <4>1. g[k] = DecimalAt(f, k)
        BY <3>1 DEF UpToIsDecimal
      <4>2. k >= 10 => g[k \div 10] = f[k \div 10]
        <5>1. k >= 10 => k \div 10 \in 0 .. i
          BY <1>0
        <5> QED
          BY <5>1
      <4> HIDE DEF g
      <4> QED
        BY <4>1, <4>2 DEF DecimalAt
    <3> HIDE DEF g
    <3>3. UpToIsDecimal(g, i + 1)
      BY <3>2 DEF UpToIsDecimal
    <3>4. i + 1 \in 0 .. n
      OBVIOUS
    <3> QED
      BY <3>3, <3>4
  <2> HIDE DEF N
  <2>3. 0 .. n \subseteq N
    BY <2>1, <2>2, UpTo
  <2>4. n \in N
    BY <2>3
  <2> QED
    BY <2>4 DEF N
<1>2. ASSUME NEW n \in Nat, NEW f, NEW g, UpToIsDecimal(f, n), UpToIsDecimal(g, n)
      PROVE  f[n] = g[n]
  <2> DEFINE S == {i \in 0 .. n : f[i] # g[i]}
  <2>1. SUFFICES ASSUME S # {} PROVE FALSE
    OBVIOUS
  <2>2. PICK i \in S : \A j \in S : i <= j
    <3>1. S \subseteq Nat
      OBVIOUS
    <3> HIDE DEF S
    <3> QED
      BY <2>1, <3>1, NatHasLeast
  <2>3. f[i] = DecimalAt(f, i) /\ g[i] = DecimalAt(g, i) /\ i \in Nat
    BY <1>2 DEF UpToIsDecimal
  <2>4. i >= 10 => f[i \div 10] = g[i \div 10]
    <3>1. i >= 10 => i \div 10 \in 0 .. n /\ i \div 10 < i
      BY <1>0, <2>3
    <3>2. i >= 10 => i \div 10 \notin S
      BY <2>2, <2>3, <3>1
    <3> QED
      BY <3>1, <3>2
  <2> QED
    BY <2>2, <2>3, <2>4 DEF DecimalAt
<1> DEFINE Some(n) == CHOOSE f : UpToIsDecimal(f, n)
           F == [n \in Nat |-> Some(n)[n]]
<1>3. \A n \in Nat : UpToIsDecimal(Some(n), n)
  BY <1>1
<1> HIDE DEF Some
<1>4. ASSUME NEW n \in Nat
      PROVE  F[n] = DecimalAt(F, n)
  <2>1. F[n] = DecimalAt(Some(n), n)
    BY <1>3 DEF UpToIsDecimal
  <2>2. ASSUME n >= 10 PROVE F[n \div 10] = Some(n)[n \div 10]
    <3> DEFINE t == n \div 10
    <3>1. t \in Nat /\ t < n
      BY <1>0, <2>2
    <3> HIDE DEF t
    <3>2. UpToIsDecimal(Some(n), t) /\ UpToIsDecimal(Some(t), t)
      BY <1>3, <3>1 DEF UpToIsDecimal
    <3>3. Some(n)[t] = Some(t)[t]
      BY <1>2, <3>1, <3>2
    <3> QED
      BY <3>1, <3>3 DEF t
  <2> HIDE DEF F
  <2> QED
    BY <2>1, <2>2 DEF DecimalAt
<1>5. F = [n \in Nat |-> F[n]]
  OBVIOUS
<1> HIDE DEF F
<1> QED
  BY <1>4, <1>5 DEF IsDecimal

Dec == CHOOSE f : IsDecimal(f)

\* The digits of n are those of n \div 10 and n % 10.
LEMMA DecIs ==
    ASSUME NEW n \in Nat
    PROVE  Dec[n] = IF n < 10 THEN <<n>> ELSE Append(Dec[n \div 10], n % 10)
<1>1. IsDecimal(Dec)
  BY DecimalExists DEF Dec
<1> QED
  BY <1>1 DEF IsDecimal, DecimalAt

LEMMA DecimalIs ==
    ASSUME NEW v
    PROVE  Decimal(v) = IF v < 0 THEN <<Minus>> \o Dec[-v] ELSE Dec[v]
BY DEF Decimal, Dec, IsDecimal, DecimalAt

\* They are digits, one at least.
LEMMA DecDigits ==
    ASSUME NEW n \in Nat
    PROVE  Dec[n] \in Seq(Digits) /\ Len(Dec[n]) >= 1
<1> DEFINE S == {i \in Nat : ~(Dec[i] \in Seq(Digits) /\ Len(Dec[i]) >= 1)}
<1>1. SUFFICES ASSUME S # {} PROVE FALSE
  OBVIOUS
<1>2. PICK i \in S : \A j \in S : i <= j
  <2>1. S \subseteq Nat
    OBVIOUS
  <2> HIDE DEF S
  <2> QED
    BY <1>1, <2>1, NatHasLeast
<1>3. Dec[i] = IF i < 10 THEN <<i>> ELSE Append(Dec[i \div 10], i % 10)
  BY DecIs
<1>4. CASE i < 10
  <2>1. Dec[i] = <<i>> /\ i \in Digits
    BY <1>3, <1>4 DEF Digits
  <2>2. Dec[i] \in Seq(Digits) /\ Len(Dec[i]) = 1
    BY <2>1
  <2> QED
    BY <2>2
<1>5. CASE i >= 10
  <2> DEFINE t == i \div 10
             d == i % 10
  <2>1. t \in Nat /\ d \in 0 .. 9 /\ i - 10 * t = d
    BY DivMod, DivOfNat
  <2>2. Dec[i] = Append(Dec[t], d)
    BY <1>3, <1>5
  <2> HIDE DEF t, d
  <2>3. t \notin S
    BY <1>2, <1>5, <2>1
  <2>4. Dec[t] \in Seq(Digits) /\ Len(Dec[t]) >= 1
    BY <2>1, <2>3
  <2>5. Dec[i] \in Seq(Digits) /\ Len(Dec[i]) >= 1
    BY <2>1, <2>2, <2>4 DEF Digits
  <2> QED
    BY <2>5
<1> QED
  BY <1>4, <1>5

\* The powers of ten: the least set with 1 and ten times each of its members.
Tens == {n \in Nat \ {0} :
            \A S \in SUBSET Nat : 1 \in S /\ (\A k \in S : 10 * k \in S) => n \in S}

LEMMA TensIs ==
    /\ 1 \in Tens
    /\ \A n \in Tens : n \in Nat \ {0} /\ 10 * n \in Tens
    /\ \A n \in Tens : n # 1 => n >= 10 /\ n \div 10 \in Tens /\ n = 10 * (n \div 10)
<1>1. 1 \in Tens
  BY DEF Tens
<1>2. ASSUME NEW n \in Tens
      PROVE  n \in Nat \ {0} /\ 10 * n \in Tens
  <2>1. n \in Nat \ {0} /\ 10 * n \in Nat \ {0}
    BY DEF Tens
  <2>2. ASSUME NEW S \in SUBSET Nat, 1 \in S, \A k \in S : 10 * k \in S
        PROVE  10 * n \in S
    <3>1. n \in S
      BY <2>2 DEF Tens
    <3> QED
      BY <2>2, <3>1
  <2> QED
    BY <2>1, <2>2 DEF Tens
<1>3. ASSUME NEW n \in Tens, n # 1
      PROVE  \E k \in Tens : n = 10 * k
  <2> DEFINE S == {1} \cup {i \in Nat : \E k \in Tens : i = 10 * k}
  <2>1. S \in SUBSET Nat /\ 1 \in S
    OBVIOUS
  <2>2. ASSUME NEW k \in S PROVE 10 * k \in S
    <3>1. k \in Tens /\ 10 * k \in Nat
      BY <1>1, <1>2
    <3> QED
      BY <3>1
  <2> HIDE DEF S
  <2>3. n \in S
    BY <2>1, <2>2 DEF Tens
  <2> QED
    BY <1>3, <2>3 DEF S
<1>4. ASSUME NEW n \in Tens, n # 1
      PROVE  n >= 10 /\ n \div 10 \in Tens /\ n = 10 * (n \div 10)
  <2>1. PICK k \in Tens : n = 10 * k
    BY <1>3, <1>4
  <2>2. k \in Nat \ {0}
    BY <1>2
  <2>3. n \div 10 = k
    BY <2>1, <2>2
  <2> QED
    BY <2>1, <2>2, <2>3
<1> QED
  BY <1>1, <1>2, <1>4

Begins(s, t) ==
    /\ Len(s) <= Len(t)
    /\ \A i \in 1 .. Len(s) : s[i] = t[i]

\* The digits of n that are left when it is divided by a power of ten are the
\* first ones of n.
LEMMA DecBegins ==
    ASSUME NEW n \in Nat, NEW m \in Tens, m = 1 \/ m <= n
    PROVE  /\ Begins(Dec[n \div m], Dec[n])
           /\ m # 1 => Len(Dec[n \div m]) < Len(Dec[n])
<1> DEFINE Shown(k) == /\ Begins(Dec[n \div k], Dec[n])
                       /\ k # 1 => Len(Dec[n \div k]) < Len(Dec[n])
           S == {k \in Tens : k = 1 \/ k <= n => Shown(k)}
<1>1. 1 \in S
  <2>1. n \div 1 = n
    OBVIOUS
  <2>2. Shown(1)
    <3>1. Len(Dec[n]) \in Nat
      BY DecDigits
    <3> QED
      BY <2>1, <3>1 DEF Begins
  <2> HIDE DEF Shown
  <2> QED
    BY <2>2, TensIs
<1>2. ASSUME NEW k \in S PROVE 10 * k \in S
  <2>1. k \in Tens /\ k \in Nat \ {0} /\ 10 * k \in Tens /\ (k = 1 \/ k <= n => Shown(k))
    BY TensIs
  <2>2. ASSUME 10 * k <= n PROVE Shown(10 * k)
    <3> DEFINE q == n \div k
               q2 == q \div 10
               d == q % 10
    <3>1. Shown(k)
      <4>1. k <= n
        BY <2>1, <2>2
      <4> HIDE DEF Shown
      <4> QED
        BY <2>1, <4>1
    <3>2. q \in Nat /\ q >= 10
      BY <2>1, <2>2, DivOfNat
    <3>3. n \div (10 * k) = q2
      BY <2>1, DivByTen
    <3>4. Begins(Dec[q], Dec[n]) /\ Len(Dec[q]) <= Len(Dec[n])
      BY <3>1 DEF Begins
    <3>5. Dec[q] = Append(Dec[q2], d)
      <4> HIDE DEF q
      <4>1. ~(q < 10)
        BY <3>2
      <4>2. Dec[q] = IF q < 10 THEN <<q>> ELSE Append(Dec[q \div 10], q % 10)
        BY <3>2, DecIs
      <4> QED
        BY <4>1, <4>2
    <3>6. q2 \in Nat /\ d \in 0 .. 9
      <4> HIDE DEF q
      <4> QED
        BY <3>2, DivMod, DivOfNat
    <3> HIDE DEF q, q2, d
    <3>7. Dec[q2] \in Seq(Digits) /\ Dec[n] \in Seq(Digits) /\ Dec[q] \in Seq(Digits)
      BY <3>2, <3>6, DecDigits
    <3>8. Len(Dec[q]) = Len(Dec[q2]) + 1 /\ \A i \in 1 .. Len(Dec[q2]) : Dec[q][i] = Dec[q2][i]
      BY <3>5, <3>6, <3>7 DEF Digits
    <3>9. Len(Dec[q2]) < Len(Dec[n]) /\ Begins(Dec[q2], Dec[n])
      <4>1. Len(Dec[q2]) \in Nat /\ Len(Dec[n]) \in Nat /\ Len(Dec[q]) \in Nat
        BY <3>7
      <4>2. Len(Dec[q2]) < Len(Dec[n])
        BY <3>4, <3>8, <4>1
      <4>3. ASSUME NEW i \in 1 .. Len(Dec[q2]) PROVE Dec[q2][i] = Dec[n][i]
        <5>1. i \in 1 .. Len(Dec[q])
          BY <3>8, <4>1
        <5> QED
          BY <3>4, <3>8, <5>1 DEF Begins
      <4> QED
        BY <4>1, <4>2, <4>3 DEF Begins
    <3> QED
      BY <3>3, <3>9
  <2>3. 10 * k # 1
    BY <2>1
  <2> HIDE DEF Shown
  <2> QED
    BY <2>1, <2>2, <2>3
<1>3. S \in SUBSET Nat
  BY TensIs
<1> HIDE DEF S
<1>4. m \in S
  BY <1>1, <1>2, <1>3 DEF Tens
<1> QED
  BY <1>4 DEF S

-----------------------------------------------------------------------------
(* Recursive functions of a position *)

\* Step by step there is a function on 0 .. n.
Steps(f, n, b, G) == f[0] = b /\ \A i \in 1 .. n : f[i] = G[i][f[i - 1]]

LEMMA StepByStep ==
    ASSUME NEW n \in Nat, NEW X, NEW b \in X, NEW G \in [1 .. n -> [X -> X]]
    PROVE  \E f \in [0 .. n -> X] : Steps(f, n, b, G)
<1> DEFINE Upto(f, k) == f[0] = b /\ \A i \in 1 .. k : f[i] = G[i][f[i - 1]]
           N == {k \in 0 .. n : \E f \in [0 .. k -> X] : Upto(f, k)}
<1>1. 0 \in N
  <2> DEFINE g == [i \in 0 .. 0 |-> b]
  <2>1. g \in [0 .. 0 -> X] /\ Upto(g, 0) /\ 0 \in 0 .. n
    OBVIOUS
  <2> HIDE DEF g, Upto
  <2> QED
    BY <2>1
<1>2. ASSUME NEW k \in 0 .. n - 1, k \in N
      PROVE  k + 1 \in N
  <2>1. PICK f \in [0 .. k -> X] : Upto(f, k)
    BY <1>2
  <2> DEFINE x == G[k + 1][f[k]]
             g == [i \in 0 .. k + 1 |-> IF i = k + 1 THEN x ELSE f[i]]
  <2>2. k + 1 \in 1 .. n /\ f[k] \in X /\ k \in Nat
    BY <2>1
  <2>3. x \in X
    BY <2>2
  <2>x. x = G[k + 1][f[k]]
    OBVIOUS
  <2> HIDE DEF x
  <2>4. g \in [0 .. k + 1 -> X]
    BY <2>1, <2>3
  <2>5. /\ \A i \in 0 .. k : g[i] = f[i]
        /\ g[k + 1] = x
    BY <2>2
  <2> HIDE DEF g
  <2>6. g[0] = b
    BY <2>1, <2>2, <2>5
  <2>7. ASSUME NEW i \in 1 .. k + 1 PROVE g[i] = G[i][g[i - 1]]
    <3>1. CASE i = k + 1
      <4>1. g[i - 1] = f[k]
        BY <2>2, <2>5, <3>1
      <4> QED
        BY <2>x, <2>5, <3>1, <4>1
    <3>2. CASE i # k + 1
      <4>1. i \in 1 .. k /\ i \in 0 .. k /\ i - 1 \in 0 .. k
        BY <2>2, <3>2
      <4>2. g[i] = f[i] /\ g[i - 1] = f[i - 1] /\ f[i] = G[i][f[i - 1]]
        BY <2>1, <2>5, <4>1
      <4> QED
        BY <4>2
    <3> QED
      BY <3>1, <3>2
  <2> QED
    BY <2>2, <2>4, <2>6, <2>7
<1> HIDE DEF N
<1>3. 0 .. n \subseteq N
  BY <1>1, <1>2, UpTo
<1>4. n \in N
  BY <1>3
<1> QED
  BY <1>4 DEF N, Steps

\* The number that digits stand for, as ParsedModulo has it.
IsValue(f, s) == f = [i \in 0 .. Len(s) |-> IF i = 0 THEN 0 ELSE 10 * f[i - 1] + s[i]]
ValueOf(s) == (CHOOSE f : IsValue(f, s))[Len(s)]

LEMMA ValueExists ==
    ASSUME NEW s \in Seq(Int)
    PROVE  \E f \in [0 .. Len(s) -> Int] : IsValue(f, s)
<1> DEFINE G == [i \in 1 .. Len(s) |-> [x \in Int |-> 10 * x + s[i]]]
<1>1. Len(s) \in Nat /\ G \in [1 .. Len(s) -> [Int -> Int]]
  OBVIOUS
<1>2. \A i \in 1 .. Len(s), x \in Int : G[i][x] = 10 * x + s[i]
  OBVIOUS
<1> HIDE DEF G
<1>3. PICK f \in [0 .. Len(s) -> Int] :
         f[0] = 0 /\ \A i \in 1 .. Len(s) : f[i] = G[i][f[i - 1]]
  <2>1. \E f \in [0 .. Len(s) -> Int] : Steps(f, Len(s), 0, G)
    BY <1>1, 0 \in Int, StepByStep, Zenon
  <2> QED
    BY <2>1 DEF Steps
<1>4. ASSUME NEW i \in 0 .. Len(s)
      PROVE  f[i] = IF i = 0 THEN 0 ELSE 10 * f[i - 1] + s[i]
  <2>1. i # 0 => i \in 1 .. Len(s) /\ i - 1 \in 0 .. Len(s)
    BY <1>1
  <2>2. i # 0 => f[i - 1] \in Int
    BY <2>1
  <2> QED
    BY <1>2, <1>3, <2>1, <2>2
<1>5. f = [i \in 0 .. Len(s) |-> f[i]]
  OBVIOUS
<1>6. IsValue(f, s)
  BY <1>4, <1>5 DEF IsValue
<1> QED
  BY <1>6

LEMMA ValueSteps ==
    ASSUME NEW s \in Seq(Int), NEW f, IsValue(f, s)
    PROVE  /\ f[0] = 0 /\ \A i \in 1 .. Len(s) : f[i] = 10 * f[i - 1] + s[i]
           /\ \A i \in 0 .. Len(s) : f[i] \in Int
<1>1. Len(s) \in Nat
  OBVIOUS
<1>2. f[0] = 0 /\ \A i \in 1 .. Len(s) : f[i] = 10 * f[i - 1] + s[i]
  BY <1>1 DEF IsValue
<1> DEFINE N == {k \in 0 .. Len(s) : f[k] \in Int}
<1>3. 0 \in N
  BY <1>1, <1>2
<1>4. ASSUME NEW k \in 0 .. Len(s) - 1, k \in N PROVE k + 1 \in N
  <2>1. k + 1 \in 1 .. Len(s) /\ (k + 1) - 1 = k
    BY <1>1
  <2>2. f[k + 1] = 10 * f[k] + s[k + 1]
    BY <1>2, <2>1
  <2> QED
    BY <1>4, <2>1, <2>2
<1> HIDE DEF N
<1>5. 0 .. Len(s) \subseteq N
  BY <1>1, <1>3, <1>4, UpTo
<1> QED
  BY <1>2, <1>5 DEF N

\* Another digit behind s.
LEMMA ValueIs ==
    ASSUME NEW s \in Seq(Int), NEW d \in Int
    PROVE  /\ ValueOf(s) \in Int /\ (s = <<>> => ValueOf(s) = 0)
           /\ ValueOf(Append(s, d)) = 10 * ValueOf(s) + d
<1> DEFINE t == Append(s, d)
           f == CHOOSE h : IsValue(h, s)
           g == CHOOSE h : IsValue(h, t)
<1>1. /\ Len(s) \in Nat /\ t \in Seq(Int) /\ Len(t) = Len(s) + 1 /\ t[Len(s) + 1] = d
      /\ \A i \in 1 .. Len(s) : t[i] = s[i]
  OBVIOUS
<1> HIDE DEF t
<1>2. IsValue(f, s) /\ IsValue(g, t)
  BY <1>1, ValueExists
<1>3. ValueOf(s) = f[Len(s)] /\ ValueOf(t) = g[Len(t)]
  BY DEF ValueOf
<1> HIDE DEF f, g
<1>4. /\ f[0] = 0 /\ \A i \in 1 .. Len(s) : f[i] = 10 * f[i - 1] + s[i]
      /\ g[0] = 0 /\ \A i \in 1 .. Len(t) : g[i] = 10 * g[i - 1] + t[i]
      /\ \A i \in 0 .. Len(s) : f[i] \in Int
  BY <1>1, <1>2, ValueSteps
<1> DEFINE N == {k \in 0 .. Len(s) : f[k] = g[k]}
<1>5. 0 \in N
  BY <1>1, <1>4
<1>6. ASSUME NEW k \in 0 .. Len(s) - 1, k \in N PROVE k + 1 \in N
  <2>1. k + 1 \in 1 .. Len(s) /\ k + 1 \in 1 .. Len(t) /\ (k + 1) - 1 = k
    BY <1>1
  <2>2. f[k + 1] = 10 * f[k] + s[k + 1] /\ g[k + 1] = 10 * g[k] + t[k + 1]
    BY <1>4, <2>1
  <2> QED
    BY <1>1, <1>6, <2>1, <2>2
<1> HIDE DEF N
<1>7. 0 .. Len(s) \subseteq N
  BY <1>1, <1>5, <1>6, UpTo
<1>8. f[Len(s)] = g[Len(s)]
  BY <1>1, <1>7 DEF N
<1>9. g[Len(t)] = 10 * g[Len(s)] + d
  <2>1. Len(t) \in 1 .. Len(t) /\ Len(t) - 1 = Len(s)
    BY <1>1
  <2> QED
    BY <1>1, <1>4, <2>1
<1>10. s = <<>> => f[Len(s)] = 0
  BY <1>4
<1>11. f[Len(s)] \in Int
  BY <1>1, <1>4
<1> QED
  BY <1>3, <1>8, <1>9, <1>10, <1>11 DEF t

\* The digits of n stand for n.
LEMMA ValueOfDec ==
    ASSUME NEW n \in Nat
    PROVE  ValueOf(Dec[n]) = n
<1> DEFINE S == {i \in Nat : ValueOf(Dec[i]) # i}
<1>1. SUFFICES ASSUME S # {} PROVE FALSE
  OBVIOUS
<1>2. PICK i \in S : \A j \in S : i <= j
  <2>1. S \subseteq Nat
    OBVIOUS
  <2> HIDE DEF S
  <2> QED
    BY <1>1, <2>1, NatHasLeast
<1>3. Dec[i] = IF i < 10 THEN <<i>> ELSE Append(Dec[i \div 10], i % 10)
  BY DecIs
<1>4. CASE i < 10
  <2>1. Dec[i] = Append(<<>>, i)
    BY <1>3, <1>4
  <2>2. <<>> \in Seq(Int) /\ i \in Int
    OBVIOUS
  <2>3. ValueOf(Append(<<>>, i)) = 10 * ValueOf(<<>>) + i /\ ValueOf(<<>>) = 0
    BY <2>2, ValueIs
  <2>4. ValueOf(Dec[i]) = i
    BY <2>1, <2>3
  <2> QED
    BY <2>4
<1>5. CASE i >= 10
  <2> DEFINE t == i \div 10
             d == i % 10
  <2>1. t \in Nat /\ d \in 0 .. 9 /\ i - 10 * t = d
    BY DivMod, DivOfNat
  <2>2. Dec[i] = Append(Dec[t], d)
    BY <1>3, <1>5
  <2> HIDE DEF t, d
  <2>3. t \notin S
    BY <1>2, <1>5, <2>1
  <2>4. ValueOf(Dec[t]) = t
    BY <2>1, <2>3
  <2>5. Dec[t] \in Seq(Int)
    <3>1. Dec[t] \in Seq(Digits)
      BY <2>1, DecDigits
    <3> QED
      BY <3>1 DEF Digits
  <2>6. ValueOf(Append(Dec[t], d)) = 10 * t + d
    BY <2>1, <2>4, <2>5, ValueIs
  <2>7. ValueOf(Dec[i]) = i
    BY <2>1, <2>2, <2>6
  <2> QED
    BY <2>7
<1> QED
  BY <1>4, <1>5

-----------------------------------------------------------------------------
(* shttp_slice_parse_* of an integer *)

MinusAt(t) == signed /\ t # <<>> /\ t[1] = Minus
FirstOf(t) == IF MinusAt(t) THEN 2 ELSE 1
StopOf(t) == Min({i \in FirstOf(t) .. Len(t) : t[i] \notin Digits} \cup {Len(t) + 1})

\* The text is read from the first digit up to what is none.
LEMMA StopIs ==
    ASSUME NEW t \in Seq(Int)
    PROVE  /\ FirstOf(t) \in 1 .. 2 /\ FirstOf(t) <= Len(t) + 1
           /\ StopOf(t) \in FirstOf(t) .. Len(t) + 1
           /\ \A i \in FirstOf(t) .. StopOf(t) - 1 : t[i] \in Digits
           /\ StopOf(t) <= Len(t) => t[StopOf(t)] \notin Digits
<1> DEFINE S == {i \in FirstOf(t) .. Len(t) : t[i] \notin Digits} \cup {Len(t) + 1}
<1>1. Len(t) \in Nat /\ (t # <<>> => Len(t) >= 1)
  OBVIOUS
<1>2. FirstOf(t) \in 1 .. 2 /\ FirstOf(t) <= Len(t) + 1
  BY <1>1 DEF FirstOf, MinusAt
<1>3. S \subseteq Nat /\ S # {}
  BY <1>1, <1>2
<1>4. Min(S) \in S /\ \A i \in S : Min(S) <= i
  BY <1>3, MinIsLeast
<1>5. StopOf(t) = Min(S)
  BY DEF StopOf
<1>6. Min(S) \in FirstOf(t) .. Len(t) + 1
  BY <1>1, <1>2, <1>4
<1>7. Min(S) <= Len(t) => t[Min(S)] \notin Digits
  BY <1>1, <1>4
<1>8. ASSUME NEW i \in FirstOf(t) .. Min(S) - 1 PROVE t[i] \in Digits
  <2>1. i \in FirstOf(t) .. Len(t) /\ i < Min(S)
    BY <1>1, <1>2, <1>6
  <2> QED
    BY <1>1, <1>2, <1>4, <1>6, <2>1
<1> QED
  BY <1>2, <1>5, <1>6, <1>7, <1>8

IsSum(f, t) ==
    f = [i \in 0 .. Len(t) |-> IF i < FirstOf(t) THEN 0
                               ELSE Wrap(Wrap(f[i - 1] * 10) + t[i])]
SumOf(t) == CHOOSE f : IsSum(f, t)

LEMMA SumIs ==
    ASSUME signed \in Signs, NEW t \in Seq(Int)
    PROVE  /\ SumOf(t) \in [0 .. Len(t) -> Values]
           /\ \A i \in 0 .. Len(t) :
                SumOf(t)[i] = IF i < FirstOf(t) THEN 0
                              ELSE Wrap(Wrap(SumOf(t)[i - 1] * 10) + t[i])
<1> DEFINE Added(i, x) == IF i < FirstOf(t) THEN 0 ELSE Wrap(Wrap(x * 10) + t[i])
           G == [i \in 1 .. Len(t) |-> [x \in Int |-> Added(i, x)]]
<1>1. Len(t) \in Nat /\ FirstOf(t) \in 1 .. 2
  BY StopIs
<1>2. ASSUME NEW i \in 1 .. Len(t), NEW x \in Int
      PROVE  Added(i, x) \in Int /\ Added(i, x) \in Values
  <2>1. Wrap(x * 10) \in Int
    BY WrapIs
  <2>2. Wrap(x * 10) + t[i] \in Int
    BY <2>1
  <2>3. Wrap(Wrap(x * 10) + t[i]) \in Int /\ Wrap(Wrap(x * 10) + t[i]) \in Values
    BY <2>2, WrapIs
  <2> QED
    BY <2>3, ValuesAre
<1>3. G \in [1 .. Len(t) -> [Int -> Int]] /\ \A i \in 1 .. Len(t), x \in Int : G[i][x] = Added(i, x)
  <2>1. \A i \in 1 .. Len(t), x \in Int : Added(i, x) \in Int
    BY <1>2
  <2> HIDE DEF Added
  <2> QED
    BY <2>1
<1> HIDE DEF G
<1>4. PICK f \in [0 .. Len(t) -> Int] :
         f[0] = 0 /\ \A i \in 1 .. Len(t) : f[i] = G[i][f[i - 1]]
  <2>1. \E f \in [0 .. Len(t) -> Int] : Steps(f, Len(t), 0, G)
    BY <1>1, <1>3, 0 \in Int, StepByStep, Zenon
  <2> QED
    BY <2>1 DEF Steps
<1>5. ASSUME NEW i \in 0 .. Len(t)
      PROVE  f[i] = Added(i, f[i - 1])
  <2>1. CASE i = 0
    BY <1>1, <1>4, <2>1
  <2>2. CASE i # 0
    <3>1. i \in 1 .. Len(t) /\ i - 1 \in 0 .. Len(t)
      BY <1>1, <2>2
    <3>2. f[i - 1] \in Int
      BY <3>1
    <3> HIDE DEF Added
    <3> QED
      BY <1>3, <1>4, <3>1, <3>2
  <2> QED
    BY <2>1, <2>2
<1>6. f = [i \in 0 .. Len(t) |-> f[i]]
  OBVIOUS
<1>7. IsSum(f, t)
  BY <1>5, <1>6 DEF IsSum
<1>8. IsSum(SumOf(t), t)
  BY <1>7 DEF SumOf
<1> DEFINE g == SumOf(t)
<1>9. g = [i \in 0 .. Len(t) |-> Added(i, g[i - 1])]
  BY <1>8 DEF IsSum
<1> HIDE DEF g
<1>10. \A i \in 0 .. Len(t) : g[i] = Added(i, g[i - 1])
  BY <1>9
<1> DEFINE N == {i \in 0 .. Len(t) : g[i] \in Values}
<1>11. 0 \in N
  <2>1. g[0] = 0
    BY <1>1, <1>10
  <2> QED
    BY <1>1, <2>1, ValuesAre
<1>12. ASSUME NEW i \in 0 .. Len(t) - 1, i \in N PROVE i + 1 \in N
  <2>1. i + 1 \in 1 .. Len(t) /\ i + 1 \in 0 .. Len(t) /\ (i + 1) - 1 = i
    BY <1>1
  <2>2. g[i] \in Int
    BY <1>12, ValuesAre
  <2>3. g[i + 1] = Added(i + 1, g[i])
    <3> HIDE DEF Added
    <3> QED
      BY <1>10, <2>1
  <2>4. Added(i + 1, g[i]) \in Values
    BY <1>2, <2>1, <2>2
  <2> QED
    BY <2>1, <2>3, <2>4
<1>13. 0 .. Len(t) \subseteq N
  <2> HIDE DEF N
  <2> QED
    BY <1>1, <1>11, <1>12, UpTo
<1>14. g \in [0 .. Len(t) -> Values]
  <2> HIDE DEF Added
  <2> QED
    BY <1>9, <1>10, <1>13
<1> QED
  BY <1>10, <1>14 DEF g

\* What a parse returns; its number is the one of the digits, modulo the width.
LEMMA ParseIs ==
    ASSUME signed \in Signs, NEW t \in Seq(Int), NEW behind
    PROVE  LET r == ParseNumber(t, behind)
               value == ValueOf(SubSeq(t, FirstOf(t), StopOf(t) - 1))
           IN  /\ r.begin = StopOf(t) /\ r.out \in Values
               /\ r.status = IF t = <<>> THEN "SLICE_END"
                             ELSE IF StopOf(t) = FirstOf(t)
                                     /\ ~(MinusAt(t) /\ Len(t) = 1 /\ behind \in Digits)
                             THEN "VALUE_INVALID" ELSE "OK"
               /\ value \in Int
               /\ Same(r.out, IF MinusAt(t) THEN -value ELSE value)
<1> DEFINE r == ParseNumber(t, behind)
           a == FirstOf(t)
           b == StopOf(t)
           s == SubSeq(t, a, b - 1)
           f == SumOf(t)
           n == f[b - 1]
<1>1. r = [status |-> IF t = <<>> THEN "SLICE_END"
                      ELSE IF b = a /\ ~(MinusAt(t) /\ Len(t) = 1 /\ behind \in Digits)
                      THEN "VALUE_INVALID" ELSE "OK",
           out |-> IF MinusAt(t) THEN Wrap(-n) ELSE n,
           begin |-> b]
  BY DEF ParseNumber, MinusAt, FirstOf, StopOf, SumOf, IsSum
<1>2. /\ a \in 1 .. 2 /\ b \in a .. Len(t) + 1 /\ Len(t) \in Nat
      /\ \A i \in a .. b - 1 : t[i] \in Digits
  BY StopIs
<1>3. /\ f \in [0 .. Len(t) -> Values]
      /\ \A i \in 0 .. Len(t) : f[i] = IF i < a THEN 0 ELSE Wrap(Wrap(f[i - 1] * 10) + t[i])
  BY SumIs
<1> HIDE DEF a, b, f, r
<1>4. s \in Seq(Int) /\ Len(s) = b - a /\ \A i \in 1 .. Len(s) : s[i] = t[a - 1 + i]
  <2>1. a \in 1 .. Len(t) + 1 /\ b - 1 \in a - 1 .. Len(t)
    BY <1>2
  <2> QED
    BY <1>2, <2>1
<1> HIDE DEF s
<1> DEFINE g == CHOOSE h : IsValue(h, s)
<1>5. IsValue(g, s) /\ ValueOf(s) = g[Len(s)]
  BY <1>4, ValueExists DEF ValueOf
<1> HIDE DEF g
<1>6. /\ g[0] = 0 /\ \A i \in 1 .. Len(s) : g[i] = 10 * g[i - 1] + s[i]
      /\ \A i \in 0 .. Len(s) : g[i] \in Int
  BY <1>4, <1>5, ValueSteps
<1> DEFINE N == {i \in 0 .. Len(s) : Same(g[i], f[a - 1 + i])}
<1>7. Len(s) \in Nat /\ \A i \in 0 .. Len(s) : a - 1 + i \in 0 .. Len(t)
  BY <1>2, <1>4
<1>8. 0 \in N
  <2>1. f[a - 1] = 0
    BY <1>2, <1>3
  <2>2. a - 1 + 0 = a - 1 /\ Same(0, 0)
    BY <1>2, SameIs
  <2> QED
    BY <1>6, <1>7, <2>1, <2>2
<1>9. ASSUME NEW i \in 0 .. Len(s) - 1, i \in N PROVE i + 1 \in N
  <2> DEFINE x == f[a - 1 + i]
             y == g[i]
             d == s[i + 1]
             x1 == f[a - 1 + (i + 1)]
             y1 == g[i + 1]
             w == Wrap(x * 10)
  <2>1. /\ i + 1 \in 1 .. Len(s) /\ i + 1 \in 0 .. Len(s) /\ i \in 0 .. Len(s)
        /\ (i + 1) - 1 = i /\ (a - 1 + (i + 1)) - 1 = a - 1 + i
        /\ ~(a - 1 + (i + 1) < a)
        /\ a - 1 + (i + 1) \in 0 .. Len(t) /\ a - 1 + i \in 0 .. Len(t)
    BY <1>2, <1>7
  <2>2. y1 = 10 * y + d
    BY <1>6, <2>1
  <2>3. d = t[a - 1 + (i + 1)] /\ d \in Int
    BY <1>4, <2>1
  <2>4. x1 = Wrap(w + d)
    BY <1>3, <2>1, <2>3
  <2>5. x \in Int /\ x \in Values
    BY <1>3, <2>1, ValuesAre
  <2>6. y \in Int /\ Same(y, x)
    BY <1>6, <1>9, <2>1
  <2> HIDE DEF x, y, d, x1, y1, w
  <2>7. w \in Int /\ Same(x * 10, w)
    BY <2>5, WrapIs DEF w
  <2>8. x1 \in Int /\ Same(w + d, x1)
    BY <2>3, <2>4, <2>7, WrapIs
  <2>9. Same(10 * y + d, x1)
    BY <2>3, <2>5, <2>6, <2>7, <2>8, SameStep
  <2> QED
    BY <2>1, <2>2, <2>9 DEF x1, y1
<1>10. Same(ValueOf(s), n) /\ ValueOf(s) \in Int
  <2>1. 0 .. Len(s) \subseteq N
    <3> HIDE DEF N
    <3> QED
      BY <1>7, <1>8, <1>9, UpTo
  <2>2. Len(s) \in 0 .. Len(s) /\ a - 1 + Len(s) = b - 1
    BY <1>2, <1>4
  <2> QED
    BY <1>5, <1>6, <2>1, <2>2
<1>11. n \in Values /\ n \in Int
  <2>1. b - 1 \in 0 .. Len(t)
    BY <1>2
  <2> QED
    BY <1>3, <2>1, ValuesAre
<1> HIDE DEF n
<1>12. CASE MinusAt(t)
  <2>1. r.out = Wrap(-n) /\ -n \in Int
    BY <1>1, <1>11, <1>12
  <2>2. Wrap(-n) \in Values /\ Wrap(-n) \in Int /\ Same(-n, Wrap(-n))
    BY <2>1, WrapIs
  <2>3. Same(Wrap(-n), -n) /\ Same(n, ValueOf(s))
    BY <1>10, <1>11, <2>1, <2>2, SameIs
  <2>4. Same(-n, -ValueOf(s))
    BY <1>10, <1>11, <2>3, SameIs
  <2>5. Same(Wrap(-n), -ValueOf(s))
    BY <1>10, <2>1, <2>2, <2>3, <2>4, SameIs
  <2>6. r.out \in Values /\ Same(r.out, -ValueOf(s))
    BY <2>1, <2>2, <2>5
  <2> QED
    BY <1>1, <1>10, <1>12, <2>6 DEF r, a, b, s
<1>13. CASE ~MinusAt(t)
  <2>1. r.out = n
    BY <1>1, <1>13
  <2>2. Same(n, ValueOf(s))
    BY <1>10, <1>11, SameIs
  <2> QED
    BY <1>1, <1>10, <1>11, <1>13, <2>1, <2>2 DEF r, a, b, s
<1> QED
  BY <1>12, <1>13

-----------------------------------------------------------------------------
(* The numbers: types.  mag is only ever divided by, never 0, when it is not *)
(* below ten: it is ten at first, and has grown only if the value is ten or  *)
(* more.                                                                     *)

NumInv ==
    /\ TypeOK
    /\ call # "idle" => writer = "insert" /\ ~parsed
    /\ call = "scale" => mag = 10 \/ val >= 10
    /\ call = "digits" => val >= 0
    /\ writer = "nobody" => ~parsed
    /\ ~parsed => begin = 1

LEMMA NumInvInit == Init => NumInv
<1> SUFFICES ASSUME Init PROVE NumInv
  OBVIOUS
<1>1. /\ signed \in Signs /\ call = "idle" /\ writer = "nobody" /\ parsed = FALSE
      /\ given = 0 /\ val = 0 /\ mag = 10 /\ room = 0
      /\ text = <<>> /\ out = 0 /\ begin = 1 /\ status = "OK"
  BY DEF Init
<1>2. 0 \in Values
  BY <1>1, ValuesAre
<1>3. 10 \in 0 .. MagModulus - 1 /\ 0 \in 0 .. MaxRoom
  BY NumbersAssumption
<1>4. text \in Seq(Int) /\ begin \in 1 .. Len(text) + 1
  BY <1>1
<1>5. TypeOK
  BY <1>1, <1>2, <1>3, <1>4 DEF TypeOK
<1> QED
  BY <1>1, <1>5 DEF NumInv

\* Values is about the family, signed or not.
LEMMA SameValues ==
    ASSUME signed' = signed
    PROVE  Values' = Values /\ MinVal' = MinVal /\ MaxVal' = MaxVal
           /\ \A n : Wrap(n)' = Wrap(n)
BY DEF Values, MinVal, MaxVal, Wrap

LEMMA InsertCallStep ==
    ASSUME NumInv, NEW v \in Values, NEW r \in 0 .. MaxRoom, InsertCall(v, r)
    PROVE  NumInv'
<1> DEFINE sign == IF v < 0 /\ r > 0 THEN <<Minus>> ELSE <<>>
<1>1. /\ writer = "nobody" /\ writer' = "insert" /\ given' = v /\ room' = r /\ text' = sign
      /\ val' = (IF sign # <<>> THEN Wrap(-v) ELSE v) /\ mag' = 10
      /\ \/ call' = "idle" /\ status' = "SLICE_END"
         \/ call' = "scale" /\ status' = status
      /\ signed' = signed /\ out' = out /\ begin' = begin /\ parsed' = parsed
  BY DEF InsertCall, Return
<1>2. TypeOK /\ ~parsed /\ begin = 1
  BY <1>1 DEF NumInv
<1>3. signed \in Signs
  BY <1>2 DEF TypeOK
<1>4. sign \in Seq(Int)
  BY DEF Minus
<1>5. v \in Int /\ -v \in Int
  BY <1>3, ValuesAre
<1>6. val' \in Values
  <2> HIDE DEF sign
  <2> QED
    BY <1>1, <1>3, <1>5, WrapIs
<1>7. 10 \in 0 .. MagModulus - 1
  BY NumbersAssumption
<1>8. begin' \in 1 .. Len(text') + 1
  <2> HIDE DEF sign
  <2> QED
    BY <1>1, <1>2, <1>4
<1> HIDE DEF sign
<1>9. TypeOK'
  BY <1>1, <1>2, <1>4, <1>6, <1>7, <1>8, SameValues DEF TypeOK
<1> QED
  BY <1>1, <1>2, <1>9 DEF NumInv

LEMMA ScaleStep == ASSUME NumInv, Scale PROVE NumInv'
<1>1. /\ call = "scale" /\ mag <= val /\ mag' = WrapMag(mag * 10)
      /\ UNCHANGED <<signed, call, given, val, room, text, status, out, begin, writer, parsed>>
  BY DEF Scale
<1>2. TypeOK /\ (mag = 10 \/ val >= 10)
  BY <1>1 DEF NumInv
<1>3. val >= 10
  BY <1>1, <1>2
<1>4. mag' \in 0 .. MagModulus - 1
  <2>1. mag * 10 \in Int /\ MagModulus \in Nat \ {0}
    BY <1>2, NumbersAssumption DEF TypeOK
  <2> QED
    BY <1>1, <2>1, DivMod DEF WrapMag
<1>5. TypeOK'
  BY <1>1, <1>2, <1>4, SameValues DEF TypeOK
<1> QED
  BY <1>1, <1>3, <1>5 DEF NumInv

\* A digit for a magnitude that is not 0.
LEMMA EmitStep ==
    ASSUME NumInv, call # "idle", NEW m \in 1 .. MagModulus - 1, Emit(m), val >= 0 \/ m = 1
    PROVE  NumInv' /\ val' >= 0
<1>1. /\ text' = Append(text, val \div m) /\ val' = val % m /\ mag' = m \div 10
      /\ call' = "digits"
      /\ UNCHANGED <<signed, given, room, status, out, begin, writer, parsed>>
  BY DEF Emit
<1>2. TypeOK /\ ~parsed /\ begin = 1 /\ m \in Nat \ {0} /\ writer = "insert"
  BY NumbersAssumption DEF NumInv
<1>3. signed \in Signs /\ val \in Values /\ text \in Seq(Int)
  BY <1>2 DEF TypeOK
<1>4. val \in Int
  BY <1>3, ValuesAre
<1>5. val \div m \in Int /\ val % m \in 0 .. m - 1
  BY <1>2, <1>4, DivMod
<1>6. val' \in 0 .. MaxVal
  <2>1. /\ MinVal \in Int /\ MaxVal \in Int /\ MaxVal >= 0 /\ val <= MaxVal
        /\ val' \in Nat
    BY <1>1, <1>3, <1>5, ValuesAre DEF Values
  <2>2. CASE val >= 0
    <3>1. val' <= val
      BY <1>1, <1>2, <1>4, <2>2, DivOfNat
    <3> QED
      BY <1>4, <2>1, <3>1
  <2>3. CASE m = 1
    BY <1>1, <1>5, <2>1, <2>3
  <2> QED
    BY <2>2, <2>3
<1>7. val' \in Values /\ val' >= 0
  BY <1>3, <1>6, ValuesAre
<1>8. mag' \in 0 .. MagModulus - 1
  <2>1. m \div 10 \in Nat /\ m \div 10 <= m
    BY <1>2, DivOfNat
  <2> QED
    BY <1>1, <2>1, NumbersAssumption
<1>9. text' \in Seq(Int) /\ begin' \in 1 .. Len(text') + 1
  <2>1. text' \in Seq(Int)
    BY <1>1, <1>3, <1>5
  <2> QED
    BY <1>1, <1>2, <2>1
<1>10. TypeOK'
  BY <1>1, <1>2, <1>7, <1>8, <1>9, SameValues DEF TypeOK
<1> QED
  BY <1>1, <1>2, <1>7, <1>10 DEF NumInv

\* The first digit: mag is above val, so it is ten or more.
LEMMA FirstDigitIs ==
    ASSUME NumInv, call = "scale", mag > val
    PROVE  /\ mag \div 10 \in 1 .. MagModulus - 1
           /\ val >= 0 \/ mag \div 10 = 1
<1>1. mag \in 0 .. MagModulus - 1 /\ val \in Int /\ (mag = 10 \/ val >= 10)
  <2>1. TypeOK
    BY DEF NumInv
  <2>2. val \in Int
    BY <2>1, ValuesAre DEF TypeOK
  <2> QED
    BY <2>1, <2>2 DEF NumInv, TypeOK
<1>2. mag \in Nat /\ mag >= 10 /\ MagModulus \in Nat
  BY <1>1, NumbersAssumption
<1>3. mag \div 10 \in Nat /\ mag \div 10 <= mag /\ mag \div 10 > 0
  BY <1>2, DivOfNat
<1>4. mag = 10 => mag \div 10 = 1
  OBVIOUS
<1>5. mag \div 10 \in 1 .. MagModulus - 1
  BY <1>1, <1>2, <1>3
<1> QED
  BY <1>1, <1>4, <1>5

LEMMA InsertStep == ASSUME NumInv, Insert PROVE NumInv'
<1>1. CASE Scale
  BY <1>1, ScaleStep
<1>2. CASE FirstDigit
  BY <1>2, FirstDigitIs, EmitStep DEF FirstDigit
<1>3. CASE NextDigit
  <2>1. mag \in 1 .. MagModulus - 1 /\ val >= 0
    BY <1>3, NumbersAssumption DEF NextDigit, NumInv, TypeOK
  <2> QED
    BY <1>3, <2>1, EmitStep DEF NextDigit
<1>4. CASE InsertReturn
  <2>1. /\ call = "digits" /\ call' = "idle" /\ status' \in {"OK", "SLICE_END"}
        /\ UNCHANGED <<job, text, out, begin, writer, parsed>>
    BY <1>4 DEF InsertReturn, Return
  <2>2. UNCHANGED <<signed, given, val, mag, room>>
    BY <2>1 DEF job
  <2>3. TypeOK'
    BY <2>1, <2>2, SameValues DEF NumInv, TypeOK
  <2> QED
    BY <2>1, <2>3 DEF NumInv
<1> QED
  BY <1>1, <1>2, <1>3, <1>4 DEF Insert

LEMMA ParseStep == ASSUME NumInv, Parse PROVE NumInv'
<1>1. /\ call = "idle" /\ writer # "nobody" /\ ~parsed /\ parsed' = TRUE
      /\ UNCHANGED <<call, job, text, writer>>
  BY DEF Parse
<1>2. UNCHANGED <<signed, given, val, mag, room>>
  BY <1>1 DEF job
<1>3. PICK behind \in {0, Minus} :
         LET r == ParseNumber(text, behind)
         IN  /\ status' = r.status /\ out' = IF r.status = "OK" THEN r.out ELSE out
             /\ begin' = IF r.status = "SLICE_END" THEN begin ELSE r.begin
  BY DEF Parse
<1> DEFINE r == ParseNumber(text, behind)
<1>4. TypeOK
  BY DEF NumInv
<1>5. signed \in Signs /\ text \in Seq(Int)
  BY <1>4 DEF TypeOK
<1>6. /\ r.begin = StopOf(text) /\ r.out \in Values
      /\ r.status \in {"OK", "SLICE_END", "VALUE_INVALID"}
  BY <1>5, ParseIs
<1> HIDE DEF r
<1>7. StopOf(text) \in 1 .. Len(text) + 1
  BY <1>5, StopIs
<1>8. /\ status' = r.status /\ out' = IF r.status = "OK" THEN r.out ELSE out
      /\ begin' = IF r.status = "SLICE_END" THEN begin ELSE r.begin
  BY <1>3 DEF r
<1>9. out' \in Values /\ begin' \in 1 .. Len(text) + 1 /\ status' \in {"OK", "SLICE_END", "VALUE_INVALID"}
  <2>1. out \in Values /\ begin \in 1 .. Len(text) + 1
    BY <1>4 DEF TypeOK
  <2> QED
    BY <1>6, <1>7, <1>8, <2>1
<1>10. TypeOK'
  BY <1>1, <1>2, <1>4, <1>9, SameValues DEF TypeOK
<1> QED
  BY <1>1, <1>10 DEF NumInv

LEMMA ReceiveStep == ASSUME NumInv, NEW t \in Texts, Receive(t) PROVE NumInv'
<1>1. /\ writer = "nobody" /\ writer' = "program" /\ text' = t
      /\ UNCHANGED <<call, job, status, out, begin, parsed>>
  BY DEF Receive
<1>2. UNCHANGED <<signed, given, val, mag, room>>
  BY <1>1 DEF job
<1>3. t \in Seq(Int) /\ TypeOK /\ begin = 1 /\ call = "idle" /\ ~parsed
  BY <1>1, NumbersAssumption DEF NumInv
<1>4. begin' \in 1 .. Len(text') + 1
  BY <1>1, <1>3
<1>5. TypeOK'
  BY <1>1, <1>2, <1>3, <1>4, SameValues DEF TypeOK
<1> QED
  BY <1>1, <1>3, <1>5 DEF NumInv

LEMMA ForgetStep == ASSUME NumInv, Forget PROVE NumInv'
<1>1. /\ signed' \in Signs /\ call' = "idle" /\ writer' = "nobody" /\ parsed' = FALSE
      /\ given' = 0 /\ val' = 0 /\ mag' = 10 /\ room' = 0
      /\ text' = <<>> /\ out' = 0 /\ begin' = 1 /\ status' = "OK"
  BY DEF Forget
<1>2. Init'
  BY <1>1 DEF Init
<1>3. (Init => NumInv)'
  BY NumInvInit, PTL
<1> QED
  BY <1>2, <1>3

LEMMA NumStutter == ASSUME NumInv, UNCHANGED vars PROVE NumInv'
<1>1. UNCHANGED <<signed, call, given, val, mag, room, text, status, out, begin, writer, parsed>>
  BY DEF vars
<1>2. TypeOK'
  BY <1>1, SameValues DEF NumInv, TypeOK
<1> QED
  BY <1>1, <1>2 DEF NumInv

LEMMA NumInvStep == NumInv /\ [Next]_vars => NumInv'
BY InsertCallStep, InsertStep, ParseStep, ReceiveStep, ForgetStep, NumStutter DEF Next

-----------------------------------------------------------------------------
(* The text an insert writes.  When it has written the digits of the value  *)
(* divided by some power m of ten, mag is m \div 10 and val what is left.   *)

Proper == given \in Printable
Abs == IF given < 0 THEN -given ELSE given
Sign == IF given < 0 THEN <<Minus>> ELSE <<>>

\* The first characters of the decimal text, as many as there is room for.
Fitting == SubSeq(Decimal(given), 1, Min({room, Len(Decimal(given))}))
Outcome == IF Len(Decimal(given)) <= room THEN "OK" ELSE "SLICE_END"

Scaling ==
    /\ mag \in Tens /\ mag # 1 /\ (mag = 10 \/ mag \div 10 <= Abs)
    /\ val = Abs /\ text = Sign /\ Len(text) < room
Writing ==
    /\ \E m \in Tens : /\ m = 1 \/ m <= Abs
                       /\ text = Sign \o Dec[Abs \div m]
                       /\ val = Abs % m /\ mag = m \div 10
    /\ Len(text) <= room

TextInv ==
    writer = "insert" /\ Proper =>
        /\ call = "scale" => Scaling
        /\ call = "digits" => Writing
        /\ call = "idle" => text = Fitting /\ (~parsed => status = Outcome)

LEMMA MinOfTwo ==
    ASSUME NEW a \in Nat, NEW b \in Nat
    PROVE  Min({a, b}) = IF a <= b THEN a ELSE b
<1>1. {a, b} \subseteq Nat /\ {a, b} # {}
  OBVIOUS
<1>2. Min({a, b}) \in {a, b} /\ \A y \in {a, b} : Min({a, b}) <= y
  BY <1>1, MinIsLeast
<1> QED
  BY <1>2

\* A sequence that another begins with is a part of it.
LEMMA BeginsIs ==
    ASSUME NEW s \in Seq(Int), NEW t \in Seq(Int), Begins(s, t)
    PROVE  s = SubSeq(t, 1, Len(s))
<1>1. Len(s) \in Nat /\ Len(s) <= Len(t) /\ \A i \in 1 .. Len(s) : s[i] = t[i]
  BY DEF Begins
<1> DEFINE u == SubSeq(t, 1, Len(s))
<1>2. u \in Seq(Int) /\ Len(u) = Len(s) /\ \A i \in 1 .. Len(s) : u[i] = t[i]
  BY <1>1
<1> HIDE DEF u
<1>3. \A i \in 1 .. Len(s) : s[i] = u[i]
  BY <1>1, <1>2
<1> QED
  BY <1>2, <1>3, SeqEqual DEF u

\* The decimal text is a minus sign, if there must be one, and digits.
LEMMA DecimalParts ==
    ASSUME NEW v \in Int
    PROVE  LET A == IF v < 0 THEN -v ELSE v
               S == IF v < 0 THEN <<Minus>> ELSE <<>>
           IN  /\ A \in Nat /\ S \in Seq(Int) /\ Len(S) \in 0 .. 1
               /\ Dec[A] \in Seq(Digits) /\ Dec[A] \in Seq(Int) /\ Len(Dec[A]) >= 1
               /\ Decimal(v) = S \o Dec[A] /\ Decimal(v) \in Seq(Int)
               /\ Len(Decimal(v)) = Len(S) + Len(Dec[A]) /\ Len(Decimal(v)) \in Nat
<1> DEFINE A == IF v < 0 THEN -v ELSE v
           S == IF v < 0 THEN <<Minus>> ELSE <<>>
<1>1. A \in Nat
  OBVIOUS
<1>2. S \in Seq(Int) /\ Len(S) \in 0 .. 1
  BY DEF Minus
<1>3. Dec[A] \in Seq(Digits) /\ Dec[A] \in Seq(Int) /\ Len(Dec[A]) >= 1
  <2>1. Dec[A] \in Seq(Digits) /\ Len(Dec[A]) >= 1
    BY <1>1, DecDigits
  <2> QED
    BY <2>1 DEF Digits
<1>4. Decimal(v) = S \o Dec[A]
  <2>1. CASE v < 0
    BY <2>1, DecimalIs
  <2>2. CASE ~(v < 0)
    <3>1. S = <<>> /\ A = v
      BY <2>2
    <3>2. <<>> \o Dec[A] = Dec[A]
      BY <1>3
    <3> QED
      BY <2>2, <3>1, <3>2, DecimalIs
  <2> QED
    BY <2>1, <2>2
<1> HIDE DEF S, A
<1>5. Decimal(v) \in Seq(Int) /\ Len(Decimal(v)) = Len(S) + Len(Dec[A]) /\ Len(Decimal(v)) \in Nat
  BY <1>2, <1>3, <1>4
<1> QED
  BY <1>1, <1>2, <1>3, <1>4, <1>5 DEF S, A

LEMMA DecimalOfGiven ==
    ASSUME TypeOK
    PROVE  /\ given \in Int /\ Abs \in Nat /\ Sign \in Seq(Int) /\ Len(Sign) \in 0 .. 1
           /\ Dec[Abs] \in Seq(Int) /\ Len(Dec[Abs]) >= 1
           /\ Decimal(given) = Sign \o Dec[Abs] /\ Decimal(given) \in Seq(Int)
           /\ Len(Decimal(given)) = Len(Sign) + Len(Dec[Abs])
           /\ Len(Decimal(given)) \in Nat /\ room \in Nat
           /\ Fitting = SubSeq(Decimal(given), 1,
                             IF room <= Len(Decimal(given)) THEN room ELSE Len(Decimal(given)))
<1>1. given \in Int /\ room \in Nat
  BY ValuesAre, NumbersAssumption DEF TypeOK
<1>2. /\ Abs \in Nat /\ Sign \in Seq(Int) /\ Len(Sign) \in 0 .. 1
      /\ Dec[Abs] \in Seq(Int) /\ Len(Dec[Abs]) >= 1
      /\ Decimal(given) = Sign \o Dec[Abs] /\ Decimal(given) \in Seq(Int)
      /\ Len(Decimal(given)) = Len(Sign) + Len(Dec[Abs]) /\ Len(Decimal(given)) \in Nat
  BY <1>1, DecimalParts DEF Abs, Sign
<1>8. Fitting = SubSeq(Decimal(given), 1,
                     IF room <= Len(Decimal(given)) THEN room ELSE Len(Decimal(given)))
  BY <1>1, <1>2, MinOfTwo DEF Fitting
<1> QED
  BY <1>1, <1>2, <1>8

\* What an insert that has returned must have written.
LEMMA FittingIs ==
    ASSUME TypeOK, NEW s \in Seq(Int), Begins(s, Decimal(given)), Len(s) <= room,
           s = Decimal(given) \/ (Len(s) = room /\ Len(s) < Len(Decimal(given)))
    PROVE  s = Fitting /\ Outcome = IF s = Decimal(given) THEN "OK" ELSE "SLICE_END"
<1>1. /\ Decimal(given) \in Seq(Int) /\ Len(Decimal(given)) \in Nat /\ room \in Nat
      /\ Fitting = SubSeq(Decimal(given), 1,
                        IF room <= Len(Decimal(given)) THEN room ELSE Len(Decimal(given)))
  BY DecimalOfGiven
<1>2. s = SubSeq(Decimal(given), 1, Len(s))
  BY <1>1, BeginsIs
<1> DEFINE t == Decimal(given)
           k == IF room <= Len(t) THEN room ELSE Len(t)
<1>3. Len(s) = k /\ (s = t => Len(t) <= room) /\ (s # t => Len(t) > room)
  BY <1>1
<1> QED
  BY <1>1, <1>2, <1>3 DEF Outcome

LEMMA FullIs ==
    TypeOK => \A s \in Seq(Int) :
        Begins(s, Decimal(given)) /\ Len(s) = room /\ Len(s) < Len(Decimal(given)) =>
            s = Fitting /\ Outcome = "SLICE_END"
<1> SUFFICES ASSUME TypeOK, NEW s \in Seq(Int), Begins(s, Decimal(given)),
                    Len(s) = room, Len(s) < Len(Decimal(given))
             PROVE  s = Fitting /\ Outcome = "SLICE_END"
  OBVIOUS
<1>1. Len(Decimal(given)) \in Nat /\ Len(s) \in Nat
  BY DecimalOfGiven
<1>2. s # Decimal(given) /\ Len(s) <= room
  BY <1>1
<1> QED
  BY <1>2, FittingIs

LEMMA AppendToBoth ==
    ASSUME NEW s \in Seq(Int), NEW t \in Seq(Int), NEW d \in Int
    PROVE  Append(s \o t, d) = s \o Append(t, d)
<1> DEFINE a == Append(s \o t, d)
           b == s \o Append(t, d)
<1>1. Len(s) \in Nat /\ Len(t) \in Nat /\ s \o t \in Seq(Int) /\ Append(t, d) \in Seq(Int)
  OBVIOUS
<1>2. /\ a \in Seq(Int) /\ Len(a) = Len(s) + Len(t) + 1
      /\ b \in Seq(Int) /\ Len(b) = Len(s) + Len(t) + 1
  BY <1>1
<1>3. ASSUME NEW i \in 1 .. Len(s) + Len(t) + 1 PROVE a[i] = b[i]
  <2>1. a[i] = IF i <= Len(s) + Len(t) THEN (s \o t)[i] ELSE d
    <3> DEFINE u == s \o t
    <3>1. u \in Seq(Int) /\ Len(u) = Len(s) + Len(t)
      BY <1>1
    <3> HIDE DEF u
    <3>2. Append(u, d)[i] = IF i <= Len(s) + Len(t) THEN u[i] ELSE d
      BY <1>1, <3>1
    <3> QED
      BY <3>2 DEF u
  <2>2. b[i] = IF i <= Len(s) THEN s[i] ELSE Append(t, d)[i - Len(s)]
    BY <1>1
  <2>3. i <= Len(s) + Len(t) => (s \o t)[i] = IF i <= Len(s) THEN s[i] ELSE t[i - Len(s)]
    BY <1>1
  <2>4. i > Len(s) => Append(t, d)[i - Len(s)] =
            IF i <= Len(s) + Len(t) THEN t[i - Len(s)] ELSE d
    BY <1>1
  <2> QED
    BY <1>1, <2>1, <2>2, <2>3, <2>4
<1> HIDE DEF a, b
<1>4. a = b
  BY <1>2, <1>3, SeqEqual
<1> QED
  BY <1>4 DEF a, b

\* TextInv is about the job and the text.
LEMMA SameText ==
    ASSUME UNCHANGED <<signed, given, room>>
    PROVE  /\ Proper' = Proper /\ Abs' = Abs /\ Sign' = Sign
           /\ Fitting' = Fitting /\ Outcome' = Outcome
BY DEF Proper, Printable, Values, MaxVal, MinVal, Abs, Sign, Fitting, Outcome, Decimal

LEMMA InsertCallText ==
    ASSUME NumInv, NumInv', NEW v \in Values, NEW r \in 0 .. MaxRoom, InsertCall(v, r)
    PROVE  TextInv'
<1> DEFINE sign == IF v < 0 /\ r > 0 THEN <<Minus>> ELSE <<>>
<1>1. /\ writer' = "insert" /\ given' = v /\ room' = r /\ text' = sign
      /\ val' = (IF sign # <<>> THEN Wrap(-v) ELSE v) /\ mag' = 10
      /\ \/ Len(sign) = r /\ call' = "idle" /\ status' = "SLICE_END"
         \/ Len(sign) # r /\ call' = "scale"
      /\ signed' = signed
  BY DEF InsertCall, Return
<1>2. SUFFICES ASSUME Proper'
               PROVE  (/\ call = "scale" => Scaling
                       /\ call = "digits" => Writing
                       /\ call = "idle" => text = Fitting /\ (~parsed => status = Outcome))'
  BY DEF TextInv
<1>3. signed \in Signs /\ v \in Int /\ r \in Nat /\ ~(signed /\ v = MinVal) /\ TypeOK'
  <2>1. signed \in Signs
    BY DEF NumInv, TypeOK
  <2> QED
    BY <1>1, <1>2, <2>1, ValuesAre, NumbersAssumption DEF Proper, Printable, MinVal, NumInv
<1>4. CASE call' = "scale"
  <2>1. Sign' = sign /\ Len(sign) \in 0 .. 1 /\ Len(sign) < r
    BY <1>1, <1>3, <1>4 DEF Sign
  <2>2. val' = Abs'
    <3>1. CASE v < 0
      <4>1. sign # <<>>
        BY <1>1, <1>3, <1>4, <3>1
      <4>2. -v \in Values /\ -v \in Int
        BY <1>3, <3>1, ValuesAre DEF Values
      <4>3. Wrap(-v) = -v
        BY <1>3, <4>2, WrapIs
      <4> QED
        BY <1>1, <3>1, <4>1, <4>3 DEF Abs
    <3>2. CASE ~(v < 0)
      BY <1>1, <3>2 DEF Abs
    <3> QED
      BY <3>1, <3>2
  <2> HIDE DEF sign
  <2>3. 10 \in Tens
    <3>1. 10 * 1 = 10
      OBVIOUS
    <3> QED
      BY <3>1, TensIs
  <2>4. Scaling'
    BY <1>1, <2>1, <2>2, <2>3 DEF Scaling
  <2> QED
    BY <1>4, <2>4
<1>5. CASE call' = "idle"
  <2>1. Len(sign) = r /\ status' = "SLICE_END"
    BY <1>1, <1>5
  <2>2. (/\ Dec[Abs] \in Seq(Int) /\ Len(Dec[Abs]) >= 1
         /\ Sign \in Seq(Int) /\ Len(Sign) \in 0 .. 1
         /\ Decimal(given) = Sign \o Dec[Abs] /\ Decimal(given) \in Seq(Int)
         /\ Len(Decimal(given)) = Len(Sign) + Len(Dec[Abs]))'
    <3>1. (TypeOK => (/\ Dec[Abs] \in Seq(Int) /\ Len(Dec[Abs]) >= 1
         /\ Sign \in Seq(Int) /\ Len(Sign) \in 0 .. 1
         /\ Decimal(given) = Sign \o Dec[Abs] /\ Decimal(given) \in Seq(Int)
         /\ Len(Decimal(given)) = Len(Sign) + Len(Dec[Abs])))'
      BY DecimalOfGiven, PTL
    <3> QED
      BY <1>3, <3>1
  <2>3. sign = <<>> \/ sign = Sign'
    BY <1>1 DEF Sign
  <2>4. sign \in Seq(Int) /\ Len(sign) \in 0 .. 1 /\ (sign = <<>> => Len(sign) = 0)
    BY DEF Minus
  <2> HIDE DEF sign
  <2>5. Len(sign) < Len(Decimal(given))' /\ Len(sign) <= room'
    BY <1>1, <1>3, <2>1, <2>2, <2>3, <2>4
  <2>6. Begins(sign, Decimal(given)')
    <3>1. CASE sign = <<>>
      BY <2>2, <2>4, <2>5, <3>1 DEF Begins
    <3>2. CASE sign = Sign'
      <4>1. \A i \in 1 .. Len(sign) : (Sign' \o Dec'[Abs'])[i] = Sign'[i]
        BY <2>2, <3>2
      <4> QED
        BY <2>2, <2>5, <3>2, <4>1 DEF Begins
    <3> QED
      BY <2>3, <3>1, <3>2
  <2>7. sign = Fitting' /\ Outcome' = "SLICE_END"
    <3>1. (TypeOK => \A s \in Seq(Int) :
              Begins(s, Decimal(given)) /\ Len(s) = room /\ Len(s) < Len(Decimal(given)) =>
                  s = Fitting /\ Outcome = "SLICE_END")'
      BY FullIs, PTL
    <3>2. Begins(sign, Decimal(given))' <=> Begins(sign, Decimal(given)')
      BY <1>1 DEF Begins, Decimal
    <3> QED
      BY <1>1, <1>3, <2>1, <2>4, <2>5, <2>6, <3>1, <3>2
  <2> QED
    BY <1>1, <1>5, <2>1, <2>7
<1> QED
  BY <1>1, <1>4, <1>5

\* mag does not overflow: it is at most ten times the value.
LEMMA ScaleText ==
    ASSUME NumInv, TextInv, Scale
    PROVE  TextInv'
<1>1. /\ call = "scale" /\ mag <= val /\ mag' = WrapMag(mag * 10)
      /\ UNCHANGED <<signed, call, given, val, room, text, status, out, begin, writer, parsed>>
  BY DEF Scale
<1>2. SUFFICES ASSUME writer = "insert", Proper PROVE Scaling'
  BY <1>1, SameText DEF TextInv
<1>3. Scaling /\ TypeOK
  BY <1>1, <1>2 DEF TextInv, NumInv
<1>4. mag \in Tens /\ mag \in Nat \ {0} /\ 10 * mag \in Tens /\ 10 * mag # 1
  BY <1>3, TensIs DEF Scaling
<1>5. val = Abs /\ val \in Int /\ MagModulus \in Nat \ {0}
  BY <1>3, ValuesAre, NumbersAssumption DEF Scaling, TypeOK
<1>6. 10 * val < MagModulus
  <2>1. signed \in Signs /\ given \in Values /\ 10 * given < MagModulus
    BY <1>2, <1>3 DEF TypeOK, Proper, Printable
  <2>2. CASE given >= 0
    <3>1. val = given
      BY <1>5, <2>1, <2>2, ValuesAre DEF Abs
    <3> QED
      BY <2>1, <3>1
  <2>3. CASE given < 0
    <3>1. signed
      BY <2>1, <2>3, ValuesAre DEF Values
    <3>2. TRUE \in Signs
      BY <2>1, <3>1, NumbersAssumption
    <3>3. 10 * Modulus <= MagModulus /\ Modulus \in Nat /\ MagModulus \in Nat
      BY <3>2, NumbersAssumption
    <3>4. val \in Values
      BY <1>3 DEF TypeOK
    <3>5. val < Modulus
      <4>1. MinVal \in Int /\ MaxVal \in Int /\ MaxVal < Modulus /\ Modulus \in Nat
        BY <2>1, ValuesAre
      <4> QED
        BY <1>5, <3>4, <4>1 DEF Values
    <3> QED
      BY <1>5, <3>3, <3>5
  <2>4. given \in Int
    BY <2>1, ValuesAre
  <2> QED
    BY <2>2, <2>3, <2>4
<1>7. mag' = 10 * mag
  <2>1. mag * 10 = 10 * mag /\ mag * 10 \in Nat /\ mag * 10 < MagModulus
    BY <1>1, <1>4, <1>5, <1>6
  <2> DEFINE n == mag * 10
  <2>2. n \in Nat /\ n < MagModulus
    BY <2>1
  <2> HIDE DEF n
  <2>3. n % MagModulus = n
    BY <1>5, <2>2, DivOfNat
  <2> QED
    BY <1>1, <2>1, <2>3 DEF WrapMag, n
<1>8. mag' \div 10 = mag
  BY <1>4, <1>7
<1> QED
  BY <1>1, <1>3, <1>4, <1>5, <1>7, <1>8, SameText DEF Scaling

LEMMA FirstDigitText ==
    ASSUME NumInv, TextInv, FirstDigit
    PROVE  TextInv'
<1> DEFINE m == mag \div 10
<1>1. /\ call = "scale" /\ mag > val
      /\ text' = Append(text, val \div m) /\ val' = val % m /\ mag' = m \div 10
      /\ call' = "digits" /\ UNCHANGED <<signed, given, room, status, out, begin, writer, parsed>>
  BY DEF FirstDigit, Emit
<1>2. SUFFICES ASSUME writer = "insert", Proper PROVE Writing'
  BY <1>1, SameText DEF TextInv
<1>3. Scaling /\ TypeOK
  BY <1>1, <1>2 DEF TextInv, NumInv
<1>4. m \in Tens /\ m \in Nat \ {0} /\ mag = 10 * m
  BY <1>3, TensIs DEF Scaling
<1>5. m = 1 \/ m <= Abs
  BY <1>3 DEF Scaling
<1> HIDE DEF m
<1>6. Abs \in Nat /\ Sign \in Seq(Int) /\ val = Abs /\ text = Sign /\ Len(text) < room /\ room \in Nat
  BY <1>3, DecimalOfGiven DEF Scaling
<1>7. Abs \div m \in 0 .. 9
  BY <1>1, <1>4, <1>6, DivOfNat
<1>8. Dec[Abs \div m] = <<Abs \div m>>
  <2> DEFINE d == Abs \div m
  <2>1. d \in Nat /\ d < 10
    BY <1>7
  <2> HIDE DEF d
  <2>2. Dec[d] = <<d>>
    BY <2>1, DecIs
  <2> QED
    BY <2>2 DEF d
<1>9. text' = Sign \o Dec[Abs \div m] /\ Len(text') <= room
  <2> DEFINE d == Abs \div m
  <2>1. d \in Int /\ Dec[d] = <<d>> /\ text' = Append(Sign, d)
    BY <1>1, <1>6, <1>7, <1>8
  <2> HIDE DEF d
  <2>2. text' = Sign \o <<d>> /\ Len(text') = Len(Sign) + 1
    BY <1>6, <2>1
  <2> QED
    BY <1>6, <2>1, <2>2 DEF d
<1>10. UNCHANGED <<Abs, Sign, room>>
  BY <1>1, SameText
<1>11. val' = Abs % m
  BY <1>1, <1>6
<1> QED
  BY <1>1, <1>4, <1>5, <1>9, <1>10, <1>11 DEF Writing

LEMMA NextDigitText ==
    ASSUME NumInv, TextInv, NextDigit
    PROVE  TextInv'
<1>1. /\ call = "digits" /\ mag # 0 /\ Len(text) < room
      /\ text' = Append(text, val \div mag) /\ val' = val % mag /\ mag' = mag \div 10
      /\ call' = "digits" /\ UNCHANGED <<signed, given, room, status, out, begin, writer, parsed>>
  BY DEF NextDigit, Emit
<1>2. SUFFICES ASSUME writer = "insert", Proper PROVE Writing'
  BY <1>1, SameText DEF TextInv
<1>3. Writing /\ TypeOK
  BY <1>1, <1>2 DEF TextInv, NumInv
<1>4. PICK m \in Tens : /\ m = 1 \/ m <= Abs
                        /\ text = Sign \o Dec[Abs \div m]
                        /\ val = Abs % m /\ mag = m \div 10
  BY <1>3 DEF Writing
<1>5. m # 1
  BY <1>1, <1>4
<1>6. mag \in Tens /\ m = 10 * mag /\ mag \in Nat \ {0} /\ m <= Abs
  BY <1>4, <1>5, TensIs
<1>7. Abs \in Nat /\ Sign \in Seq(Int) /\ room \in Nat
  BY <1>3, DecimalOfGiven
<1> DEFINE q == Abs \div mag
           q2 == q \div 10
           d == q % 10
<1>8. q \in Nat /\ q >= 10
  BY <1>6, <1>7, DivOfNat
<1>9. Abs \div m = q2 /\ val \div mag = d /\ val % mag = Abs % mag
  <2>1. /\ Abs \div (10 * mag) = (Abs \div mag) \div 10
        /\ (Abs % (10 * mag)) \div mag = (Abs \div mag) % 10
        /\ (Abs % (10 * mag)) % mag = Abs % mag
    BY <1>6, <1>7, DivByTen
  <2>2. m = 10 * mag /\ val = Abs % m
    BY <1>4, <1>6
  <2> QED
    BY <2>1, <2>2, Zenon
<1>10. Dec[q] = Append(Dec[q2], d)
  <2> HIDE DEF q
  <2>1. ~(q < 10)
    BY <1>8
  <2>2. Dec[q] = IF q < 10 THEN <<q>> ELSE Append(Dec[q \div 10], q % 10)
    BY <1>8, DecIs
  <2> QED
    BY <2>1, <2>2
<1>11. q2 \in Nat /\ d \in Int
  <2> HIDE DEF q
  <2> QED
    BY <1>8, DivMod, DivOfNat
<1> HIDE DEF q, q2, d
<1>12. Dec[q2] \in Seq(Int)
  <2>1. Dec[q2] \in Seq(Digits)
    BY <1>11, DecDigits
  <2> QED
    BY <2>1 DEF Digits
<1>13. text' = Sign \o Dec[q] /\ Len(text') <= room
  <2>1. text = Sign \o Dec[q2] /\ text' = Append(Sign \o Dec[q2], d)
    BY <1>1, <1>4, <1>9
  <2> DEFINE u == Dec[q2]
  <2>2. u \in Seq(Int) /\ text = Sign \o u /\ text' = Append(Sign \o u, d) /\ Dec[q] = Append(u, d)
    BY <1>10, <1>12, <2>1
  <2> HIDE DEF u
  <2>3. Append(Sign \o u, d) = Sign \o Append(u, d)
    BY <1>7, <1>11, <2>2, AppendToBoth
  <2>4. Len(text') = Len(text) + 1 /\ Len(text) \in Nat
    BY <1>7, <1>11, <2>2
  <2>5. text' = Sign \o Dec[q]
    BY <2>2, <2>3, Zenon
  <2>6. Len(text') <= room
    BY <1>1, <1>7, <2>4
  <2> QED
    BY <2>5, <2>6
<1>14. UNCHANGED <<Abs, Sign, room>>
  BY <1>1, SameText
<1>15. val' = Abs % mag /\ mag' = mag \div 10 /\ text' = Sign \o Dec[Abs \div mag]
  BY <1>1, <1>9, <1>13 DEF q
<1>16. /\ mag = 1 \/ mag <= Abs'
       /\ text' = Sign' \o Dec[Abs' \div mag]
       /\ val' = Abs' % mag /\ mag' = mag \div 10
  <2>1. mag <= Abs
    BY <1>6, <1>7
  <2> QED
    BY <1>14, <1>15, <2>1
<1>17. Len(text') <= room'
  BY <1>13, <1>14
<1> QED
  BY <1>6, <1>16, <1>17 DEF Writing

LEMMA InsertReturnText ==
    ASSUME NumInv, TextInv, InsertReturn
    PROVE  TextInv'
<1>1. /\ call = "digits" /\ call' = "idle"
      /\ \/ mag = 0 /\ status' = "OK"
         \/ mag # 0 /\ Len(text) = room /\ status' = "SLICE_END"
      /\ UNCHANGED <<text, writer, parsed>> /\ UNCHANGED <<signed, given, room>>
  BY DEF InsertReturn, Return, job
<1>2. SUFFICES ASSUME writer = "insert", Proper PROVE text = Fitting /\ status' = Outcome
  BY <1>1, SameText DEF TextInv
<1>3. Writing /\ TypeOK
  BY <1>1, <1>2 DEF TextInv, NumInv
<1>4. PICK m \in Tens : /\ m = 1 \/ m <= Abs
                        /\ text = Sign \o Dec[Abs \div m]
                        /\ val = Abs % m /\ mag = m \div 10
  BY <1>3 DEF Writing
<1>5. /\ Abs \in Nat /\ Sign \in Seq(Int) /\ Len(Sign) \in 0 .. 1 /\ room \in Nat
      /\ Decimal(given) = Sign \o Dec[Abs] /\ Dec[Abs] \in Seq(Int)
      /\ Len(Decimal(given)) = Len(Sign) + Len(Dec[Abs])
  BY <1>3, DecimalOfGiven
<1> DEFINE q == Abs \div m
<1>6. m \in Nat \ {0} /\ q \in Nat
  BY <1>5, TensIs, DivOfNat
<1>7. Begins(Dec[q], Dec[Abs]) /\ (m # 1 => Len(Dec[q]) < Len(Dec[Abs]))
  BY <1>4, <1>5, DecBegins
<1>8. Dec[q] \in Seq(Int)
  <2> HIDE DEF q
  <2>1. Dec[q] \in Seq(Digits)
    BY <1>6, DecDigits
  <2> QED
    BY <2>1 DEF Digits
<1>9. m = 1 => q = Abs
  BY <1>5
<1>10. text = Sign \o Dec[q]
  BY <1>4
<1> HIDE DEF q, Sign
<1>11. text \in Seq(Int) /\ Begins(text, Decimal(given)) /\ Len(text) = Len(Sign) + Len(Dec[q])
  <2>1. text \in Seq(Int) /\ Len(text) = Len(Sign) + Len(Dec[q])
    BY <1>5, <1>8, <1>10
  <2>2. Len(Dec[q]) <= Len(Dec[Abs]) /\ \A i \in 1 .. Len(Dec[q]) : Dec[q][i] = Dec[Abs][i]
    BY <1>7 DEF Begins
  <2>3. ASSUME NEW i \in 1 .. Len(text) PROVE text[i] = Decimal(given)[i]
    <3>1. text[i] = IF i <= Len(Sign) THEN Sign[i] ELSE Dec[q][i - Len(Sign)]
      BY <1>5, <1>8, <1>10, <2>1
    <3>2. Decimal(given)[i] = IF i <= Len(Sign) THEN Sign[i] ELSE Dec[Abs][i - Len(Sign)]
      BY <1>5, <1>8, <2>1, <2>2
    <3>3. i > Len(Sign) => i - Len(Sign) \in 1 .. Len(Dec[q])
      BY <1>5, <1>8, <2>1
    <3> QED
      BY <1>5, <2>2, <3>1, <3>2, <3>3
  <2>4. Len(Dec[q]) \in Nat /\ Len(Dec[Abs]) \in Nat
    BY <1>5, <1>8
  <2>5. Len(text) <= Len(Decimal(given))
    BY <1>5, <2>1, <2>2, <2>4
  <2> QED
    BY <2>1, <2>3, <2>5 DEF Begins
<1>12. Len(text) <= room
  BY <1>3 DEF Writing
<1>13. CASE mag = 0
  <2>1. m = 1
    BY <1>4, <1>6, <1>13, TensIs
  <2>2. text = Decimal(given)
    BY <1>5, <1>9, <1>10, <2>1
  <2> QED
    BY <1>1, <1>3, <1>11, <1>12, <1>13, <2>2, FittingIs
<1>14. CASE mag # 0
  <2>1. m # 1
    BY <1>4, <1>14
  <2>2. Len(text) = room /\ Len(text) < Len(Decimal(given)) /\ status' = "SLICE_END"
    BY <1>1, <1>5, <1>7, <1>8, <1>11, <1>14, <2>1
  <2> QED
    BY <1>3, <1>5, <1>11, <2>2, FullIs
<1> QED
  BY <1>13, <1>14

LEMMA TextInvInit == Init => TextInv
BY DEF Init, TextInv

LEMMA TextInvStep ==
    ASSUME NumInv, NumInv', TextInv, [Next]_vars
    PROVE  TextInv'
<1>1. CASE Insert
  BY <1>1, ScaleText, FirstDigitText, NextDigitText, InsertReturnText DEF Insert
<1>2. CASE Parse
  <2>1. /\ call = "idle" /\ call' = "idle" /\ parsed' = TRUE
        /\ UNCHANGED <<text, writer>> /\ UNCHANGED <<signed, given, room>>
    BY <1>2 DEF Parse, job
  <2> QED
    BY <2>1, SameText DEF TextInv
<1>3. CASE Forget
  BY <1>3 DEF Forget, TextInv
<1>4. ASSUME NEW t \in Texts, Receive(t) PROVE TextInv'
  BY <1>4 DEF Receive, TextInv
<1>5. CASE UNCHANGED vars
  <2>1. /\ UNCHANGED <<call, val, mag, text, status, writer, parsed>>
        /\ UNCHANGED <<signed, given, room>>
    BY <1>5 DEF vars
  <2>2. Scaling' = Scaling /\ Writing' = Writing
    BY <2>1, SameText DEF Scaling, Writing
  <2> QED
    BY <2>1, <2>2, SameText DEF TextInv
<1> QED
  BY <1>1, <1>2, <1>3, <1>4, <1>5, InsertCallText DEF Next

-----------------------------------------------------------------------------
(* What a parse gives *)

LEMMA SubSeqIs ==
    ASSUME NEW s \in Seq(Int), NEW a \in 1 .. Len(s) + 1, NEW b \in a - 1 .. Len(s)
    PROVE  /\ SubSeq(s, a, b) \in Seq(Int) /\ Len(SubSeq(s, a, b)) = b - a + 1
           /\ \A i \in 1 .. b - a + 1 : SubSeq(s, a, b)[i] = s[a - 1 + i]
OBVIOUS

\* Two values that are the same modulo the width are the same.
LEMMA SameValue ==
    ASSUME signed \in Signs, NEW a \in Values, NEW b \in Values, Same(a, b)
    PROVE  a = b
<1>1. /\ MinVal \in Int /\ MaxVal = MinVal + Modulus - 1 /\ Modulus \in Nat \ {0}
      /\ a \in Int /\ b \in Int /\ a \in MinVal .. MaxVal /\ b \in MinVal .. MaxVal
  BY ValuesAre DEF Values
<1>2. PICK k \in Int : a - b = k * Modulus
  BY DEF Same
<1>3. a - b < Modulus /\ a - b > -Modulus
  BY <1>1
<1>4. ~(k >= 1)
  <2>1. SUFFICES ASSUME k >= 1 PROVE FALSE
    OBVIOUS
  <2>2. k * Modulus >= Modulus
    BY <1>1, <2>1
  <2> QED
    BY <1>1, <1>2, <1>3, <2>2
<1>5. ~(k <= -1)
  <2>1. SUFFICES ASSUME k <= -1 PROVE FALSE
    OBVIOUS
  <2>2. k * Modulus <= -Modulus
    BY <1>1, <2>1
  <2> QED
    BY <1>1, <1>2, <1>3, <2>2
<1>6. k = 0
  BY <1>4, <1>5
<1> QED
  BY <1>1, <1>2, <1>6

\* The decimal text of a value parses as that value.
LEMMA ParseDecimal ==
    ASSUME signed \in Signs, NEW v \in Values, NEW behind
    PROVE  LET r == ParseNumber(Decimal(v), behind)
           IN  r.status = "OK" /\ r.out = v /\ r.begin = Len(Decimal(v)) + 1
<1> DEFINE t == Decimal(v)
           A == IF v < 0 THEN -v ELSE v
           S == IF v < 0 THEN <<Minus>> ELSE <<>>
           d == Dec[A]
           a == FirstOf(t)
           b == StopOf(t)
           s == SubSeq(t, a, b - 1)
           r == ParseNumber(t, behind)
<1>2. v \in Int
  BY ValuesAre
<1>1. /\ A \in Nat /\ S \in Seq(Int) /\ t \in Seq(Int)
      /\ d \in Seq(Int) /\ Len(d) >= 1 /\ t = S \o d /\ Len(t) = Len(S) + Len(d)
  BY <1>2, DecimalParts
<1>3. \A i \in 1 .. Len(d) : d[i] \in Digits
  <2>1. d \in Seq(Digits)
    BY <1>2, DecimalParts
  <2> QED
    BY <2>1
<1>x. /\ r.begin = b /\ r.out \in Values
      /\ r.status = IF t = <<>> THEN "SLICE_END"
                    ELSE IF b = a /\ ~(MinusAt(t) /\ Len(t) = 1 /\ behind \in Digits)
                    THEN "VALUE_INVALID" ELSE "OK"
      /\ Same(r.out, IF MinusAt(t) THEN -ValueOf(s) ELSE ValueOf(s))
  <2> HIDE DEF t
  <2> QED
    BY <1>1, ParseIs
<1>y. /\ a \in 1 .. 2 /\ a <= Len(t) + 1 /\ b \in a .. Len(t) + 1
      /\ b <= Len(t) => t[b] \notin Digits
  <2> HIDE DEF t
  <2> QED
    BY <1>1, StopIs
<1>z. d = Dec[A] /\ (MinusAt(t) <=> signed /\ t # <<>> /\ t[1] = Minus)
      /\ a = IF MinusAt(t) THEN 2 ELSE 1
  BY DEF MinusAt, FirstOf
<1>w. s = SubSeq(t, a, b - 1)
  OBVIOUS
<1>u. /\ A = IF v < 0 THEN -v ELSE v
      /\ S = IF v < 0 THEN <<Minus>> ELSE <<>>
  OBVIOUS
<1>v. Decimal(v) = t /\ r = ParseNumber(Decimal(v), behind)
  OBVIOUS
<1> HIDE DEF t, d, a, b, s, r, A, S
<1>4. \A i \in 1 .. Len(d) : t[Len(S) + i] = d[i]
  BY <1>1
<1>5. MinusAt(t) <=> v < 0
  <2>1. CASE v < 0
    <3>1. signed
      BY <2>1, ValuesAre DEF Values
    <3>2. S = <<Minus>>
      BY <1>u, <2>1
    <3>3. t[1] = Minus /\ t # <<>>
      BY <1>1, <3>2
    <3> QED
      BY <1>z, <2>1, <3>1, <3>3
  <2>2. CASE ~(v < 0)
    <3>1. S = <<>>
      BY <1>u, <2>2
    <3>2. t = d
      BY <1>1, <3>1
    <3>3. t[1] \in Digits
      BY <1>1, <1>3, <3>2
    <3>4. t[1] # Minus
      BY <3>3 DEF Digits, Minus
    <3> QED
      BY <1>z, <2>2, <3>4
  <2> QED
    BY <2>1, <2>2
<1>6. a = Len(S) + 1
  BY <1>5, <1>u, <1>z
<1>7. b = Len(t) + 1
  <2>1. Len(S) \in Nat /\ Len(d) \in Nat
    BY <1>1
  <2>2. SUFFICES ASSUME b <= Len(t) PROVE FALSE
    <3>1. Len(t) \in Nat /\ b \in a .. Len(t) + 1 /\ a \in 1 .. 2
      BY <1>1, <1>y
    <3> QED
      BY <3>1
  <2>3. b - Len(S) \in 1 .. Len(d) /\ Len(S) + (b - Len(S)) = b
    BY <1>1, <1>6, <1>y, <2>1, <2>2
  <2>4. t[b] = d[b - Len(S)]
    BY <1>4, <2>3
  <2> QED
    BY <1>3, <1>y, <2>2, <2>3, <2>4
<1>8. s = d
  <2>1. a \in 1 .. Len(t) + 1 /\ b - 1 = Len(t) /\ Len(S) \in Nat /\ Len(d) \in Nat
    BY <1>1, <1>7, <1>y
  <2>2. s \in Seq(Int) /\ Len(s) = Len(t) - a + 1 /\ \A i \in 1 .. Len(s) : s[i] = t[a - 1 + i]
    <3>1. Len(t) \in Nat /\ b - 1 \in a - 1 .. Len(t)
      BY <1>1, <2>1
    <3>2. /\ s \in Seq(Int) /\ Len(s) = (b - 1) - a + 1
          /\ \A i \in 1 .. (b - 1) - a + 1 : s[i] = t[a - 1 + i]
      BY <1>1, <1>w, <2>1, <3>1, SubSeqIs
    <3> QED
      BY <2>1, <3>2
  <2>3. Len(s) = Len(d) /\ \A i \in 1 .. Len(s) : s[i] = d[i]
    BY <1>1, <1>4, <1>6, <2>1, <2>2
  <2> QED
    BY <1>1, <2>2, <2>3, SeqEqual
<1>9. ValueOf(s) = A
  BY <1>1, <1>8, <1>z, ValueOfDec
<1>10. (IF MinusAt(t) THEN -ValueOf(s) ELSE ValueOf(s)) = v
  BY <1>1, <1>2, <1>5, <1>9, <1>u
<1>11. r.out = v
  BY <1>10, <1>x, SameValue
<1>12. r.status = "OK"
  <2>1. t # <<>>
    BY <1>1
  <2>2. b # a
    BY <1>1, <1>6, <1>7
  <2> QED
    BY <1>x, <2>1, <2>2
<1> QED
  BY <1>7, <1>11, <1>12, <1>v, <1>x

LEMMA ParseIsStep ==
    ASSUME NumInv, Parse
    PROVE  /\ \E behind : LET r == ParseNumber(text, behind)
                          IN  /\ status' = r.status
                              /\ out' = IF r.status = "OK" THEN r.out ELSE out
                              /\ begin' = IF r.status = "SLICE_END" THEN begin ELSE r.begin
           /\ call = "idle" /\ ~parsed /\ UNCHANGED <<text, writer>>
           /\ UNCHANGED <<signed, given, room>>
BY DEF Parse, job

LEMMA RoundTripStep ==
    ASSUME NumInv, NumInv', TextInv, RoundTrip, [Next]_vars
    PROVE  RoundTrip'
<1>1. CASE Parse
  <2>1. PICK behind : LET r == ParseNumber(text, behind)
                      IN  /\ status' = r.status
                          /\ out' = IF r.status = "OK" THEN r.out ELSE out
                          /\ begin' = IF r.status = "SLICE_END" THEN begin ELSE r.begin
    BY <1>1, ParseIsStep
  <2>2. call = "idle" /\ UNCHANGED <<text, writer, signed, given, room>> /\ Proper' = Proper
        /\ Decimal(given)' = Decimal(given)
    BY <1>1, ParseIsStep, SameText DEF Decimal
  <2>3. SUFFICES ASSUME writer = "insert", Len(Decimal(given)) <= room, Proper
                 PROVE  status' = "OK" /\ out' = given /\ begin' = Len(text) + 1
    BY <2>2 DEF RoundTrip, Proper, Printable
  <2>4. TypeOK /\ text = Fitting
    BY <2>2, <2>3 DEF NumInv, TextInv
  <2>5. text = Decimal(given)
    <3>1. /\ Fitting = SubSeq(Decimal(given), 1, Len(Decimal(given)))
          /\ Decimal(given) \in Seq(Int)
      <4>1. /\ Fitting = SubSeq(Decimal(given), 1,
                                IF room <= Len(Decimal(given)) THEN room ELSE Len(Decimal(given)))
            /\ Decimal(given) \in Seq(Int) /\ Len(Decimal(given)) \in Nat /\ room \in Nat
        BY <2>4, DecimalOfGiven
      <4>2. (IF room <= Len(Decimal(given)) THEN room ELSE Len(Decimal(given)))
                = Len(Decimal(given))
        BY <2>3, <4>1
      <4> QED
        BY <4>1, <4>2
    <3> DEFINE u == Decimal(given)
    <3>2. u \in Seq(Int) /\ text = SubSeq(u, 1, Len(u))
      BY <2>4, <3>1
    <3> HIDE DEF u
    <3>3. text = u
      BY <3>2
    <3> QED
      BY <3>3 DEF u
  <2> QED
    BY <2>1, <2>4, <2>5, ParseDecimal DEF TypeOK
<1>2. CASE ~Parse
  <2>1. CASE UNCHANGED vars
    <3>1. UNCHANGED <<signed, given, room>> /\ UNCHANGED <<text, begin, out, parsed, status, writer>>
      BY <2>1 DEF vars
    <3>2. Proper' = Proper
      BY <3>1, SameText
    <3> QED
      BY <3>1, <3>2 DEF RoundTrip, Decimal, Proper
  <2>2. CASE Next
    <3>1. ~parsed'
      BY <1>2, <2>2 DEF Next, NumInv, InsertCall, Receive, Insert, Scale, FirstDigit,
                        NextDigit, Emit, InsertReturn, Forget
    <3> QED
      BY <3>1 DEF RoundTrip
  <2> QED
    BY <2>1, <2>2
<1> QED
  BY <1>1, <1>2

\* The function in ParsedModulo is the one of ValueOf.
Modular(sg, t, b, o) ==
    LET minus == sg /\ t[1] = Minus
        number == SubSeq(t, IF minus THEN 2 ELSE 1, b - 1)
    IN  /\ b <= Len(t) => t[b] \notin 0 .. 9
        /\ Range(number) \subseteq 0 .. 9
        /\ (o - (IF minus THEN -ValueOf(number) ELSE ValueOf(number))) % Modulus = 0

LEMMA ParsedModuloIs ==
    ParsedModulo <=> (parsed /\ status = "OK" => Modular(signed, text, begin, out))
BY DEF ParsedModulo, Modular, ValueOf, IsValue

LEMMA ParsedModuloStep ==
    ASSUME NumInv, NumInv', ParsedModulo, [Next]_vars
    PROVE  ParsedModulo'
<1>1. CASE Parse
  <2>1. PICK behind : LET r == ParseNumber(text, behind)
                      IN  /\ status' = r.status
                          /\ out' = IF r.status = "OK" THEN r.out ELSE out
                          /\ begin' = IF r.status = "SLICE_END" THEN begin ELSE r.begin
    BY <1>1, ParseIsStep
  <2> DEFINE r == ParseNumber(text, behind)
             number == SubSeq(text, FirstOf(text), StopOf(text) - 1)
  <2>2. text' = text /\ signed' = signed
    BY <1>1, ParseIsStep
  <2>3. signed \in Signs /\ text \in Seq(Int)
    BY DEF NumInv, TypeOK
  <2>4. /\ r.begin = StopOf(text) /\ r.out \in Values
        /\ r.status = IF text = <<>> THEN "SLICE_END"
                      ELSE IF StopOf(text) = FirstOf(text)
                              /\ ~(MinusAt(text) /\ Len(text) = 1 /\ behind \in Digits)
                      THEN "VALUE_INVALID" ELSE "OK"
        /\ ValueOf(number) \in Int
        /\ Same(r.out, IF MinusAt(text) THEN -ValueOf(number) ELSE ValueOf(number))
    BY <2>3, ParseIs
  <2>5. SUFFICES ASSUME status' = "OK"
        PROVE  /\ begin' <= Len(text) => text[begin'] \notin Digits
               /\ Range(number) \subseteq Digits
               /\ (out' - (IF MinusAt(text) THEN -ValueOf(number) ELSE ValueOf(number))) % Modulus = 0
               /\ begin' = StopOf(text) /\ text # <<>>
    <3>1. (ParsedModulo <=> (parsed /\ status = "OK" => Modular(signed, text, begin, out)))'
      BY ParsedModuloIs, PTL
    <3> QED
      BY <2>2, <3>1 DEF Modular, MinusAt, FirstOf, Digits
  <2> HIDE DEF r
  <2>6. r.status = "OK" /\ out' = r.out /\ begin' = StopOf(text) /\ text # <<>>
    BY <2>1, <2>4, <2>5 DEF r
  <2>7. /\ FirstOf(text) \in 1 .. 2 /\ FirstOf(text) <= Len(text) + 1
        /\ StopOf(text) \in FirstOf(text) .. Len(text) + 1
        /\ \A i \in FirstOf(text) .. StopOf(text) - 1 : text[i] \in Digits
        /\ StopOf(text) <= Len(text) => text[StopOf(text)] \notin Digits
    BY <2>3, StopIs
  <2>8. Range(number) \subseteq Digits
    <3>1. /\ number \in Seq(Int) /\ Len(number) = StopOf(text) - FirstOf(text)
          /\ \A i \in 1 .. Len(number) : number[i] = text[FirstOf(text) - 1 + i]
      <4> DEFINE a == FirstOf(text)
                 b == StopOf(text) - 1
      <4>1. a \in 1 .. Len(text) + 1 /\ b \in a - 1 .. Len(text)
        BY <2>3, <2>7
      <4>2. b - a + 1 = StopOf(text) - a
        BY <2>7
      <4> HIDE DEF a, b
      <4>3. /\ SubSeq(text, a, b) \in Seq(Int) /\ Len(SubSeq(text, a, b)) = b - a + 1
            /\ \A i \in 1 .. b - a + 1 : SubSeq(text, a, b)[i] = text[a - 1 + i]
        BY <2>3, <4>1, SubSeqIs
      <4> QED
        BY <4>2, <4>3 DEF a, b
    <3>n. Len(text) \in Nat
      BY <2>3
    <3> HIDE DEF number
    <3>2. ASSUME NEW i \in 1 .. Len(number) PROVE number[i] \in Digits
      <4>1. FirstOf(text) - 1 + i \in FirstOf(text) .. StopOf(text) - 1
        BY <2>7, <3>1, <3>n
      <4> QED
        BY <2>7, <3>1, <4>1
    <3>3. DOMAIN number = 1 .. Len(number)
      BY <3>1
    <3> QED
      BY <3>2, <3>3 DEF Range
  <2> DEFINE value == IF MinusAt(text) THEN -ValueOf(number) ELSE ValueOf(number)
  <2>9. (out' - value) % Modulus = 0
    <3>1. value \in Int /\ r.out \in Int /\ Same(r.out, value)
      BY <2>3, <2>4, ValuesAre
    <3> HIDE DEF value
    <3> QED
      BY <2>6, <3>1, SameIs
  <2> QED
    BY <2>6, <2>7, <2>8, <2>9
<1>2. CASE ~Parse
  <2>1. CASE UNCHANGED vars
    <3>1. UNCHANGED <<signed, text, begin, out, parsed, status>>
      BY <2>1 DEF vars
    <3>2. (ParsedModulo <=> (parsed /\ status = "OK" => Modular(signed, text, begin, out)))'
      BY ParsedModuloIs, PTL
    <3> QED
      BY <3>1, <3>2, ParsedModuloIs
  <2>2. CASE Next
    <3>1. ~parsed'
      BY <1>2, <2>2 DEF Next, NumInv, InsertCall, Receive, Insert, Scale, FirstDigit,
                        NextDigit, Emit, InsertReturn, Forget
    <3> QED
      BY <3>1 DEF ParsedModulo
  <2> QED
    BY <2>1, <2>2
<1> QED
  BY <1>1, <1>2

-----------------------------------------------------------------------------
(* Theorems about numbers *)

\* A step of the formats changes nothing of the numbers, or is one of theirs.
LEMMA NumbersStep == [FormatsNext]_allVars => [Next]_vars
BY DEF FormatsNext, FormatInsert, FormatReread, FormatParse, FormatDone, allVars

LEMMA NumInvAlways == FormatsSpec => []NumInv
<1>1. FormatsInit => NumInv
  BY NumInvInit DEF FormatsInit
<1>2. NumInv /\ [FormatsNext]_allVars => NumInv'
  BY NumInvStep, NumbersStep
<1> QED
  BY <1>1, <1>2, PTL DEF FormatsSpec

LEMMA TextInvAlways == FormatsSpec => [](NumInv /\ TextInv)
<1>1. FormatsInit => TextInv
  BY TextInvInit DEF FormatsInit
<1>2. NumInv /\ NumInv' /\ TextInv /\ [FormatsNext]_allVars => TextInv'
  BY TextInvStep, NumbersStep
<1> QED
  BY <1>1, <1>2, NumInvAlways, PTL DEF FormatsSpec

\* shttp_slice_insert_u32, _u16, _u8, _i16 and _i8, in every width: an insert
\* of a printable value that has returned has written its decimal text, or as
\* much of it as there is room for, and its status tells which.  That is every
\* value but the least of the signed types, and of u32, whose magnitude is as
\* wide as its value and may overflow, those below a tenth of its width.
THEOREM NumbersWritten == FormatsSpec => []NumberText
<1>1. ASSUME NumInv, TextInv PROVE NumberText
  <2>1. SUFFICES ASSUME NEW v \in Printable,
                        call = "idle", writer = "insert", ~parsed, given = v
                 PROVE  /\ text = SubSeq(Decimal(v), 1, Min({room, Len(Decimal(v))}))
                        /\ status = IF Len(Decimal(v)) <= room THEN "OK" ELSE "SLICE_END"
    BY DEF NumberText, Written
  <2>2. Proper
    BY <2>1 DEF Proper
  <2> QED
    BY <1>1, <2>1, <2>2 DEF TextInv, Fitting, Outcome
<1>2. NumInv /\ TextInv => NumberText
  BY <1>1
<1> QED
  BY <1>2, TextInvAlways, PTL

\* shttp_slice_parse_* reads back all of what the insert of the same family
\* wrote in full, and gives the value that was inserted.
THEOREM NumbersReadBack == FormatsSpec => []RoundTrip
<1>1. FormatsInit => RoundTrip
  BY DEF FormatsInit, Init, RoundTrip
<1>2. NumInv /\ NumInv' /\ TextInv /\ RoundTrip /\ [FormatsNext]_allVars => RoundTrip'
  BY RoundTripStep, NumbersStep
<1> QED
  BY <1>1, <1>2, TextInvAlways, PTL DEF FormatsSpec

\* shttp_slice_parse_* of any text reads the longest run of digits and gives
\* what it stands for modulo the width, in every width.
THEOREM NumbersParsed == FormatsSpec => []ParsedModulo
<1>1. FormatsInit => ParsedModulo
  BY DEF FormatsInit, Init, ParsedModulo
<1>2. NumInv /\ NumInv' /\ ParsedModulo /\ [FormatsNext]_allVars => ParsedModulo'
  BY ParsedModuloStep, NumbersStep
<1> QED
  BY <1>1, <1>2, NumInvAlways, PTL DEF FormatsSpec

-----------------------------------------------------------------------------
(* Formats: the recursive functions.  A run is what is known behind symbol i *)
(* of a format, of an insert, of a parse or of texts put together.           *)

InsertRun(f, a, r) == [of |-> "insert", format |-> f, args |-> a, room |-> r]
ParseRun(f, t, behind) == [of |-> "parse", format |-> f, text |-> t, behind |-> behind]
TextRun(p) == [of |-> "text", pieces |-> p]

Start(run) ==
    IF run.of = "insert" THEN [text |-> <<>>, n |-> 1, status |-> "OK"]
    ELSE IF run.of = "parse" THEN [status |-> "OK", outs |-> <<>>, at |-> 1, run |-> 1]
    ELSE <<>>
After(run, m, i) ==
    IF run.of = "insert" THEN InsertSymbol(run.format, run.args, run.room, m, i)
    ELSE IF run.of = "parse" THEN ParseSymbol(run.format, run.text, run.behind, m, i)
    ELSE m \o run.pieces[i]

IsRun(g, run, n) ==
    g = [i \in 0 .. n |-> IF i = 0 THEN Start(run) ELSE After(run, g[i - 1], i)]
Run(run, n) == CHOOSE g : IsRun(g, run, n)

LEMMA RunExists ==
    ASSUME NEW run, NEW n \in Nat
    PROVE  \E g : IsRun(g, run, n)
<1> DEFINE N == {k \in 0 .. n : \E g : IsRun(g, run, k)}
<1>1. 0 \in N
  <2>1. IsRun([i \in 0 .. 0 |-> Start(run)], run, 0)
    BY DEF IsRun
  <2> QED
    BY <2>1
<1>2. ASSUME NEW k \in 0 .. n - 1, k \in N PROVE k + 1 \in N
  <2>1. PICK g : IsRun(g, run, k)
    BY <1>2
  <2> DEFINE x == After(run, g[k], k + 1)
             h == [i \in 0 .. k + 1 |-> IF i = k + 1 THEN x ELSE g[i]]
  <2>2. ASSUME NEW i \in 0 .. k + 1
        PROVE  h[i] = IF i = 0 THEN Start(run) ELSE After(run, h[i - 1], i)
    <3>1. CASE i = k + 1
      <4>1. h[i] = x /\ i # 0 /\ i - 1 = k /\ k \in 0 .. k + 1 /\ k # k + 1
        BY <3>1
      <4>2. h[i - 1] = g[k]
        BY <4>1
      <4> QED
        BY <3>1, <4>1, <4>2
    <3>2. CASE i # k + 1
      <4>1. i \in 0 .. k /\ h[i] = g[i]
        BY <3>2
      <4>2. g[i] = IF i = 0 THEN Start(run) ELSE After(run, g[i - 1], i)
        BY <2>1, <4>1 DEF IsRun
      <4>3. i # 0 => h[i - 1] = g[i - 1]
        BY <4>1
      <4> HIDE DEF h
      <4> QED
        BY <4>1, <4>2, <4>3
    <3> QED
      BY <3>1, <3>2
  <2>3. h = [i \in 0 .. k + 1 |-> h[i]]
    OBVIOUS
  <2> HIDE DEF h
  <2>4. h = [i \in 0 .. k + 1 |-> IF i = 0 THEN Start(run) ELSE After(run, h[i - 1], i)]
    BY <2>2, <2>3
  <2>5. IsRun(h, run, k + 1) /\ k + 1 \in 0 .. n
    BY <2>4 DEF IsRun
  <2> QED
    BY <2>5
<1> HIDE DEF N
<1>3. 0 .. n \subseteq N
  BY <1>1, <1>2, UpTo
<1>4. n \in N
  BY <1>3
<1> QED
  BY <1>4 DEF N

LEMMA RunIs ==
    ASSUME NEW run, NEW n \in Nat
    PROVE  /\ Run(run, n)[0] = Start(run)
           /\ \A i \in 1 .. n : Run(run, n)[i] = After(run, Run(run, n)[i - 1], i)
<1>1. IsRun(Run(run, n), run, n)
  BY RunExists DEF Run
<1> QED
  BY <1>1 DEF IsRun

\* There is one such function.
LEMMA RunUnique ==
    ASSUME NEW run, NEW n \in Nat, NEW g, IsRun(g, run, n)
    PROVE  g = Run(run, n)
<1> DEFINE h == Run(run, n)
           N == {i \in 0 .. n : g[i] = h[i]}
<1>1. IsRun(h, run, n)
  BY RunExists DEF Run
<1> HIDE DEF h
<1>2. /\ g = [i \in 0 .. n |-> g[i]] /\ h = [i \in 0 .. n |-> h[i]]
  BY <1>1 DEF IsRun
<1>3. /\ g[0] = Start(run) /\ h[0] = Start(run)
      /\ \A i \in 1 .. n : g[i] = After(run, g[i - 1], i) /\ h[i] = After(run, h[i - 1], i)
  BY <1>1 DEF IsRun
<1>4. 0 \in N
  BY <1>3
<1>5. ASSUME NEW k \in 0 .. n - 1, k \in N PROVE k + 1 \in N
  <2>1. k + 1 \in 1 .. n /\ k + 1 \in 0 .. n /\ (k + 1) - 1 = k /\ g[k] = h[k]
    BY <1>5
  <2>2. g[k + 1] = After(run, g[k], k + 1) /\ h[k + 1] = After(run, h[k], k + 1)
    BY <1>3, <2>1
  <2> QED
    BY <2>1, <2>2
<1>6. 0 .. n \subseteq N
  <2> HIDE DEF N
  <2> QED
    BY <1>4, <1>5, UpTo
<1>7. \A i \in 0 .. n : g[i] = h[i]
  BY <1>6
<1> QED
  BY <1>2, <1>7 DEF h

\* InsertFormat and ParseFormat are at the end of their runs.
LEMMA InsertFormatIs ==
    ASSUME NEW f, NEW a, NEW r, Len(f) \in Nat
    PROVE  InsertFormat(f, a, r) = Run(InsertRun(f, a, r), Len(f))[Len(f)]
<1> DEFINE run == InsertRun(f, a, r)
           Is(g) == g = [i \in 0 .. Len(f) |->
                            IF i = 0 THEN [text |-> <<>>, n |-> 1, status |-> "OK"]
                            ELSE InsertSymbol(f, a, r, g[i - 1], i)]
<1>1. /\ Start(run) = [text |-> <<>>, n |-> 1, status |-> "OK"]
      /\ \A m, i : After(run, m, i) = InsertSymbol(f, a, r, m, i)
  BY DEF InsertRun, Start, After
<1>2. \A g : Is(g) <=> IsRun(g, run, Len(f))
  BY <1>1 DEF IsRun
<1>3. InsertFormat(f, a, r) = (CHOOSE g : Is(g))[Len(f)]
  BY DEF InsertFormat
<1> HIDE DEF Is, run
<1>4. Is(CHOOSE g : Is(g))
  BY <1>2, RunExists
<1>5. (CHOOSE g : Is(g)) = Run(run, Len(f))
  BY <1>2, <1>4, RunUnique
<1> QED
  BY <1>3, <1>5 DEF run

LEMMA ParseFormatIs ==
    ASSUME NEW f, NEW t, NEW behind, Len(f) \in Nat
    PROVE  LET m == Run(ParseRun(f, t, behind), Len(f) + 1)[Len(f) + 1]
           IN  ParseFormat(f, t, behind) =
                  [status |-> m.status, outs |-> m.outs,
                   at |-> IF m.status = "OK" THEN m.at ELSE 1]
<1> DEFINE run == ParseRun(f, t, behind)
           Is(g) == g = [q \in 0 .. Len(f) + 1 |->
                            IF q = 0 THEN [status |-> "OK", outs |-> <<>>, at |-> 1, run |-> 1]
                            ELSE ParseSymbol(f, t, behind, g[q - 1], q)]
           m == (CHOOSE g : Is(g))[Len(f) + 1]
<1>1. /\ Start(run) = [status |-> "OK", outs |-> <<>>, at |-> 1, run |-> 1]
      /\ \A x, i : After(run, x, i) = ParseSymbol(f, t, behind, x, i)
  BY DEF ParseRun, Start, After
<1>2. \A g : Is(g) <=> IsRun(g, run, Len(f) + 1)
  BY <1>1 DEF IsRun
<1>3. ParseFormat(f, t, behind) =
          [status |-> m.status, outs |-> m.outs, at |-> IF m.status = "OK" THEN m.at ELSE 1]
  BY DEF ParseFormat
<1>x. Len(f) + 1 \in Nat
  OBVIOUS
<1> HIDE DEF Is, run
<1>4. Is(CHOOSE g : Is(g))
  BY <1>2, <1>x, RunExists
<1>5. (CHOOSE g : Is(g)) = Run(run, Len(f) + 1)
  BY <1>2, <1>4, <1>x, RunUnique
<1> QED
  BY <1>3, <1>5 DEF run

-----------------------------------------------------------------------------
(* The format the program uses, and the text it stands for *)

\* A format and the arguments the program gives it.
Using ==
    /\ signed \in Signs /\ format \in Formats /\ space \in Nat
    /\ args \in [1 .. Cardinality(DirectivesOf(format)) ->
                    {a \in Arguments : a.num \in Printable}]

LEMMA FormatIs ==
    ASSUME format \in Formats
    PROVE  /\ format \in Seq(Int) /\ Len(format) \in Nat /\ DOMAIN format = 1 .. Len(format)
           /\ \A i \in 1 .. Len(format) :
                /\ format[i] \in Int /\ format[i] # Open
                /\ Literal(format[i]) \/ format[i] \in Symbols
                /\ format[i] = Unclosed => i = Len(format)
<1>1. /\ format \in Seq(Int) /\ Open \notin Range(format)
      /\ \A i \in DOMAIN format : Literal(format[i]) \/ format[i] \in Symbols
      /\ \A i \in DOMAIN format : format[i] = Unclosed => i = Len(format)
  BY FormatsAssumption
<1>2. Len(format) \in Nat /\ DOMAIN format = 1 .. Len(format)
  BY <1>1
<1>3. \A i \in 1 .. Len(format) : format[i] \in Int /\ format[i] # Open
  BY <1>1, <1>2 DEF Range
<1> QED
  BY <1>1, <1>2, <1>3

\* A symbol is one thing only.
LEMMA SymbolIs ==
    ASSUME format \in Formats, NEW i \in 1 .. Len(format)
    PROVE  /\ Literal(format[i]) => format[i] \notin Symbols
           /\ format[i] \in Directives <=> format[i] = NumDir \/ format[i] = SliceDir
           /\ i \in DirectivesOf(format) <=> format[i] \in Directives
           /\ i \in Faulty <=> format[i] = BadDir \/ format[i] = Unclosed
           /\ i \notin Faulty /\ ~Literal(format[i]) /\ format[i] \notin Directives =>
                format[i] = Escape
<1> DEFINE x == format[i]
<1>1. DOMAIN format = 1 .. Len(format) /\ x \in Int /\ (Literal(x) \/ x \in Symbols)
  BY FormatIs
<1>2. /\ i \in DirectivesOf(format) <=> x \in Directives
      /\ i \in Faulty <=> x = BadDir \/ x = Unclosed
  BY <1>1 DEF DirectivesOf, Faulty
<1> HIDE DEF x
<1>3. Literal(x) => x \notin Symbols
  BY <1>1 DEF Literal, Symbols, Directives, Escape, NumDir, SliceDir, BadDir, Unclosed
<1>4. x \in Directives <=> x = NumDir \/ x = SliceDir
  BY DEF Directives
<1>5. ~Literal(x) /\ x \notin Directives /\ x # BadDir /\ x # Unclosed => x = Escape
  BY <1>1 DEF Symbols
<1> QED
  BY <1>2, <1>3, <1>4, <1>5 DEF x

\* How many directives there are up to i.
LEMMA NthIs ==
    ASSUME format \in Formats
    PROVE  /\ Nth(0) = 0 /\ \A i \in 0 .. Len(format) : Nth(i) \in Nat
           /\ \A i \in 1 .. Len(format) :
                Nth(i) = IF format[i] \in Directives THEN Nth(i - 1) + 1 ELSE Nth(i - 1)
           /\ \A i \in 0 .. Len(format) : \A j \in i .. Len(format) : Nth(i) <= Nth(j)
           /\ Nth(Len(format)) = Cardinality(DirectivesOf(format))
<1> DEFINE n == Len(format)
           D(i) == {k \in DirectivesOf(format) : k <= i}
<1>1. format \in Seq(Int) /\ n \in Nat /\ DOMAIN format = 1 .. n
  BY FormatIs
<1>2. \A i \in Nat : IsFiniteSet(D(i)) /\ Nth(i) = Cardinality(D(i)) /\ Nth(i) \in Nat
  <2> TAKE i \in Nat
  <2>1. IsFiniteSet(1 .. n) /\ D(i) \in SUBSET (1 .. n)
    BY <1>1, FS_Interval DEF DirectivesOf
  <2> HIDE DEF D
  <2>2. IsFiniteSet(D(i))
    BY <2>1, FS_Subset
  <2>3. Cardinality(D(i)) \in Nat
    BY <2>2, FS_CardinalityType
  <2> QED
    BY <2>2, <2>3 DEF Nth, D
<1>3. D(0) = {}
  BY <1>1 DEF DirectivesOf
<1>4. ASSUME NEW i \in 1 .. n
      PROVE  Nth(i) = IF format[i] \in Directives THEN Nth(i - 1) + 1 ELSE Nth(i - 1)
  <2>1. i - 1 \in Nat /\ i \in Nat /\ i \notin D(i - 1)
    BY <1>1
  <2>2. CASE format[i] \in Directives
    <3>1. D(i) = D(i - 1) \cup {i}
      BY <1>1, <2>2 DEF DirectivesOf
    <3> HIDE DEF D
    <3>2. /\ IsFiniteSet(D(i - 1)) /\ Nth(i) = Cardinality(D(i))
          /\ Nth(i - 1) = Cardinality(D(i - 1))
      BY <1>2, <2>1
    <3>3. Cardinality(D(i - 1) \cup {i}) = Cardinality(D(i - 1)) + 1
      BY <2>1, <3>2, FS_AddElement
    <3> QED
      BY <2>2, <3>1, <3>2, <3>3
  <2>3. CASE format[i] \notin Directives
    <3>1. D(i) = D(i - 1)
      BY <1>1, <2>3 DEF DirectivesOf
    <3> HIDE DEF D
    <3> QED
      BY <1>2, <2>1, <2>3, <3>1
  <2> QED
    BY <2>2, <2>3
<1>5. ASSUME NEW i \in 0 .. n, NEW j \in i .. n PROVE Nth(i) <= Nth(j)
  <2>1. i \in Nat /\ j \in Nat /\ D(i) \in SUBSET D(j)
    BY <1>1 DEF DirectivesOf
  <2> HIDE DEF D
  <2> QED
    BY <1>2, <2>1, FS_Subset
<1>6. D(n) = DirectivesOf(format)
  BY <1>1 DEF DirectivesOf
<1>7. Nth(0) = 0
  <2> HIDE DEF D
  <2> QED
    BY <1>2, <1>3, FS_EmptySet
<1> HIDE DEF D
<1> QED
  BY <1>1, <1>2, <1>4, <1>5, <1>6, <1>7

\* The argument of a directive.
LEMMA ArgIs ==
    ASSUME Using, NEW i \in 1 .. Len(format), format[i] \in Directives
    PROVE  /\ Nth(i) \in 1 .. Nth(Len(format)) /\ Nth(i) = Nth(i - 1) + 1
           /\ args[Nth(i)].num \in Printable /\ args[Nth(i)].num \in Values
           /\ args[Nth(i)].num \in Int /\ args[Nth(i)].str \in Seq(Int)
<1>1. format \in Formats /\ signed \in Signs
  BY DEF Using
<1>2. Len(format) \in Nat /\ i - 1 \in 0 .. Len(format) /\ i \in 0 .. Len(format)
      /\ Len(format) \in i .. Len(format)
  <2>1. Len(format) \in Nat
    BY <1>1, FormatIs
  <2> QED
    BY <2>1
<1>3. Nth(i) = Nth(i - 1) + 1 /\ Nth(i - 1) \in Nat /\ Nth(i) <= Nth(Len(format))
      /\ Nth(Len(format)) \in Nat
  BY <1>1, <1>2, NthIs
<1>4. Nth(i) \in 1 .. Nth(Len(format))
  BY <1>3
<1>5. args[Nth(i)] \in {a \in Arguments : a.num \in Printable}
  <2>1. Nth(Len(format)) = Cardinality(DirectivesOf(format))
    BY <1>1, NthIs
  <2> QED
    BY <1>4, <2>1 DEF Using
<1>6. args[Nth(i)].num \in Values
  BY <1>5 DEF Printable
<1> QED
  BY <1>1, <1>3, <1>4, <1>5, <1>6, ValuesAre, FormatsAssumption

LEMMA PiecesAre ==
    ASSUME Using
    PROVE  /\ Pieces \in Seq(Seq(Int)) /\ Len(Pieces) = Len(format)
           /\ \A i \in 1 .. Len(format) :
                /\ Pieces[i] \in Seq(Int)
                /\ format[i] = Escape => Pieces[i] = <<Open>>
                /\ format[i] = NumDir => Pieces[i] = Decimal(args[Nth(i)].num)
                /\ format[i] = SliceDir => Pieces[i] = args[Nth(i)].str
                /\ Literal(format[i]) => Pieces[i] = <<format[i]>>
<1>1. format \in Formats
  BY DEF Using
<1>2. /\ format \in Seq(Int) /\ Len(format) \in Nat /\ DOMAIN format = 1 .. Len(format)
  BY <1>1, FormatIs
<1>3. ASSUME NEW i \in 1 .. Len(format)
      PROVE  /\ format[i] = Escape => Pieces[i] = <<Open>>
             /\ format[i] = NumDir => Pieces[i] = Decimal(args[Nth(i)].num)
             /\ format[i] = SliceDir => Pieces[i] = args[Nth(i)].str
             /\ format[i] \notin {Escape, NumDir, SliceDir} => Pieces[i] = <<format[i]>>
  <2>1. Pieces[i] = CASE format[i] = Escape -> <<Open>>
                      [] format[i] = NumDir -> Decimal(args[Nth(i)].num)
                      [] format[i] = SliceDir -> args[Nth(i)].str
                      [] OTHER -> <<format[i]>>
    BY <1>2 DEF Pieces
  <2> QED
    BY <2>1 DEF Escape, NumDir, SliceDir
<1>4. ASSUME NEW i \in 1 .. Len(format) PROVE Pieces[i] \in Seq(Int)
  <2>1. CASE format[i] = Escape
    <3>1. Pieces[i] = <<Open>>
      BY <1>3, <2>1
    <3>2. <<Open>> \in Seq(Int)
      BY DEF Open
    <3> QED
      BY <3>1, <3>2
  <2>2. CASE format[i] = NumDir
    <3>1. args[Nth(i)].num \in Int
      BY <2>2, ArgIs DEF Directives
    <3>2. Decimal(args[Nth(i)].num) \in Seq(Int)
      BY <3>1, DecimalParts
    <3> QED
      BY <1>3, <2>2, <3>2
  <2>3. CASE format[i] = SliceDir
    BY <1>3, <2>3, ArgIs DEF Directives
  <2>4. CASE format[i] \notin {Escape, NumDir, SliceDir}
    <3>1. Pieces[i] = <<format[i]>>
      BY <1>3, <2>4
    <3>2. format[i] \in Int
      BY <1>1, FormatIs
    <3>3. <<format[i]>> \in Seq(Int)
      BY <3>2
    <3> QED
      BY <3>1, <3>3
  <2> QED
    BY <2>1, <2>2, <2>3, <2>4
<1>5. Pieces = [i \in 1 .. Len(format) |-> Pieces[i]]
  BY <1>2 DEF Pieces
<1>6. Pieces \in Seq(Seq(Int)) /\ Len(Pieces) = Len(format)
  <2> DEFINE p == Pieces
  <2>1. p = [i \in 1 .. Len(format) |-> p[i]] /\ \A i \in 1 .. Len(format) : p[i] \in Seq(Int)
    BY <1>4, <1>5
  <2> HIDE DEF p
  <2> QED
    BY <1>2, <2>1 DEF p
<1>7. \A i \in 1 .. Len(format) : Literal(format[i]) => format[i] \notin {Escape, NumDir, SliceDir}
  BY <1>1, SymbolIs DEF Symbols, Directives
<1> QED
  BY <1>3, <1>4, <1>6, <1>7

\* The text of the format up to symbol i.
W(i) == Run(TextRun(Pieces), Len(format))[i]

LEMMA TextIs ==
    ASSUME Using
    PROVE  /\ W(0) = <<>> /\ \A i \in 1 .. Len(format) : W(i) = W(i - 1) \o Pieces[i]
           /\ \A i \in 0 .. Len(format) : W(i) \in Seq(Int) /\ Len(W(i)) \in Nat
           /\ \A i \in 1 .. Len(format) : Len(W(i)) = Len(W(i - 1)) + Len(Pieces[i])
<1> DEFINE n == Len(format)
           N == {i \in 0 .. n : W(i) \in Seq(Int)}
<1>1. n \in Nat /\ \A i \in 1 .. n : Pieces[i] \in Seq(Int)
  BY PiecesAre, FormatIs DEF Using
<1>2. W(0) = <<>> /\ \A i \in 1 .. n : W(i) = W(i - 1) \o Pieces[i]
  <2> DEFINE run == TextRun(Pieces)
  <2>1. Start(run) = <<>> /\ \A m, i : After(run, m, i) = m \o Pieces[i]
    BY DEF TextRun, Start, After
  <2> HIDE DEF run
  <2>2. /\ Run(run, n)[0] = Start(run)
        /\ \A i \in 1 .. n : Run(run, n)[i] = After(run, Run(run, n)[i - 1], i)
    BY <1>1, RunIs
  <2> QED
    BY <2>1, <2>2 DEF W, run
<1> HIDE DEF n
<1>3. 0 \in N
  <2>1. W(0) \in Seq(Int)
    <3>1. <<>> \in Seq(Int)
      OBVIOUS
    <3> QED
      BY <1>2, <3>1
  <2>2. 0 \in 0 .. n
    BY <1>1
  <2> QED
    BY <2>1, <2>2
<1>4. ASSUME NEW k \in 0 .. n - 1, k \in N PROVE k + 1 \in N
  <2>1. k + 1 \in 1 .. n /\ k + 1 \in 0 .. n /\ (k + 1) - 1 = k
    BY <1>1
  <2>2. W(k + 1) = W(k) \o Pieces[k + 1] /\ Pieces[k + 1] \in Seq(Int) /\ W(k) \in Seq(Int)
    BY <1>1, <1>2, <1>4, <2>1
  <2>3. W(k) \o Pieces[k + 1] \in Seq(Int)
    BY <2>2, ConcatProperties
  <2>4. W(k + 1) \in Seq(Int)
    BY <2>2, <2>3
  <2> QED
    BY <2>1, <2>4
<1>5. 0 .. n \subseteq N
  <2> HIDE DEF N
  <2> QED
    BY <1>1, <1>3, <1>4, UpTo
<1>6. \A i \in 0 .. n : W(i) \in Seq(Int) /\ Len(W(i)) \in Nat
  BY <1>5
<1>7. ASSUME NEW i \in 1 .. n PROVE Len(W(i)) = Len(W(i - 1)) + Len(Pieces[i])
  <2>1. i - 1 \in 0 .. n
    BY <1>1
  <2>2. W(i) = W(i - 1) \o Pieces[i] /\ Pieces[i] \in Seq(Int) /\ W(i - 1) \in Seq(Int)
    BY <1>1, <1>2, <1>6, <2>1
  <2> QED
    BY <2>2
<1> QED
  BY <1>2, <1>6, <1>7 DEF n

\* Each text is the beginning of the next.
LEMMA TextBegins ==
    ASSUME Using, NEW i \in 0 .. Len(format), NEW j \in i .. Len(format)
    PROVE  Len(W(i)) <= Len(W(j)) /\ \A x \in 1 .. Len(W(i)) : W(j)[x] = W(i)[x]
<1> DEFINE n == Len(format)
           Holds(k) == Len(W(i)) <= Len(W(k)) /\ \A x \in 1 .. Len(W(i)) : W(k)[x] = W(i)[x]
           N == {k \in 0 .. n : k >= i => Holds(k)}
<1>1. n \in Nat /\ i \in Nat
  <2>1. n \in Nat
    BY FormatIs DEF Using
  <2> QED
    BY <2>1
<1>2. /\ \A k \in 1 .. n : W(k) = W(k - 1) \o Pieces[k] /\ Len(W(k)) = Len(W(k - 1)) + Len(Pieces[k])
      /\ \A k \in 0 .. n : W(k) \in Seq(Int) /\ Len(W(k)) \in Nat
      /\ \A k \in 1 .. n : Pieces[k] \in Seq(Int)
  BY TextIs, PiecesAre
<1> HIDE DEF n
<1>3. \A k \in 0 .. n : k = i => k \in N
  BY <1>1, <1>2
<1>4. 0 \in N
  <2>1. 0 >= i => 0 = i
    BY <1>1
  <2> QED
    BY <1>1, <1>3, <2>1
<1>5. ASSUME NEW k \in 0 .. n - 1, k \in N PROVE k + 1 \in N
  <2>1. k + 1 \in 1 .. n /\ k + 1 \in 0 .. n /\ (k + 1) - 1 = k /\ k \in 0 .. n
    BY <1>1
  <2>2. CASE k >= i
    <3>1. Holds(k)
      <4> HIDE DEF Holds
      <4> QED
        BY <1>5, <2>2
    <3>2. W(k + 1) = W(k) \o Pieces[k + 1] /\ W(k) \in Seq(Int) /\ Pieces[k + 1] \in Seq(Int)
      BY <1>2, <2>1
    <3>3. Len(W(k + 1)) >= Len(W(k)) /\ \A x \in 1 .. Len(W(k)) : W(k + 1)[x] = W(k)[x]
      BY <3>2
    <3>4. Len(W(i)) \in Nat /\ Len(W(k)) \in Nat /\ Len(W(k + 1)) \in Nat
      BY <1>2, <2>1, n = Len(format) DEF n
    <3>5. Holds(k + 1)
      BY <3>1, <3>3, <3>4
    <3> HIDE DEF Holds
    <3> QED
      BY <2>1, <3>5
  <2>3. CASE k + 1 = i
    <3> HIDE DEF N
    <3> QED
      BY <1>3, <2>1, <2>3
  <2>4. CASE k + 1 < i
    <3> HIDE DEF Holds
    <3>1. ~(k + 1 >= i)
      BY <1>1, <2>1, <2>4
    <3> QED
      BY <2>1, <3>1
  <2> QED
    BY <1>1, <2>1, <2>2, <2>3, <2>4
<1>6. 0 .. n \subseteq N
  <2> HIDE DEF N
  <2> QED
    BY <1>1, <1>4, <1>5, UpTo
<1>7. j \in N /\ j >= i
  <2>1. j \in 0 .. n /\ j >= i
    BY <1>1 DEF n
  <2> QED
    BY <1>6, <2>1
<1>8. Holds(j)
  <2> HIDE DEF Holds
  <2> QED
    BY <1>7
<1> QED
  BY <1>8

\* FlattenSeq of the pieces.
LEMMA FlattenIs ==
    ASSUME Using, NEW k \in 0 .. Len(format)
    PROVE  FlattenSeq(SubSeq(Pieces, 1, k)) = W(k)
<1> DEFINE n == Len(format)
           P == SubSeq(Pieces, 1, k)
           Is(f) == f = [i \in 1 .. Len(P) |-> IF i = 1 THEN P[i] ELSE f[i - 1] \o P[i]]
<1>1. n \in Nat /\ k \in Nat /\ k <= n /\ Pieces \in Seq(Seq(Int)) /\ Len(Pieces) = n
  <2>1. n \in Nat
    BY FormatIs DEF Using
  <2>2. Pieces \in Seq(Seq(Int)) /\ Len(Pieces) = n
    BY PiecesAre
  <2> QED
    BY <2>1, <2>2
<1>2. P \in Seq(Seq(Int)) /\ Len(P) = k /\ \A i \in 1 .. k : P[i] = Pieces[i]
  <2> DEFINE Q == Pieces
  <2>1. Q \in Seq(Seq(Int)) /\ k \in 0 .. Len(Q)
    BY <1>1
  <2> HIDE DEF Q
  <2>2. SubSeq(Q, 1, k) \in Seq(Seq(Int)) /\ Len(SubSeq(Q, 1, k)) = k
        /\ \A i \in 1 .. k : SubSeq(Q, 1, k)[i] = Q[i]
    BY <2>1
  <2> QED
    BY <2>2 DEF Q
<1>3. FlattenSeq(P) = IF Len(P) = 0 THEN P ELSE (CHOOSE f : Is(f))[Len(P)]
  BY DEF FlattenSeq
<1>p. P \in Seq(Seq(Int))
  BY <1>2
<1> HIDE DEF P, n
<1>4. /\ W(0) = <<>> /\ \A i \in 1 .. n : W(i) = W(i - 1) \o Pieces[i]
      /\ \A i \in 0 .. n : W(i) \in Seq(Int)
      /\ \A i \in 1 .. n : Pieces[i] \in Seq(Int)
  BY TextIs, PiecesAre DEF n
<1>5. k <= n
  BY <1>1 DEF n
<1>6. k >= 1 => W(1) = P[1]
  <2>1. SUFFICES ASSUME k >= 1 PROVE W(1) = P[1]
    OBVIOUS
  <2>2. 1 \in 1 .. n /\ 1 \in 1 .. k
    BY <1>1, <1>5, <2>1
  <2>3. W(1) = W(0) \o Pieces[1] /\ Pieces[1] \in Seq(Int) /\ P[1] = Pieces[1]
    <3>1. W(1) = W(1 - 1) \o Pieces[1] /\ Pieces[1] \in Seq(Int)
      BY <1>4, <2>2
    <3>2. P[1] = Pieces[1]
      BY <1>2, <2>2
    <3> QED
      BY <3>1, <3>2
  <2>4. <<>> \o Pieces[1] = Pieces[1]
    BY <2>3
  <2> QED
    BY <1>4, <2>3, <2>4
<1>7. ASSUME NEW i \in 1 .. k PROVE W(i) = W(i - 1) \o P[i]
  <2>1. i \in 1 .. n
    BY <1>1, <1>5
  <2>2. W(i) = W(i - 1) \o Pieces[i]
    BY <1>4, <2>1
  <2>3. P[i] = Pieces[i]
    BY <1>2
  <2> QED
    BY <2>2, <2>3
<1>8. k >= 1 => Is([i \in 1 .. k |-> W(i)])
  <2>1. SUFFICES ASSUME k >= 1 PROVE Is([i \in 1 .. k |-> W(i)])
    OBVIOUS
  <2> DEFINE g == [i \in 1 .. k |-> W(i)]
  <2>2. \A i \in 1 .. k : i # 1 => g[i - 1] = W(i - 1)
    BY <1>1
  <2>3. \A i \in 1 .. k : g[i] = W(i)
    OBVIOUS
  <2>4. g = [i \in 1 .. k |-> g[i]]
    OBVIOUS
  <2> HIDE DEF g
  <2>5. \A i \in 1 .. k : g[i] = IF i = 1 THEN P[i] ELSE g[i - 1] \o P[i]
    BY <1>6, <1>7, <2>1, <2>2, <2>3
  <2>6. Is(g)
    BY <1>2, <2>4, <2>5
  <2> HIDE DEF Is
  <2> QED
    BY <2>6 DEF g
<1>9. ASSUME NEW f, Is(f), k >= 1 PROVE f[k] = W(k)
  <2>1. \A i \in 1 .. k : f[i] = IF i = 1 THEN P[i] ELSE f[i - 1] \o P[i]
    BY <1>2, <1>9
  <2> HIDE DEF Is
  <2> DEFINE N == {i \in 0 .. k : i >= 1 => f[i] = W(i)}
  <2>2. 0 \in N
    BY <1>1
  <2>3. ASSUME NEW i \in 0 .. k - 1, i \in N PROVE i + 1 \in N
    <3>1. i + 1 \in 1 .. k /\ i + 1 \in 0 .. k /\ (i + 1) - 1 = i /\ (i # 0 => i >= 1)
      BY <1>1
    <3>2. CASE i = 0
      <4>1. f[1] = P[1]
        BY <2>1, <3>1, <3>2
      <4> QED
        BY <1>6, <1>9, <3>1, <3>2, <4>1
    <3>3. CASE i # 0
      <4>0. i + 1 # 1
        BY <3>3
      <4>1. f[i + 1] = f[i] \o P[i + 1]
        BY <2>1, <3>1, <4>0
      <4>3. W(i + 1) = W((i + 1) - 1) \o P[i + 1]
        BY <1>7, <3>1
      <4>2. f[i] = W(i)
        BY <2>3, <3>1, <3>3
      <4> QED
        BY <3>1, <4>1, <4>2, <4>3
    <3> QED
      BY <3>2, <3>3
  <2>4. 0 .. k \subseteq N
    <3> HIDE DEF N
    <3> QED
      BY <1>1, <2>2, <2>3, UpTo
  <2>5. k \in N
    <3>1. k \in 0 .. k
      BY <1>1
    <3> QED
      BY <2>4, <3>1
  <2> QED
    BY <1>9, <2>5
<1> HIDE DEF Is
<1>10. CASE k = 0
  <2>1. P = <<>>
    BY <1>2, <1>10, <1>p, EmptySeq
  <2> QED
    BY <1>2, <1>3, <1>4, <1>10, <2>1 DEF P
<1>11. CASE k >= 1
  <2>1. Is(CHOOSE f : Is(f))
    BY <1>8, <1>11
  <2>2. (CHOOSE f : Is(f))[k] = W(k)
    BY <1>9, <1>11, <2>1
  <2> QED
    BY <1>2, <1>3, <1>11, <2>2 DEF P
<1> QED
  BY <1>1, <1>10, <1>11

-----------------------------------------------------------------------------
(* shttp_slice_insert_format: what it has written behind each symbol *)

Sound(i) == \A j \in 1 .. i : j \notin Faulty
Inserts(i) == Run(InsertRun(format, args, space), Len(format))[i]

\* The whole text so far, a text that did not fit, or one with a fault.
Inserted(m, i) ==
    /\ m.status = "OK" /\ Sound(i) /\ m.text = W(i) /\ Len(W(i)) <= space
    /\ m.n = Nth(i) + 1 /\ DOMAIN m = {"text", "n", "status"}
CutOff(m, j) ==
    /\ m.status = "SLICE_END" /\ Sound(j) /\ Len(W(j)) > space
    /\ m.text = SubSeq(W(j), 1, space)
Halted(m, j) ==
    /\ j \in Faulty /\ Sound(j - 1) /\ m.text = W(j - 1) /\ Len(W(j - 1)) <= space
    /\ m.status = IF format[j] = BadDir THEN "FORMAT_INVALID" ELSE "SLICE_END"

\* Put: text t and then more.
LEMMA FitIs ==
    ASSUME NEW t \in Seq(Int), NEW more \in Seq(Int), NEW r \in Nat
    PROVE  Fit(t, more, r) = IF Len(t) + Len(more) <= r THEN t \o more
                             ELSE SubSeq(t \o more, 1, r)
<1> DEFINE u == t \o more
           l == Len(t) + Len(more)
<1>1. u \in Seq(Int) /\ Len(u) = l /\ l \in Nat
  OBVIOUS
<1>2. Fit(t, more, r) = SubSeq(u, 1, IF r <= l THEN r ELSE l)
  BY <1>1, MinOfTwo DEF Fit
<1> HIDE DEF u, l
<1>3. SubSeq(u, 1, Len(u)) = u
  BY <1>1
<1>4. CASE l <= r
  <2>1. (IF r <= l THEN r ELSE l) = Len(u)
    BY <1>1, <1>4
  <2> QED
    BY <1>2, <1>3, <1>4, <2>1 DEF u, l
<1>5. CASE ~(l <= r)
  <2>1. (IF r <= l THEN r ELSE l) = r
    BY <1>1, <1>5
  <2> QED
    BY <1>2, <1>5, <2>1 DEF u, l
<1> QED
  BY <1>4, <1>5

\* What a directive does with its text.
Directed(m, more, r) ==
    [[text |-> Fit(m.text, more, r), n |-> m.n,
      status |-> IF Len(m.text) + Len(more) <= r THEN "OK" ELSE "SLICE_END"]
     EXCEPT !.n = m.n + 1]

LEMMA InsertDirective ==
    ASSUME NEW f, NEW a, NEW r, NEW m, NEW i, NEW more, m.status = "OK",
           \/ f[i] = NumDir /\ more = Decimal(a[m.n].num)
           \/ f[i] = SliceDir /\ more = a[m.n].str
    PROVE  InsertSymbol(f, a, r, m, i) = Directed(m, more, r)
<1>1. CASE f[i] = NumDir /\ more = Decimal(a[m.n].num)
  <2> DEFINE ours == Decimal(a[m.n].num)
  <2>1. InsertSymbol(f, a, r, m, i) = Directed(m, ours, r)
    <3>1. /\ f[i] = NumDir /\ ~Literal(f[i]) /\ f[i] # Escape /\ f[i] # SliceDir
          /\ f[i] # BadDir /\ f[i] # Unclosed
      BY <1>1 DEF Literal, Escape, NumDir, SliceDir, BadDir, Unclosed
    <3> QED
      BY <3>1, Zenon DEF InsertSymbol, Directed
  <2> HIDE DEF ours
  <2>2. more = ours
    BY <1>1 DEF ours
  <2> QED
    BY <2>1, <2>2
<1>2. CASE f[i] = SliceDir /\ more = a[m.n].str
  <2> DEFINE ours == a[m.n].str
  <2>1. InsertSymbol(f, a, r, m, i) = Directed(m, ours, r)
    <3>1. /\ f[i] = SliceDir /\ ~Literal(f[i]) /\ f[i] # Escape /\ f[i] # NumDir
          /\ f[i] # BadDir /\ f[i] # Unclosed
      BY <1>2 DEF Literal, Escape, NumDir, SliceDir, BadDir, Unclosed
    <3> QED
      BY <3>1, Zenon DEF InsertSymbol, Directed
  <2> HIDE DEF ours
  <2>2. more = ours
    BY <1>2 DEF ours
  <2> QED
    BY <2>1, <2>2
<1> QED
  BY <1>1, <1>2

\* Symbol i of a format whose text fitted before.
LEMMA InsertSymbolIs ==
    ASSUME Using, NEW i \in 1 .. Len(format), NEW m, Inserted(m, i - 1)
    PROVE  LET x == InsertSymbol(format, args, space, m, i)
           IN  Inserted(x, i) \/ CutOff(x, i) \/ Halted(x, i)
<1> DEFINE x == InsertSymbol(format, args, space, m, i)
           more == Pieces[i]
           put == [text |-> Fit(m.text, more, space), n |-> m.n,
                   status |-> IF Len(m.text) + Len(more) <= space THEN "OK" ELSE "SLICE_END"]
<1>1. /\ format \in Formats /\ space \in Nat /\ Len(format) \in Nat
      /\ i - 1 \in 0 .. Len(format) /\ i \in 0 .. Len(format) /\ i \in Nat
  <2>1. format \in Formats /\ space \in Nat
    BY DEF Using
  <2>2. Len(format) \in Nat
    BY <2>1, FormatIs
  <2> QED
    BY <2>1, <2>2
<1>2. /\ m.status = "OK" /\ m.text = W(i - 1) /\ Len(W(i - 1)) <= space
      /\ m.n = Nth(i - 1) + 1 /\ Sound(i - 1) /\ DOMAIN m = {"text", "n", "status"}
  BY DEF Inserted
<1>3. /\ W(i) = W(i - 1) \o more /\ W(i - 1) \in Seq(Int) /\ W(i) \in Seq(Int)
      /\ Len(W(i)) = Len(W(i - 1)) + Len(more) /\ more \in Seq(Int)
      /\ Len(W(i)) \in Nat
  BY <1>1, TextIs, PiecesAre
<1>6. ASSUME Sound(i), x.n = Nth(i) + 1, x.text = put.text, x.status = put.status,
             DOMAIN x = {"text", "n", "status"}
      PROVE  Inserted(x, i) \/ CutOff(x, i)
  <2>1. Fit(W(i - 1), more, space) = IF Len(W(i)) <= space THEN W(i)
                                     ELSE SubSeq(W(i), 1, space)
    <3>1. Fit(W(i - 1), more, space) =
             IF Len(W(i - 1)) + Len(more) <= space THEN W(i - 1) \o more
             ELSE SubSeq(W(i - 1) \o more, 1, space)
      BY <1>1, <1>3, FitIs
    <3> QED
      BY <1>3, <3>1
  <2>2. /\ x.text = IF Len(W(i)) <= space THEN W(i) ELSE SubSeq(W(i), 1, space)
        /\ x.status = IF Len(W(i)) <= space THEN "OK" ELSE "SLICE_END"
    BY <1>2, <1>3, <1>6, <2>1
  <2> HIDE DEF x, put, more
  <2>3. CASE Len(W(i)) <= space
    BY <1>6, <2>2, <2>3 DEF Inserted
  <2>4. CASE ~(Len(W(i)) <= space)
    BY <1>1, <1>3, <1>6, <2>2, <2>4 DEF CutOff
  <2> QED
    BY <2>3, <2>4
<1>4. CASE i \in Faulty
  <2>1. format[i] = BadDir \/ format[i] = Unclosed
    BY <1>1, <1>4, SymbolIs
  <2>2. x = [m EXCEPT !.status = IF format[i] = BadDir THEN "FORMAT_INVALID" ELSE "SLICE_END"]
    BY <1>2, <2>1 DEF InsertSymbol, Literal, Escape, NumDir, SliceDir, BadDir, Unclosed
  <2>3. x.text = m.text /\ x.status = IF format[i] = BadDir THEN "FORMAT_INVALID" ELSE "SLICE_END"
    BY <1>2, <2>2
  <2> QED
    BY <1>2, <1>4, <2>3 DEF Halted
<1>5. CASE i \notin Faulty
  <2>1. Sound(i)
    <3>1. \A j \in 1 .. i : j = i \/ j \in 1 .. i - 1
      BY <1>1
    <3> QED
      BY <1>2, <1>5, <3>1 DEF Sound
  <2>2. CASE format[i] \in Directives
    <3>1. format[i] = NumDir \/ format[i] = SliceDir
      BY <1>1, <2>2, SymbolIs
    <3>2. m.n = Nth(i)
      BY <1>2, <2>2, ArgIs
    <3>3. more = IF format[i] = NumDir THEN Decimal(args[m.n].num) ELSE args[m.n].str
      BY <3>1, <3>2, PiecesAre
    <3>4. x = Directed(m, more, space)
      <4>1. \/ format[i] = NumDir /\ more = Decimal(args[m.n].num)
            \/ format[i] = SliceDir /\ more = args[m.n].str
        <5> HIDE DEF more
        <5> QED
          BY <3>1, <3>3 DEF NumDir, SliceDir
      <4>2. m.status = "OK"
        BY <1>2
      <4> HIDE DEF more
      <4> QED
        BY <4>1, <4>2, InsertDirective
    <3>5. x.n = Nth(i) + 1 /\ x.text = put.text /\ x.status = put.status
          /\ DOMAIN x = {"text", "n", "status"}
      <4> HIDE DEF x, more
      <4> QED
        BY <3>2, <3>4 DEF Directed
    <3> QED
      BY <1>6, <2>1, <3>5
  <2>3. CASE format[i] \notin Directives
    <3>1. Literal(format[i]) \/ format[i] = Escape
      BY <1>1, <1>5, <2>3, SymbolIs
    <3>2. x = put
      <4>1. more = IF Literal(format[i]) THEN <<format[i]>> ELSE <<Open>>
        BY <3>1, PiecesAre
      <4>2. CASE Literal(format[i])
        BY <1>2, <4>1, <4>2 DEF InsertSymbol, Literal, Escape, NumDir, SliceDir, BadDir, Unclosed
      <4>3. CASE ~Literal(format[i])
        BY <1>2, <3>1, <4>1, <4>3 DEF InsertSymbol, Literal, Escape, NumDir, SliceDir, BadDir, Unclosed
      <4> QED
        BY <4>2, <4>3
    <3>3. x.n = Nth(i) + 1 /\ x.text = put.text /\ x.status = put.status
          /\ DOMAIN x = {"text", "n", "status"}
      <4>1. Nth(i) = Nth(i - 1)
        BY <1>1, <2>3, NthIs
      <4> QED
        BY <1>2, <3>2, <4>1
    <3> QED
      BY <1>6, <2>1, <3>3
  <2> QED
    BY <2>2, <2>3
<1> QED
  BY <1>4, <1>5

\* The whole insert.
LEMMA InsertsAre ==
    ASSUME Using, NEW i \in 0 .. Len(format)
    PROVE  \/ Inserted(Inserts(i), i)
           \/ \E j \in 1 .. i : CutOff(Inserts(i), j) \/ Halted(Inserts(i), j)
<1> DEFINE n == Len(format)
           Ends(k) == \E j \in 1 .. k : CutOff(Inserts(k), j) \/ Halted(Inserts(k), j)
           N == {k \in 0 .. n : Inserted(Inserts(k), k) \/ Ends(k)}
<1>1. n \in Nat /\ format \in Formats /\ space \in Nat
  BY FormatIs DEF Using
<1>2. /\ Inserts(0) = [text |-> <<>>, n |-> 1, status |-> "OK"]
      /\ \A k \in 1 .. n :
            Inserts(k) = InsertSymbol(format, args, space, Inserts(k - 1), k)
  <2> DEFINE run == InsertRun(format, args, space)
  <2>1. /\ Start(run) = [text |-> <<>>, n |-> 1, status |-> "OK"]
        /\ \A m, k : After(run, m, k) = InsertSymbol(format, args, space, m, k)
    BY DEF InsertRun, Start, After
  <2> HIDE DEF run
  <2>2. /\ Run(run, n)[0] = Start(run)
        /\ \A k \in 1 .. n : Run(run, n)[k] = After(run, Run(run, n)[k - 1], k)
    BY <1>1, RunIs
  <2> QED
    BY <2>1, <2>2 DEF Inserts, run
<1>3. 0 \in N
  <2>1. W(0) = <<>> /\ Nth(0) = 0
    BY <1>1, TextIs, NthIs
  <2>2. Len(W(0)) = 0
    BY <2>1
  <2>3. Inserted(Inserts(0), 0)
    BY <1>1, <1>2, <2>1, <2>2 DEF Inserted, Sound
  <2> QED
    BY <1>1, <2>3
<1>4. ASSUME NEW k \in 0 .. n - 1, k \in N PROVE k + 1 \in N
  <2>1. k + 1 \in 1 .. n /\ k + 1 \in 0 .. n /\ (k + 1) - 1 = k
    BY <1>1
  <2>2. Inserts(k + 1) = InsertSymbol(format, args, space, Inserts(k), k + 1)
    BY <1>2, <2>1
  <2>3. Inserted(Inserts(k), k) \/ Ends(k)
    BY <1>4
  <2>4. CASE Inserted(Inserts(k), k)
    <3> DEFINE j == k + 1
               m == Inserts(k)
               x == InsertSymbol(format, args, space, m, j)
    <3>1. j \in 1 .. Len(format) /\ Inserted(m, j - 1)
      BY <2>1, <2>4
    <3>2. j \in 1 .. j
      BY <2>1
    <3> HIDE DEF j, m
    <3>3. Inserted(x, j) \/ CutOff(x, j) \/ Halted(x, j)
      BY <3>1, InsertSymbolIs
    <3>4. x = Inserts(j)
      BY <2>2 DEF j, m
    <3> HIDE DEF x
    <3>5. Inserted(Inserts(j), j) \/ Ends(j)
      BY <3>2, <3>3, <3>4
    <3> QED
      BY <2>1, <3>5 DEF j
  <2>5. CASE Ends(k)
    <3>1. PICK j \in 1 .. k : CutOff(Inserts(k), j) \/ Halted(Inserts(k), j)
      BY <2>5
    <3>2. Inserts(k).status # "OK"
      BY <3>1 DEF CutOff, Halted
    <3>3. Inserts(k + 1) = Inserts(k)
      BY <2>2, <3>2 DEF InsertSymbol
    <3>4. j \in 1 .. k + 1
      BY <2>1
    <3>5. Ends(k + 1)
      BY <3>1, <3>3, <3>4
    <3> QED
      BY <2>1, <3>5
  <2> HIDE DEF Ends
  <2> QED
    BY <2>3, <2>4, <2>5
<1> HIDE DEF N
<1>5. 0 .. n \subseteq N
  BY <1>1, <1>3, <1>4, UpTo
<1> QED
  BY <1>5 DEF N

\* The first fault of a format, or the place behind it.
Fault == Min(Faulty \cup {Len(format) + 1})

LEMMA FaultIs ==
    ASSUME format \in Formats
    PROVE  /\ Fault \in 1 .. Len(format) + 1 /\ Sound(Fault - 1)
           /\ Fault \in Faulty \/ (Fault = Len(format) + 1 /\ Faulty = {})
           /\ \A i \in 0 .. Len(format) : Sound(i) => i < Fault
           /\ \A i \in Faulty : Sound(i - 1) => i = Fault
<1> DEFINE n == Len(format)
           S == Faulty \cup {n + 1}
<1>1. n \in Nat /\ Faulty \subseteq 1 .. n
  BY FormatIs DEF Faulty
<1>2. S \subseteq Nat /\ S # {}
  <2>1. 1 .. n \subseteq Nat /\ n + 1 \in Nat
    BY <1>1
  <2> QED
    BY <1>1, <2>1
<1>3. Fault \in S /\ \A y \in S : Fault <= y
  <2> HIDE DEF S
  <2>1. Min(S) \in S /\ \A y \in S : Min(S) <= y
    BY <1>2, MinIsLeast
  <2> QED
    BY <2>1 DEF Fault, S
<1>4. Fault \in 1 .. n + 1
  BY <1>1, <1>3
<1>5. \A j \in Faulty : j \in 1 .. n /\ Fault <= j
  BY <1>1, <1>3
<1>6. Sound(Fault - 1)
  BY <1>4, <1>5 DEF Sound
<1>7. Fault \in Faulty \/ (Fault = n + 1 /\ Faulty = {})
  BY <1>1, <1>3, <1>4, <1>5
<1>8. \A i \in 0 .. n : Sound(i) => i < Fault
  BY <1>1, <1>4, <1>7 DEF Sound
<1>9. \A i \in Faulty : Sound(i - 1) => i = Fault
  <2>1. SUFFICES ASSUME NEW i \in Faulty, Sound(i - 1), i # Fault PROVE FALSE
    OBVIOUS
  <2>2. i \in 1 .. n /\ Fault <= i
    BY <1>5
  <2>3. Fault \in 1 .. i - 1 /\ Fault \in Faulty
    BY <1>1, <1>4, <1>7, <2>1, <2>2
  <2> QED
    BY <2>1, <2>3 DEF Sound
<1> QED
  BY <1>4, <1>6, <1>7, <1>8, <1>9

\* What an insert has written and returned.
LEMMA InsertIs ==
    ASSUME Using
    PROVE  LET m == InsertFormat(format, args, space)
               whole == W(Fault - 1)
           IN  /\ m.text = SubSeq(whole, 1, Min({space, Len(whole)}))
               /\ m.status = IF Len(whole) > space THEN "SLICE_END"
                             ELSE IF Faulty = {} THEN "OK"
                             ELSE IF format[Fault] = BadDir THEN "FORMAT_INVALID"
                             ELSE "SLICE_END"
<1> DEFINE n == Len(format)
           m == Inserts(n)
           whole == W(Fault - 1)
           l == Len(whole)
<1>1. n \in Nat /\ format \in Formats /\ space \in Nat /\ n \in 0 .. n
  <2>1. n \in Nat /\ format \in Formats /\ space \in Nat
    BY FormatIs DEF Using
  <2> QED
    BY <2>1
<1>2. InsertFormat(format, args, space) = m
  BY <1>1, InsertFormatIs DEF Inserts
<1>3. /\ Fault \in 1 .. n + 1 /\ Sound(Fault - 1)
      /\ Fault \in Faulty \/ (Fault = n + 1 /\ Faulty = {})
      /\ \A i \in 0 .. n : Sound(i) => i < Fault
      /\ \A i \in Faulty : Sound(i - 1) => i = Fault
  BY <1>1, FaultIs
<1>4. whole \in Seq(Int) /\ l \in Nat
  <2>1. Fault - 1 \in 0 .. n
    BY <1>1, <1>3
  <2> QED
    BY <2>1, TextIs
<1>5. Min({space, l}) = IF space <= l THEN space ELSE l
  BY <1>1, <1>4, MinOfTwo
<1>6. Inserted(m, n) \/ \E j \in 1 .. n : CutOff(m, j) \/ Halted(m, j)
  BY <1>1, InsertsAre
<1>7. SubSeq(whole, 1, l) = whole
  BY <1>4
<1> SUFFICES /\ m.text = SubSeq(whole, 1, IF space <= l THEN space ELSE l)
             /\ m.status = IF l > space THEN "SLICE_END"
                           ELSE IF Faulty = {} THEN "OK"
                           ELSE IF format[Fault] = BadDir THEN "FORMAT_INVALID"
                           ELSE "SLICE_END"
  BY <1>2, <1>5
<1> HIDE DEF m
<1>a. ASSUME l <= space, m.text = whole
      PROVE  m.text = SubSeq(whole, 1, IF space <= l THEN space ELSE l)
  <2>1. (IF space <= l THEN space ELSE l) = l
    BY <1>1, <1>4, <1>a
  <2> QED
    BY <1>7, <1>a, <2>1
<1>8. CASE Inserted(m, n)
  <2>1. n < Fault /\ Fault = n + 1 /\ Fault - 1 = n
    BY <1>1, <1>3, <1>8 DEF Inserted
  <2>2. Faulty = {}
    BY <1>1, <1>3, <1>8, <2>1 DEF Inserted, Faulty
  <2>3. m.text = whole /\ l <= space /\ m.status = "OK"
    BY <1>8, <2>1 DEF Inserted
  <2> QED
    BY <1>1, <1>4, <1>a, <2>2, <2>3
<1>9. CASE \E j \in 1 .. n : CutOff(m, j)
  <2>1. PICK j \in 1 .. n : CutOff(m, j)
    BY <1>9
  <2>2. j \in 0 .. n /\ j < Fault /\ Fault - 1 \in j .. n
    <3>1. j \in 0 .. n
      BY <1>1
    <3>2. j < Fault
      BY <1>3, <2>1, <3>1 DEF CutOff
    <3> QED
      BY <1>1, <1>3, <3>1, <3>2
  <2>3. /\ Len(W(j)) <= l /\ \A x \in 1 .. Len(W(j)) : whole[x] = W(j)[x]
    BY <2>2, TextBegins
  <2>4. Len(W(j)) > space /\ Len(W(j)) \in Nat /\ W(j) \in Seq(Int)
    BY <2>1, <2>2, TextIs DEF CutOff
  <2>5. m.text = SubSeq(W(j), 1, space) /\ m.status = "SLICE_END"
    BY <2>1 DEF CutOff
  <2>6. SubSeq(W(j), 1, space) = SubSeq(whole, 1, space)
    <3> DEFINE u == W(j)
    <3>1. /\ u \in Seq(Int) /\ Len(u) > space /\ l >= Len(u)
          /\ \A x \in 1 .. space : whole[x] = u[x]
      BY <1>1, <1>4, <2>3, <2>4
    <3> HIDE DEF u, whole
    <3>2. /\ SubSeq(u, 1, space) \in Seq(Int) /\ Len(SubSeq(u, 1, space)) = space
          /\ \A x \in 1 .. space : SubSeq(u, 1, space)[x] = u[x]
      BY <1>1, <1>4, <3>1
    <3>3. /\ SubSeq(whole, 1, space) \in Seq(Int) /\ Len(SubSeq(whole, 1, space)) = space
          /\ \A x \in 1 .. space : SubSeq(whole, 1, space)[x] = whole[x]
      BY <1>1, <1>4, <3>1
    <3>4. SubSeq(u, 1, space) = SubSeq(whole, 1, space)
      BY <3>1, <3>2, <3>3
    <3> QED
      BY <3>4 DEF u
  <2>7. l > space /\ (IF space <= l THEN space ELSE l) = space
    BY <1>1, <1>4, <2>3, <2>4
  <2> HIDE DEF whole, l
  <2> QED
    BY <2>5, <2>6, <2>7
<1>10. CASE \E j \in 1 .. n : Halted(m, j)
  <2>1. PICK j \in 1 .. n : Halted(m, j)
    BY <1>10
  <2>2. j = Fault /\ j \in Faulty
    BY <1>3, <2>1 DEF Halted
  <2>3. m.text = whole /\ l <= space /\ Faulty # {}
        /\ m.status = IF format[Fault] = BadDir THEN "FORMAT_INVALID" ELSE "SLICE_END"
    BY <2>1, <2>2 DEF Halted
  <2> QED
    BY <1>1, <1>4, <1>a, <2>3
<1> QED
  BY <1>6, <1>8, <1>9, <1>10

\* It is a text.
LEMMA WrittenIs ==
    ASSUME Using
    PROVE  InsertFormat(format, args, space).text \in Seq(Int) /\ format \in Formats
<1> DEFINE whole == W(Fault - 1)
           l == Len(whole)
<1>1. format \in Formats /\ Len(format) \in Nat /\ space \in Nat
  BY FormatIs DEF Using
<1>2. Fault - 1 \in 0 .. Len(format)
  <2>1. Fault \in 1 .. Len(format) + 1
    BY <1>1, FaultIs
  <2> QED
    BY <1>1, <2>1
<1>3. whole \in Seq(Int) /\ l \in Nat
  BY <1>2, TextIs
<1>4. Min({space, l}) \in 0 .. l
  <2>1. Min({space, l}) = IF space <= l THEN space ELSE l
    BY <1>1, <1>3, MinOfTwo
  <2> QED
    BY <1>1, <1>3, <2>1
<1>5. SubSeq(whole, 1, Min({space, l})) \in Seq(Int)
  <2> DEFINE k == Min({space, l})
  <2>1. k \in 0 .. Len(whole) /\ 1 - 1 = 0
    BY <1>4
  <2> HIDE DEF whole, k
  <2>2. 1 \in 1 .. Len(whole) + 1 /\ k \in 1 - 1 .. Len(whole)
    BY <1>3, <2>1
  <2>3. SubSeq(whole, 1, k) \in Seq(Int)
    BY <1>3, <2>2, SubSeqIs
  <2> QED
    BY <2>3 DEF k
<1> QED
  BY <1>1, <1>5, InsertIs

-----------------------------------------------------------------------------
(* The program's formats *)

ParsedFor(behind) ==
    LET m == ParseFormat(format, content, behind)
    IN  result = m.status /\ outs = m.outs /\ upto = m.at

FmtInv ==
    /\ using \in {"nothing", "insert", "parse", "both"} /\ space \in 0 .. MaxRoom
    /\ using = "nothing" => NoFormat
    /\ using \in {"insert", "both"} =>
          Using /\ content = InsertFormat(format, args, space).text
    /\ using = "insert" =>
          result = InsertFormat(format, args, space).status /\ outs = <<>> /\ upto = 1
    /\ using = "parse" => format \in Formats /\ content \in FormatTexts
    /\ using \in {"parse", "both"} => \E behind \in {0, Open, Minus} : ParsedFor(behind)

LEMMA SamePrintable == ASSUME signed' = signed PROVE Printable' = Printable
<1>1. Values' = Values /\ MinVal' = MinVal
  BY SameValues
<1> QED
  BY <1>1 DEF Printable

\* A parse is the same in two states of the same family.
NumberOf(sg, t, behind) ==
    LET least == IF sg THEN -(Modulus \div 2) ELSE 0
        wrap(n) == least + ((n - least) % Modulus)
        minus == sg /\ t # <<>> /\ t[1] = Minus
        first == IF minus THEN 2 ELSE 1
        stop == Min({i \in first .. Len(t) : t[i] \notin Digits} \cup {Len(t) + 1})
        sum[i \in 0 .. Len(t)] ==
            IF i < first THEN 0 ELSE wrap(wrap(sum[i - 1] * 10) + t[i])
        n == sum[stop - 1]
    IN  [status |-> IF t = <<>> THEN "SLICE_END"
                    ELSE IF stop = first /\ ~(minus /\ Len(t) = 1 /\ behind \in Digits)
                    THEN "VALUE_INVALID" ELSE "OK",
         out |-> IF minus THEN wrap(-n) ELSE n,
         begin |-> stop]

LEMMA SameNumber ==
    ASSUME signed' = signed
    PROVE  \A t, behind : ParseNumber(t, behind)' = ParseNumber(t, behind)
<1>1. \A t, behind : ParseNumber(t, behind) = NumberOf(signed, t, behind)
  BY DEF ParseNumber, NumberOf, Wrap, MinVal
<1>2. \A t, behind : ParseNumber(t, behind)' = NumberOf(signed', t, behind)
  BY DEF ParseNumber, NumberOf, Wrap, MinVal
<1> QED
  BY <1>1, <1>2

LEMMA SameParse ==
    ASSUME signed' = signed
    PROVE  \A f, t, behind : Len(f) \in Nat =>
              ParseFormat(f, t, behind)' = ParseFormat(f, t, behind)
<1>1. ASSUME NEW f, NEW t, NEW behind, NEW m, NEW q
      PROVE  ParseSymbol(f, t, behind, m, q)' = ParseSymbol(f, t, behind, m, q)
  <2>1. \A x : ParseSpecial(f, t, behind, x, q)' = ParseSpecial(f, t, behind, x, q)
    BY SameNumber DEF ParseSpecial
  <2> QED
    BY <2>1 DEF ParseSymbol
<1>2. SUFFICES ASSUME NEW f, NEW t, NEW behind, Len(f) \in Nat
               PROVE  ParseFormat(f, t, behind)' = ParseFormat(f, t, behind)
  OBVIOUS
<1> DEFINE Is(g) == g = [q \in 0 .. Len(f) + 1 |->
                            IF q = 0 THEN [status |-> "OK", outs |-> <<>>, at |-> 1, run |-> 1]
                            ELSE ParseSymbol(f, t, behind, g[q - 1], q)]
           c == CHOOSE g : Is(g)
           Given(g) == LET m == g[Len(f) + 1]
                       IN  [status |-> m.status, outs |-> m.outs,
                            at |-> IF m.status = "OK" THEN m.at ELSE 1]
<1>3. \A g : Is(g)' <=> Is(g)
  BY <1>1
<1>4. ParseFormat(f, t, behind) = Given(c)
  BY DEF ParseFormat
<1>5. ParseFormat(f, t, behind)' = Given(c')
  BY DEF ParseFormat
<1> HIDE DEF Is
<1>6. c' = c
  BY <1>3, Zenon
<1> HIDE DEF Given, c
<1> QED
  BY <1>4, <1>5, <1>6

LEMMA SameUsing ==
    ASSUME UNCHANGED <<signed, format, args, space>>, Using
    PROVE  Using'
BY SamePrintable DEF Using

LEMMA IntoIs ==
    ASSUME signed' = signed, Len(format') \in Nat, ParseInto(format', content')
    PROVE  \E behind \in {0, Open, Minus} : ParsedFor(behind)'
<1>1. PICK behind \in {0, Open, Minus} :
          LET m == ParseFormat(format', content', behind)
          IN  result' = m.status /\ outs' = m.outs /\ upto' = m.at
  BY DEF ParseInto
<1>2. ParseFormat(format, content, behind)' = ParseFormat(format', content', behind)
  BY SameParse
<1>3. ParsedFor(behind)'
  BY <1>1, <1>2 DEF ParsedFor
<1> QED
  BY <1>3

LEMMA FmtInvStep ==
    ASSUME NumInv, NumInv', FmtInv, [FormatsNext]_allVars
    PROVE  FmtInv'
<1>1. 0 .. MaxRoom \subseteq Nat /\ 0 \in 0 .. MaxRoom /\ signed' \in Signs
  <2>1. MaxRoom \in Nat
    BY NumbersAssumption
  <2>2. signed' \in Signs
    BY DEF NumInv, TypeOK
  <2> QED
    BY <2>1, <2>2
<1>2. CASE UNCHANGED formatVars /\ (using = "nothing" \/ UNCHANGED vars)
  <2>1. CASE using = "nothing"
    BY <1>2, <2>1 DEF FmtInv, formatVars, NoFormat
  <2>2. CASE UNCHANGED vars
    <3>1. UNCHANGED <<signed, using, format, args, space, content, result, outs, upto>>
      BY <1>2, <2>2 DEF vars, formatVars
    <3>2. using \in {"insert", "both"} => Using'
      BY <3>1, SameUsing DEF FmtInv
    <3>3. using \in {"parse", "both"} => Len(format) \in Nat
      BY FormatIs DEF FmtInv, Using
    <3>4. ASSUME NEW behind \in {0, Open, Minus}, ParsedFor(behind), Len(format) \in Nat
          PROVE  ParsedFor(behind)'
      <4>1. ParseFormat(format, content, behind)' = ParseFormat(format, content, behind)
        BY <3>1, <3>4, SameParse
      <4> QED
        BY <3>1, <3>4, <4>1 DEF ParsedFor
    <3>5. using \in {"parse", "both"} => (\E behind \in {0, Open, Minus} : ParsedFor(behind)')
      BY <3>3, <3>4 DEF FmtInv
    <3> QED
      BY <3>1, <3>2, <3>5 DEF FmtInv, NoFormat
  <2> QED
    BY <1>2, <2>1, <2>2
<1>3. CASE FormatInsert
  <2>1. signed' = signed /\ Printable' = Printable
    BY <1>3, SamePrintable DEF FormatInsert, vars
  <2>2. using' = "insert" /\ space' \in 0 .. MaxRoom /\ outs' = <<>> /\ upto' = 1
    BY <1>3 DEF FormatInsert, FmtInv, NoFormat
  <2>3. Using'
    BY <1>1, <1>3, <2>1 DEF FormatInsert, Using
  <2>4. /\ content' = InsertFormat(format, args, space)'.text
        /\ result' = InsertFormat(format, args, space)'.status
    BY <1>3 DEF FormatInsert
  <2> QED
    BY <2>2, <2>3, <2>4 DEF FmtInv
<1>4. CASE FormatReread
  <2>1. /\ using' = "both" /\ UNCHANGED <<signed, format, args, space, content>>
        /\ using = "insert" /\ ParseInto(format, content)
    BY <1>4 DEF FormatReread, vars
  <2>2. Using'
    BY <2>1, SameUsing DEF FmtInv
  <2>3. Len(format') \in Nat
    BY <2>1, FormatIs DEF FmtInv, Using
  <2>4. \E behind \in {0, Open, Minus} : ParsedFor(behind)'
    BY <2>1, <2>3, IntoIs
  <2> QED
    BY <2>1, <2>2, <2>4 DEF FmtInv
<1>5. CASE FormatParse
  <2>1. /\ using' = "parse" /\ UNCHANGED space
        /\ format' \in Formats /\ content' \in FormatTexts /\ ParseInto(format', content')
    BY <1>5 DEF FormatParse
  <2>2. Len(format') \in Nat /\ signed' = signed
    BY <1>5, <2>1, FormatsAssumption DEF FormatParse, vars
  <2>3. \E behind \in {0, Open, Minus} : ParsedFor(behind)'
    BY <2>1, <2>2, IntoIs
  <2> QED
    BY <2>1, <2>3 DEF FmtInv
<1>6. CASE FormatDone
  BY <1>1, <1>6 DEF FormatDone, FmtInv, NoFormat
<1> QED
  BY <1>2, <1>3, <1>4, <1>5, <1>6 DEF FormatsNext, allVars

LEMMA FmtInvAlways == FormatsSpec => [](NumInv /\ FmtInv)
<1>1. FormatsInit => FmtInv
  BY NumbersAssumption DEF FormatsInit, NoFormat, FmtInv
<1>2. NumInv /\ NumInv' /\ FmtInv /\ [FormatsNext]_allVars => FmtInv'
  BY FmtInvStep
<1> QED
  BY <1>1, <1>2, NumInvAlways, PTL DEF FormatsSpec

\* shttp_slice_insert_format writes the texts of its format's symbols one
\* after the other, up to the first that is not valid and as much as the
\* buffer has room for, and its status tells which: for formats and buffers of
\* every length and every argument that can be printed.
THEOREM FormatsWritten == FormatsSpec => []FormatText
<1>1. ASSUME FmtInv PROVE FormatText
  <2>1. SUFFICES ASSUME using = "insert"
                 PROVE  LET whole == FlattenSeq(SubSeq(Pieces, 1, Fault - 1))
                        IN  /\ content = SubSeq(whole, 1, Min({space, Len(whole)}))
                            /\ result = IF Len(whole) > space THEN "SLICE_END"
                                        ELSE IF Faulty = {} THEN "OK"
                                        ELSE IF format[Fault] = BadDir THEN "FORMAT_INVALID"
                                        ELSE "SLICE_END"
    BY DEF FormatText, Fault
  <2>2. /\ Using /\ content = InsertFormat(format, args, space).text
        /\ result = InsertFormat(format, args, space).status
    BY <1>1, <2>1 DEF FmtInv
  <2>3. Fault - 1 \in 0 .. Len(format)
    <3>1. Len(format) \in Nat /\ Fault \in 1 .. Len(format) + 1
      BY <2>2, FormatIs, FaultIs DEF Using
    <3> QED
      BY <3>1
  <2>4. FlattenSeq(SubSeq(Pieces, 1, Fault - 1)) = W(Fault - 1)
    BY <2>2, <2>3, FlattenIs
  <2> QED
    BY <2>2, <2>4, InsertIs
<1> QED
  BY <1>1, FmtInvAlways, PTL

-----------------------------------------------------------------------------
(* shttp_slice_parse_format: what it knows behind each symbol *)

Reading == format \in Formats /\ content \in Seq(Int) /\ signed \in Signs

Parses(behind, q) == Run(ParseRun(format, content, behind), Len(format) + 1)[q]
Char(i, behind) == IF i <= Len(content) THEN content[i] ELSE behind

\* What Cuts asks of the part from a to b - 1 for symbol i.
PartIs(i, a, b, loneMinus) ==
    LET part == SubSeq(content, a, b - 1)
        digit == IF signed /\ part # <<>> /\ part[1] = Minus THEN 2 ELSE 1
        next == FirstChar(format, i + 1)
    IN  /\ a <= b
        /\ Literal(format[i]) => part = <<format[i]>>
        /\ format[i] = Escape => part = <<Open>>
        /\ format[i] \in Directives =>
              IF i = Len(format) THEN b = Len(content) + 1
              ELSE /\ next \notin Range(part)
                   /\ b <= Len(content) /\ content[b] = next
        /\ format[i] = SliceDir => Len(part) <= SliceRoom
        /\ format[i] = NumDir =>
              \/ digit <= Len(part) /\ part[digit] \in 0 .. 9
              \/ loneMinus /\ signed /\ part = <<Minus>>

LEMMA CutsAre ==
    ASSUME NEW loneMinus
    PROVE  Cuts(loneMinus) =
              {at \in [1 .. Len(format) + 1 -> 1 .. Len(content) + 1] :
                  at[1] = 1 /\ \A i \in DOMAIN format : PartIs(i, at[i], at[i + 1], loneMinus)}
BY DEF Cuts, PartIs

LEMMA ReadingIs ==
    ASSUME Reading
    PROVE  /\ Len(format) \in Nat /\ Len(content) \in Nat /\ DOMAIN format = 1 .. Len(format)
           /\ \A i \in 1 .. Len(format) : format[i] \in Int
           /\ \A i \in 1 .. Len(content) : content[i] \in Int
<1>1. format \in Formats /\ content \in Seq(Int)
  BY DEF Reading
<1>2. Len(content) \in Nat /\ \A i \in 1 .. Len(content) : content[i] \in Int
  BY <1>1
<1>3. /\ Len(format) \in Nat /\ DOMAIN format = 1 .. Len(format)
      /\ \A i \in 1 .. Len(format) : format[i] \in Int
  BY <1>1, FormatIs
<1> QED
  BY <1>2, <1>3

LEMMA ParsesAre ==
    ASSUME Reading, NEW behind
    PROVE  /\ Parses(behind, 0) = [status |-> "OK", outs |-> <<>>, at |-> 1, run |-> 1]
           /\ \A q \in 1 .. Len(format) + 1 :
                Parses(behind, q) = ParseSymbol(format, content, behind, Parses(behind, q - 1), q)
           /\ LET m == Parses(behind, Len(format) + 1)
              IN  ParseFormat(format, content, behind) =
                      [status |-> m.status, outs |-> m.outs,
                       at |-> IF m.status = "OK" THEN m.at ELSE 1]
<1> DEFINE n == Len(format)
           run == ParseRun(format, content, behind)
<1>1. n \in Nat /\ n + 1 \in Nat
  BY ReadingIs
<1>2. /\ Start(run) = [status |-> "OK", outs |-> <<>>, at |-> 1, run |-> 1]
      /\ \A m, q : After(run, m, q) = ParseSymbol(format, content, behind, m, q)
  BY DEF ParseRun, Start, After
<1>3. LET m == Run(run, n + 1)[n + 1]
      IN  ParseFormat(format, content, behind) =
              [status |-> m.status, outs |-> m.outs, at |-> IF m.status = "OK" THEN m.at ELSE 1]
  BY <1>1, ParseFormatIs
<1> HIDE DEF run
<1>4. /\ Run(run, n + 1)[0] = Start(run)
      /\ \A q \in 1 .. n + 1 : Run(run, n + 1)[q] = After(run, Run(run, n + 1)[q - 1], q)
  BY <1>1, RunIs
<1> QED
  BY <1>2, <1>3, <1>4 DEF Parses, run

\* The literals r .. q - 1 are at a.
LEMMA LiteralsAtIs ==
    ASSUME Reading, NEW r \in 1 .. Len(format) + 1, NEW q \in r .. Len(format) + 1,
           NEW a \in 1 .. Len(content) + 1
    PROVE  /\ LiteralsAt(format, r, q, content, a) \in {"OK", "SLICE_END", "VALUE_INVALID"}
           /\ LiteralsAt(format, r, q, content, a) = "OK" <=>
                /\ a + (q - r) <= Len(content) + 1
                /\ \A j \in r .. q - 1 : content[a + (j - r)] = format[j]
<1> DEFINE l == Len(content)
           s == SubSeq(content, a, a + (q - r) - 1)
           t == SubSeq(format, r, q - 1)
<1>1. Len(format) \in Nat /\ l \in Nat /\ content \in Seq(Int) /\ format \in Seq(Int)
  <2>1. format \in Seq(Int)
    BY FormatIs DEF Reading
  <2> QED
    BY <2>1, ReadingIs DEF Reading
<1>2. r \in Nat /\ q \in Nat /\ a \in Nat /\ r <= q /\ q <= Len(format) + 1 /\ r >= 1
  BY <1>1
<1>3. /\ t \in Seq(Int) /\ Len(t) = q - r
      /\ \A j \in 1 .. q - r : t[j] = format[r - 1 + j]
  <2>1. q - 1 \in r - 1 .. Len(format)
    BY <1>1, <1>2
  <2>2. q - 1 - r + 1 = q - r
    BY <1>2
  <2> QED
    BY <1>1, <2>1, <2>2, SubSeqIs
<1>4. ASSUME a + (q - r) <= l + 1
      PROVE  /\ s \in Seq(Int) /\ Len(s) = q - r
             /\ \A j \in 1 .. q - r : s[j] = content[a - 1 + j]
  <2>1. a + (q - r) - 1 \in a - 1 .. l
    BY <1>1, <1>2, <1>4
  <2>2. a + (q - r) - 1 - a + 1 = q - r
    BY <1>2
  <2> QED
    BY <1>1, <2>1, <2>2, SubSeqIs
<1>5. LiteralsAt(format, r, q, content, a) =
         IF a + (q - r) > l + 1 THEN "SLICE_END" ELSE IF s = t THEN "OK" ELSE "VALUE_INVALID"
  BY DEF LiteralsAt
<1> HIDE DEF s, t
<1>6. ASSUME a + (q - r) <= l + 1
      PROVE  s = t <=> \A j \in r .. q - 1 : content[a + (j - r)] = format[j]
  <2>1. ASSUME s = t, NEW j \in r .. q - 1 PROVE content[a + (j - r)] = format[j]
    <3> DEFINE i == j - r + 1
    <3>1. i \in 1 .. q - r /\ r - 1 + i = j /\ a - 1 + i = a + (j - r)
      BY <1>2
    <3>2. t[i] = format[r - 1 + i] /\ s[i] = content[a - 1 + i]
      BY <1>3, <1>4, <1>6, <3>1
    <3> HIDE DEF i
    <3> QED
      BY <2>1, <3>1, <3>2
  <2>2. ASSUME \A j \in r .. q - 1 : content[a + (j - r)] = format[j] PROVE s = t
    <3>1. ASSUME NEW i \in 1 .. q - r PROVE s[i] = t[i]
      <4> DEFINE j == r - 1 + i
      <4>1. j \in r .. q - 1 /\ a - 1 + i = a + (j - r)
        BY <1>2
      <4> HIDE DEF j
      <4>2. content[a + (j - r)] = format[j]
        BY <2>2, <4>1
      <4> QED
        BY <1>3, <1>4, <1>6, <4>1, <4>2 DEF j
    <3>2. s \in Seq(Int) /\ t \in Seq(Int) /\ Len(s) = q - r /\ Len(t) = q - r
      BY <1>3, <1>4, <1>6
    <3> QED
      BY <3>1, <3>2
  <2> QED
    BY <2>1, <2>2
<1>7. a + (q - r) \in Int /\ l + 1 \in Int
  BY <1>1, <1>2
<1> QED
  BY <1>5, <1>6, <1>7

\* A directive's text goes up to the first character that follows it.
Follows(q, a, b) ==
    /\ b \in a .. Len(content) + 1
    /\ IF q = Len(format) THEN b = Len(content) + 1
       ELSE /\ b <= Len(content) /\ content[b] = FirstChar(format, q + 1)
            /\ \A i \in a .. b - 1 : content[i] # FirstChar(format, q + 1)

LEMMA RegionEndIs ==
    ASSUME Reading, NEW q \in 1 .. Len(format), NEW a \in 1 .. Len(content) + 1
    PROVE  LET to == RegionEnd(format, q, content, a)
           IN  /\ to = 0 \/ Follows(q, a, to)
               /\ \A b \in a .. Len(content) + 1 : Follows(q, a, b) => to = b
<1> DEFINE l == Len(content)
           next == FirstChar(format, q + 1)
           marks == {i \in a .. l : content[i] = next}
           to == RegionEnd(format, q, content, a)
<1>1. l \in Nat /\ Len(format) \in Nat /\ a \in Nat /\ a <= l + 1 /\ a >= 1
  BY ReadingIs
<1>2. to = IF q = Len(format) THEN l + 1 ELSE IF marks = {} THEN 0 ELSE Min(marks)
  BY DEF RegionEnd
<1> HIDE DEF to, next
<1>3. CASE q = Len(format)
  <2>1. to = l + 1 /\ l + 1 \in a .. l + 1
    BY <1>1, <1>2, <1>3
  <2> QED
    BY <1>3, <2>1 DEF Follows, to
<1>4. CASE q # Len(format)
  <2>1. ASSUME marks # {}
        PROVE  to \in marks /\ \A y \in marks : to <= y
    <3>1. marks \subseteq Nat
      BY <1>1
    <3> HIDE DEF marks
    <3>2. Min(marks) \in marks /\ \A y \in marks : Min(marks) <= y
      BY <2>1, <3>1, MinIsLeast
    <3> QED
      BY <1>2, <1>4, <2>1, <3>2
  <2>2. CASE marks = {}
    <3>1. to = 0
      BY <1>2, <1>4, <2>2
    <3>2. \A b \in a .. l + 1 : ~Follows(q, a, b)
      <4>1. SUFFICES ASSUME NEW b \in a .. l + 1, Follows(q, a, b) PROVE FALSE
        OBVIOUS
      <4>2. b <= l /\ content[b] = next /\ b \in a .. l
        BY <1>1, <1>4, <4>1 DEF Follows, next
      <4> QED
        BY <2>2, <4>2
    <3> QED
      BY <3>1, <3>2 DEF to
  <2>3. CASE marks # {}
    <3>1. to \in a .. l /\ content[to] = next /\ \A y \in a .. l : content[y] = next => to <= y
      BY <2>1, <2>3
    <3>2. Follows(q, a, to)
      <4>1. \A i \in a .. to - 1 : i \in a .. l /\ ~(to <= i)
        BY <1>1, <3>1
      <4>2. to \in a .. l + 1 /\ to <= l
        BY <1>1, <3>1
      <4> QED
        BY <1>4, <3>1, <4>1, <4>2 DEF Follows, next
    <3>3. ASSUME NEW b \in a .. l + 1, Follows(q, a, b) PROVE to = b
      <4>1. /\ b <= l /\ content[b] = next /\ b \in a .. l
            /\ \A i \in a .. b - 1 : content[i] # next
        BY <1>1, <1>4, <3>3 DEF Follows, next
      <4>2. to <= b /\ ~(to \in a .. b - 1)
        BY <3>1, <4>1
      <4> QED
        BY <1>1, <3>1, <4>1, <4>2
    <3> QED
      BY <3>2, <3>3 DEF to
  <2> QED
    BY <2>2, <2>3
<1> QED
  BY <1>3, <1>4

\* Symbol q of the format, which is no literal, from a on: what a parse that
\* has given out outs knows behind it.
Went(x, outs1, at1, q) ==
    /\ x.status = "OK" /\ x.outs = outs1 /\ x.at = at1 /\ x.run = q + 1
    /\ DOMAIN x = {"status", "outs", "at", "run"}
Failed(x, outs1) ==
    /\ x.status \in {"SLICE_END", "VALUE_INVALID", "FORMAT_INVALID"} /\ x.outs = outs1

LEMMA ParseSpecialIs ==
    ASSUME Reading, NEW behind, NEW q \in 1 .. Len(format), ~Literal(format[q]),
           NEW m, DOMAIN m = {"status", "outs", "at", "run"}, m.status = "OK",
           m.at \in 1 .. Len(content) + 1
    PROVE  LET x == ParseSpecial(format, content, behind, m, q)
               to == RegionEnd(format, q, content, m.at)
               part == SubSeq(content, m.at, to - 1)
               number == ParseNumber(part, Char(to, behind))
           IN  /\ format[q] = Escape =>
                     IF m.at <= Len(content) /\ Char(m.at, behind) = Open
                     THEN Went(x, m.outs, m.at + 1, q) ELSE Failed(x, m.outs)
               /\ q \in Faulty => Failed(x, m.outs)
               /\ format[q] \in Directives /\ to = 0 => Failed(x, m.outs)
               /\ format[q] = SliceDir /\ to # 0 =>
                     IF Len(part) <= SliceRoom
                     THEN Went(x, Append(m.outs, [num |-> 0, str |-> part]), to, q)
                     ELSE Failed(x, Append(m.outs, [num |-> 0, str |-> SubSeq(part, 1, SliceRoom)]))
               /\ format[q] = NumDir /\ to # 0 =>
                     IF number.status = "OK"
                     THEN Went(x, Append(m.outs, [num |-> number.out, str |-> <<>>]), to, q)
                     ELSE Failed(x, m.outs)
<1> DEFINE x == ParseSpecial(format, content, behind, m, q)
           to == RegionEnd(format, q, content, m.at)
           part == SubSeq(content, m.at, to - 1)
           number == ParseNumber(part, Char(to, behind))
           filled == SubSeq(part, 1, Min({SliceRoom, Len(part)}))
<1>1. /\ Escape # NumDir /\ Escape # SliceDir /\ Escape # BadDir /\ Escape # Unclosed
      /\ NumDir # SliceDir /\ NumDir # BadDir /\ NumDir # Unclosed
      /\ SliceDir # BadDir /\ SliceDir # Unclosed /\ BadDir # Unclosed
  BY DEF Escape, NumDir, SliceDir, BadDir, Unclosed
<1>2. x = IF format[q] = Escape THEN
              IF Char(m.at, behind) # Open THEN [m EXCEPT !.status = "FORMAT_INVALID"]
              ELSE IF m.at > Len(content) THEN [m EXCEPT !.status = "SLICE_END"]
              ELSE [m EXCEPT !.at = m.at + 1, !.run = q + 1]
          ELSE IF format[q] = Unclosed THEN [m EXCEPT !.status = "FORMAT_INVALID"]
          ELSE IF to = 0 THEN [m EXCEPT !.status = "VALUE_INVALID"]
          ELSE IF format[q] = BadDir THEN [m EXCEPT !.status = "FORMAT_INVALID"]
          ELSE IF format[q] = SliceDir THEN
              [status |-> IF Len(part) > SliceRoom THEN "SLICE_END" ELSE "OK",
               outs |-> Append(m.outs, [num |-> 0, str |-> filled]), at |-> to, run |-> q + 1]
          ELSE IF number.status # "OK" THEN [m EXCEPT !.status = number.status]
          ELSE [status |-> "OK", outs |-> Append(m.outs, [num |-> number.out, str |-> <<>>]),
                at |-> to, run |-> q + 1]
  BY DEF ParseSpecial, Char
<1>3. Len(content) \in Nat /\ m.at \in Nat /\ content \in Seq(Int) /\ signed \in Signs
  BY ReadingIs DEF Reading
<1>4. to # 0 => to \in m.at .. Len(content) + 1
  BY RegionEndIs DEF Follows
<1>5. to # 0 => part \in Seq(Int) /\ Len(part) \in Nat
  <2>1. SUFFICES ASSUME to # 0 PROVE part \in Seq(Int)
    BY DEF part
  <2>2. to - 1 \in m.at - 1 .. Len(content)
    BY <1>3, <1>4, <2>1
  <2> HIDE DEF to
  <2> QED
    BY <1>3, <2>2, SubSeqIs
<1>6. to # 0 => filled = IF Len(part) <= SliceRoom THEN part ELSE SubSeq(part, 1, SliceRoom)
  <2>1. SUFFICES ASSUME to # 0 PROVE filled = IF Len(part) <= SliceRoom THEN part
                                              ELSE SubSeq(part, 1, SliceRoom)
    OBVIOUS
  <2>2. part \in Seq(Int) /\ Len(part) \in Nat /\ SliceRoom \in Nat
    BY <1>5, <2>1, FormatsAssumption
  <2> HIDE DEF part
  <2>3. Min({SliceRoom, Len(part)}) = IF SliceRoom <= Len(part) THEN SliceRoom ELSE Len(part)
    BY <2>2, MinOfTwo
  <2>4. SubSeq(part, 1, Len(part)) = part
    BY <2>2
  <2>5. CASE Len(part) <= SliceRoom
    <3>1. Min({SliceRoom, Len(part)}) = Len(part)
      BY <2>2, <2>3, <2>5
    <3> QED
      BY <2>4, <2>5, <3>1
  <2>6. CASE ~(Len(part) <= SliceRoom)
    <3>1. Min({SliceRoom, Len(part)}) = SliceRoom
      BY <2>2, <2>3, <2>6
    <3> QED
      BY <2>6, <3>1
  <2> QED
    BY <2>5, <2>6
<1>7. to # 0 => number.status \in {"OK", "SLICE_END", "VALUE_INVALID"}
  <2> HIDE DEF part, to
  <2> QED
    BY <1>3, <1>5, ParseIs
<1> HIDE DEF x, to, part, number, filled
<1>8. format[q] = Escape =>
         IF m.at <= Len(content) /\ Char(m.at, behind) = Open
         THEN Went(x, m.outs, m.at + 1, q) ELSE Failed(x, m.outs)
  BY <1>2, <1>3 DEF Went, Failed
<1>9. q \in Faulty => Failed(x, m.outs)
  BY <1>1, <1>2, SymbolIs DEF Failed, Reading
<1>10. format[q] \in Directives /\ to = 0 => Failed(x, m.outs)
  BY <1>1, <1>2 DEF Failed, Directives
<1>11. format[q] = SliceDir /\ to # 0 =>
          IF Len(part) <= SliceRoom
          THEN Went(x, Append(m.outs, [num |-> 0, str |-> part]), to, q)
          ELSE Failed(x, Append(m.outs, [num |-> 0, str |-> SubSeq(part, 1, SliceRoom)]))
  <2>1. SUFFICES ASSUME format[q] = SliceDir, to # 0
                 PROVE  IF Len(part) <= SliceRoom
                        THEN Went(x, Append(m.outs, [num |-> 0, str |-> part]), to, q)
                        ELSE Failed(x, Append(m.outs, [num |-> 0, str |-> SubSeq(part, 1, SliceRoom)]))
    OBVIOUS
  <2>2. x = [status |-> IF Len(part) > SliceRoom THEN "SLICE_END" ELSE "OK",
             outs |-> Append(m.outs, [num |-> 0, str |-> filled]), at |-> to, run |-> q + 1]
    BY <1>1, <1>2, <2>1
  <2>3. Len(part) \in Nat /\ SliceRoom \in Nat
    BY <1>5, <2>1, FormatsAssumption
  <2>4. CASE Len(part) <= SliceRoom
    <3>1. filled = part /\ ~(Len(part) > SliceRoom)
      BY <1>6, <2>1, <2>3, <2>4
    <3> QED
      BY <2>2, <2>4, <3>1 DEF Went
  <2>5. CASE ~(Len(part) <= SliceRoom)
    <3>1. filled = SubSeq(part, 1, SliceRoom) /\ Len(part) > SliceRoom
      BY <1>6, <2>1, <2>3, <2>5
    <3> QED
      BY <2>2, <2>5, <3>1 DEF Failed
  <2> QED
    BY <2>4, <2>5
<1>12. format[q] = NumDir /\ to # 0 =>
          IF number.status = "OK"
          THEN Went(x, Append(m.outs, [num |-> number.out, str |-> <<>>]), to, q)
          ELSE Failed(x, m.outs)
  <2>1. SUFFICES ASSUME format[q] = NumDir, to # 0
                 PROVE  IF number.status = "OK"
                        THEN Went(x, Append(m.outs, [num |-> number.out, str |-> <<>>]), to, q)
                        ELSE Failed(x, m.outs)
    OBVIOUS
  <2>2. x = IF number.status # "OK" THEN [m EXCEPT !.status = number.status]
            ELSE [status |-> "OK", outs |-> Append(m.outs, [num |-> number.out, str |-> <<>>]),
                  at |-> to, run |-> q + 1]
    BY <1>1, <1>2, <2>1
  <2> QED
    BY <1>7, <2>1, <2>2 DEF Went, Failed
<1> QED
  BY <1>8, <1>9, <1>10, <1>11, <1>12 DEF x, to, part, number

\* A part as a parse takes it, with or without a digit behind a minus.
Taken(i, a, b) == PartIs(i, a, b, TRUE)

LEMMA OneLong ==
    ASSUME NEW s \in Seq(Int), Len(s) = 1
    PROVE  s = <<s[1]>>
OBVIOUS

LEMMA LiteralPart ==
    ASSUME NEW i, NEW a, NEW b, Literal(format[i]), a <= b,
           SubSeq(content, a, b - 1) = <<format[i]>>
    PROVE  Taken(i, a, b)
<1>1. /\ format[i] # Escape /\ format[i] \notin Directives
      /\ format[i] # SliceDir /\ format[i] # NumDir
  BY DEF Literal, Escape, Directives, SliceDir, NumDir
<1> QED
  BY <1>1, Zenon DEF PartIs, Taken

\* A part that the parse has taken for symbol q is one that Cuts allows.
LEMMA PartTaken ==
    ASSUME Reading, NEW behind, NEW q \in 1 .. Len(format), NEW a \in 1 .. Len(content) + 1,
           NEW b,
           \/ /\ format[q] = Escape /\ b = a + 1 /\ a <= Len(content)
              /\ Char(a, behind) = Open
           \/ /\ format[q] = SliceDir /\ Follows(q, a, b)
              /\ Len(SubSeq(content, a, b - 1)) <= SliceRoom
           \/ /\ format[q] = NumDir /\ Follows(q, a, b)
              /\ ParseNumber(SubSeq(content, a, b - 1), Char(b, behind)).status = "OK"
    PROVE  Taken(q, a, b) /\ b \in 1 .. Len(content) + 1
<1> DEFINE l == Len(content)
           part == SubSeq(content, a, b - 1)
           next == FirstChar(format, q + 1)
<1>1. /\ l \in Nat /\ a \in Nat /\ a >= 1 /\ content \in Seq(Int) /\ signed \in Signs
      /\ Len(format) \in Nat
  BY ReadingIs DEF Reading
<1>2. /\ Escape # NumDir /\ Escape # SliceDir /\ NumDir # SliceDir
      /\ ~Literal(Escape) /\ ~Literal(NumDir) /\ ~Literal(SliceDir)
      /\ Escape \notin Directives
  BY DEF Escape, NumDir, SliceDir, Literal, Directives
<1>3. a <= b /\ b \in 1 .. l + 1
  BY <1>1 DEF Follows
<1>4. /\ part \in Seq(Int) /\ Len(part) = b - a
      /\ \A i \in 1 .. b - a : part[i] = content[a - 1 + i]
  <2>1. b - 1 \in a - 1 .. l /\ b - 1 - a + 1 = b - a
    BY <1>1, <1>3
  <2> QED
    BY <1>1, <2>1, SubSeqIs
<1> HIDE DEF part, next
<1>5. ASSUME Follows(q, a, b)
      PROVE  IF q = Len(format) THEN b = l + 1
             ELSE next \notin Range(part) /\ b <= l /\ content[b] = next
  <2>1. CASE q = Len(format)
    BY <1>5, <2>1 DEF Follows
  <2>2. CASE q # Len(format)
    <3>1. b <= l /\ content[b] = next /\ \A i \in a .. b - 1 : content[i] # next
      BY <1>5, <2>2 DEF Follows, next
    <3>2. \A i \in 1 .. b - a : part[i] # next
      <4>1. TAKE i \in 1 .. b - a
      <4>2. a - 1 + i \in a .. b - 1
        BY <1>1, <1>3
      <4> QED
        BY <1>4, <3>1, <4>2
    <3>3. DOMAIN part = 1 .. b - a
      BY <1>4
    <3> QED
      BY <2>2, <3>1, <3>2, <3>3 DEF Range
  <2> QED
    BY <2>1, <2>2
<1>6. Taken(q, a, b) <=>
         LET digit == IF signed /\ part # <<>> /\ part[1] = Minus THEN 2 ELSE 1
         IN  /\ a <= b
             /\ Literal(format[q]) => part = <<format[q]>>
             /\ format[q] = Escape => part = <<Open>>
             /\ format[q] \in Directives =>
                   IF q = Len(format) THEN b = Len(content) + 1
                   ELSE /\ next \notin Range(part)
                        /\ b <= Len(content) /\ content[b] = next
             /\ format[q] = SliceDir => Len(part) <= SliceRoom
             /\ format[q] = NumDir =>
                   \/ digit <= Len(part) /\ part[digit] \in 0 .. 9
                   \/ signed /\ part = <<Minus>>
  BY DEF PartIs, Taken, part, next
<1>7. CASE format[q] = Escape /\ b = a + 1 /\ a <= l /\ Char(a, behind) = Open
  <2>1. Len(part) = 1 /\ part[1] = content[a]
    BY <1>1, <1>4, <1>7
  <2>2. part = <<content[a]>> /\ content[a] = Open
    BY <1>4, <1>7, <2>1 DEF Char
  <2> QED
    BY <1>2, <1>3, <1>6, <1>7, <2>2
<1>8. CASE format[q] = SliceDir /\ Follows(q, a, b) /\ Len(part) <= SliceRoom
  BY <1>2, <1>3, <1>5, <1>6, <1>8
<1>9. CASE /\ format[q] = NumDir /\ Follows(q, a, b)
           /\ ParseNumber(part, Char(b, behind)).status = "OK"
  <2> DEFINE digit == IF signed /\ part # <<>> /\ part[1] = Minus THEN 2 ELSE 1
  <2>1. digit = FirstOf(part)
    BY DEF FirstOf, MinusAt
  <2>2. /\ part # <<>>
        /\ StopOf(part) # FirstOf(part) \/ (MinusAt(part) /\ Len(part) = 1)
    BY <1>1, <1>4, <1>9, ParseIs
  <2>3. /\ FirstOf(part) \in 1 .. 2 /\ StopOf(part) \in FirstOf(part) .. Len(part) + 1
        /\ \A i \in FirstOf(part) .. StopOf(part) - 1 : part[i] \in Digits
    BY <1>4, StopIs
  <2> HIDE DEF digit
  <2>4. (digit <= Len(part) /\ part[digit] \in 0 .. 9) \/ (signed /\ part = <<Minus>>)
    <3>1. CASE StopOf(part) # FirstOf(part)
      <4>1. /\ FirstOf(part) \in FirstOf(part) .. StopOf(part) - 1
            /\ FirstOf(part) <= Len(part)
        <5> DEFINE u == FirstOf(part)
                   v == StopOf(part)
        <5>1. u \in 1 .. 2 /\ v \in u .. Len(part) + 1 /\ u # v /\ Len(part) \in Nat
          BY <1>4, <2>3, <3>1
        <5> HIDE DEF u, v
        <5>2. u \in u .. v - 1 /\ u <= Len(part)
          BY <5>1
        <5> QED
          BY <5>2 DEF u, v
      <4> QED
        BY <2>1, <2>3, <4>1 DEF Digits
    <3>2. CASE MinusAt(part) /\ Len(part) = 1
      <4>1. part = <<part[1]>>
        BY <1>4, <3>2, OneLong
      <4> QED
        BY <3>2, <4>1 DEF MinusAt
    <3> QED
      BY <2>2, <3>1, <3>2
  <2> QED
    BY <1>2, <1>3, <1>5, <1>6, <1>9, <2>4 DEF digit
<1> QED
  BY <1>3, <1>7, <1>8, <1>9 DEF part

\* The text cut up to symbol k.
Part(at, i) == SubSeq(content, at[i], at[i + 1] - 1)
CutTo(at, k) ==
    /\ at \in [1 .. Len(format) + 1 -> 1 .. Len(content) + 1] /\ at[1] = 1
    /\ \A i \in 1 .. k - 1 : Taken(i, at[i], at[i + 1])

\* The cut goes on behind symbol q,
LEMMA CutOn ==
    ASSUME Reading, NEW q \in 1 .. Len(format), NEW at, CutTo(at, q), NEW b,
           Taken(q, at[q], b), b \in 1 .. Len(content) + 1
    PROVE  \E cut : /\ CutTo(cut, q + 1) /\ cut[q + 1] = b
                    /\ \A i \in 1 .. q : cut[i] = at[i]
<1> DEFINE n == Len(format)
           cut == [i \in 1 .. n + 1 |-> IF i = q + 1 THEN b ELSE at[i]]
<1>1. n \in Nat /\ q \in Nat /\ q >= 1 /\ q <= n
  BY ReadingIs
<1>2. at \in [1 .. n + 1 -> 1 .. Len(content) + 1] /\ at[1] = 1
      /\ \A i \in 1 .. q - 1 : Taken(i, at[i], at[i + 1])
  BY DEF CutTo
<1>3. cut \in [1 .. n + 1 -> 1 .. Len(content) + 1]
  BY <1>2
<1>4. /\ cut[q + 1] = b /\ \A i \in 1 .. q : cut[i] = at[i]
  BY <1>1
<1> HIDE DEF cut
<1>5. ASSUME NEW i \in 1 .. q PROVE Taken(i, cut[i], cut[i + 1])
  <2>1. CASE i = q
    BY <1>4, <2>1
  <2>2. CASE i # q
    <3>1. i \in 1 .. q - 1 /\ i + 1 \in 1 .. q
      BY <1>1, <2>2
    <3> QED
      BY <1>2, <1>4, <3>1
  <2> QED
    BY <2>1, <2>2
<1>7. CutTo(cut, q + 1)
  <2>1. 1 \in 1 .. q
    BY <1>1
  <2>2. cut[1] = 1
    BY <1>2, <1>4, <2>1
  <2> DEFINE k == q + 1
  <2>3. \A i \in 1 .. k - 1 : Taken(i, cut[i], cut[i + 1])
    <3>1. k - 1 = q
      BY <1>1
    <3> QED
      BY <1>5, <3>1
  <2> HIDE DEF k
  <2>4. CutTo(cut, k)
    BY <1>3, <2>2, <2>3, Zenon DEF CutTo
  <2> QED
    BY <2>4 DEF k
<1> QED
  BY <1>4, <1>7

\* and over the literals r .. q - 1.
LEMMA CutLiterals ==
    ASSUME Reading, NEW r \in 1 .. Len(format) + 1, NEW q \in r .. Len(format) + 1,
           NEW at, CutTo(at, r), \A j \in r .. q - 1 : Literal(format[j]),
           at[r] + (q - r) <= Len(content) + 1,
           \A j \in r .. q - 1 : content[at[r] + (j - r)] = format[j]
    PROVE  \E cut : /\ CutTo(cut, q) /\ cut[q] = at[r] + (q - r)
                    /\ \A i \in 1 .. r : cut[i] = at[i]
<1> DEFINE n == Len(format)
           l == Len(content)
           a == at[r]
           cut == [i \in 1 .. n + 1 |-> IF i \in r .. q THEN a + (i - r) ELSE at[i]]
<1>1. n \in Nat /\ l \in Nat /\ r \in Nat /\ q \in Nat /\ r >= 1 /\ r <= q /\ q <= n + 1
      /\ content \in Seq(Int)
  BY ReadingIs DEF Reading
<1>2. at \in [1 .. n + 1 -> 1 .. l + 1] /\ at[1] = 1
      /\ \A i \in 1 .. r - 1 : Taken(i, at[i], at[i + 1])
  BY DEF CutTo
<1>3. a \in Nat /\ a >= 1 /\ a + (q - r) <= l + 1
  <2>1. r \in 1 .. n + 1
    BY <1>1
  <2>2. a \in 1 .. l + 1
    BY <1>2, <2>1
  <2>3. a + (q - r) <= l + 1
    OBVIOUS
  <2> HIDE DEF a
  <2> QED
    BY <1>1, <2>2, <2>3
<1>4. cut \in [1 .. n + 1 -> 1 .. l + 1]
  BY <1>1, <1>2, <1>3
<1>5. /\ \A i \in 1 .. r : cut[i] = at[i]
      /\ \A i \in r .. q : cut[i] = a + (i - r)
  <2>1. ASSUME NEW i \in 1 .. r PROVE cut[i] = at[i]
    <3>1. CASE i = r
      BY <1>1, <1>3, <3>1
    <3>2. CASE i # r
      BY <1>1, <3>2
    <3> QED
      BY <3>1, <3>2
  <2>2. ASSUME NEW i \in r .. q PROVE cut[i] = a + (i - r)
    BY <1>1
  <2> QED
    BY <2>1, <2>2
<1> HIDE DEF cut, a
<1>6. ASSUME NEW i \in 1 .. q - 1 PROVE Taken(i, cut[i], cut[i + 1])
  <2>1. CASE i < r
    <3>1. i \in 1 .. r - 1 /\ i \in 1 .. r /\ i + 1 \in 1 .. r
      BY <1>1, <2>1
    <3> QED
      BY <1>2, <1>5, <3>1
  <2>2. CASE ~(i < r)
    <3> DEFINE b == a + (i - r)
               part == SubSeq(content, b, b)
    <3>1. i \in r .. q - 1 /\ i \in r .. q /\ i + 1 \in r .. q
      BY <1>1, <2>2
    <3>2. cut[i] = b /\ cut[i + 1] = b + 1
      BY <1>1, <1>3, <1>5, <3>1
    <3>3. b \in 1 .. l /\ b \in 1 .. l + 1 /\ b \in b - 1 .. l /\ b - b + 1 = 1
      BY <1>1, <1>3, <3>1
    <3>4. Literal(format[i]) /\ content[b] = format[i]
      BY <3>1 DEF a
    <3> HIDE DEF b
    <3>5. part \in Seq(Int) /\ Len(part) = 1 /\ part[1] = content[b - 1 + 1]
      <4>1. /\ part \in Seq(Int) /\ Len(part) = b - b + 1
            /\ \A x \in 1 .. b - b + 1 : part[x] = content[b - 1 + x]
        BY <1>1, <3>3, SubSeqIs
      <4>2. 1 \in 1 .. b - b + 1
        BY <3>3
      <4> HIDE DEF part
      <4> QED
        BY <3>3, <4>1, <4>2
    <3>6. part = <<format[i]>>
      <4>1. b - 1 + 1 = b
        BY <3>3
      <4>2. part[1] = format[i]
        BY <3>4, <3>5, <4>1
      <4> HIDE DEF part
      <4> QED
        BY <3>5, <4>2, OneLong
    <3>7. b <= b + 1
      BY <3>3
    <3>8. Taken(i, b, b + 1)
      <4> DEFINE c == b + 1
      <4>1. SubSeq(content, b, c - 1) = <<format[i]>> /\ b <= c /\ Literal(format[i])
        <5>1. c - 1 = b
          BY <3>3
        <5> HIDE DEF b
        <5> QED
          BY <3>4, <3>6, <3>7, <5>1
      <4> HIDE DEF c
      <4>2. Taken(i, b, c)
        BY <4>1, LiteralPart, Zenon
      <4> QED
        BY <4>2 DEF c
    <3> QED
      BY <3>2, <3>8
  <2> QED
    BY <2>1, <2>2
<1>7. 1 \in 1 .. r /\ q \in r .. q
  BY <1>1
<1>8. CutTo(cut, q)
  BY <1>2, <1>4, <1>5, <1>6, <1>7 DEF CutTo
<1> QED
  BY <1>5, <1>7, <1>8 DEF a

\* What a parse has given out: one output for each directive.
Outs == [num : Int, str : Seq(Int)]

LEMMA AppendOuts ==
    ASSUME Reading, NEW q \in 1 .. Len(format), format[q] \in Directives,
           NEW outs1 \in Seq(Outs), Len(outs1) = Nth(q - 1), NEW o \in Outs
    PROVE  LET more == Append(outs1, o)
           IN  /\ more \in Seq(Outs) /\ Len(more) = Nth(q) /\ more[Nth(q)] = o
               /\ \A i \in 1 .. q - 1 : format[i] \in Directives => more[Nth(i)] = outs1[Nth(i)]
<1>1. /\ Len(format) \in Nat /\ q - 1 \in 0 .. Len(format) /\ q \in Nat
      /\ format \in Formats
  BY ReadingIs DEF Reading
<1>2. Nth(q) = Nth(q - 1) + 1 /\ Nth(q - 1) \in Nat
  BY <1>1, NthIs
<1>3. ASSUME NEW i \in 1 .. q - 1, format[i] \in Directives
      PROVE  Nth(i) \in 1 .. Nth(q - 1)
  <2>1. i \in 1 .. Len(format) /\ i \in 0 .. Len(format) /\ i - 1 \in 0 .. Len(format)
        /\ q - 1 \in i .. Len(format)
    BY <1>1
  <2>2. Nth(i) = Nth(i - 1) + 1 /\ Nth(i - 1) \in Nat /\ Nth(i) <= Nth(q - 1)
    BY <1>1, <1>3, <2>1, NthIs
  <2> QED
    BY <1>2, <2>2
<1> DEFINE k == Nth(q - 1)
           more == Append(outs1, o)
<1>4. k \in Nat /\ Len(outs1) = k
  BY <1>2
<1> HIDE DEF k
<1>5. /\ more \in Seq(Outs) /\ Len(more) = k + 1 /\ more[k + 1] = o
      /\ \A x \in 1 .. k : more[x] = outs1[x]
  BY <1>4
<1> HIDE DEF more
<1>6. /\ more \in Seq(Outs) /\ Len(more) = Nth(q) /\ more[Nth(q)] = o
      /\ \A x \in 1 .. Nth(q - 1) : more[x] = outs1[x]
  BY <1>2, <1>5 DEF k
<1> QED
  BY <1>3, <1>6 DEF more

\* Behind symbol q a parse goes on, with the text cut up to a literal that it
\* has still to compare, or it has failed.
GaveOut(at, o, k) ==
    \A i \in 1 .. k - 1 : format[i] = SliceDir => o[Nth(i)].str = Part(at, i)

Going(m, q) ==
    /\ m.status = "OK" /\ DOMAIN m = {"status", "outs", "at", "run"}
    /\ m.run \in 1 .. q + 1 /\ \A j \in m.run .. q : Literal(format[j])
    /\ m.at \in 1 .. Len(content) + 1 /\ m.outs \in Seq(Outs) /\ Len(m.outs) = Nth(q)
    /\ Sound(m.run - 1)
    /\ \E at : CutTo(at, m.run) /\ at[m.run] = m.at /\ GaveOut(at, m.outs, m.run)

Stopped(m) ==
    /\ m.status \in {"SLICE_END", "VALUE_INVALID", "FORMAT_INVALID"}
    /\ m.outs \in Seq(Outs) /\ Len(m.outs) <= Len(format)

\* The literals in front of symbol q.
Moved(m, q) == [m EXCEPT !.at = m.at + (q - m.run)]

LEMMA LiteralsPassed ==
    ASSUME Reading, NEW q \in 1 .. Len(format) + 1, NEW m, Going(m, q - 1)
    PROVE  LET s == LiteralsAt(format, m.run, q, content, m.at)
           IN  /\ s \in {"OK", "SLICE_END", "VALUE_INVALID"}
               /\ s = "OK" => LET x == Moved(m, q)
                              IN  /\ x.status = "OK" /\ x.outs = m.outs /\ Sound(q - 1)
                                  /\ DOMAIN x = {"status", "outs", "at", "run"}
                                  /\ x.at = m.at + (q - m.run)
                                  /\ x.at \in 1 .. Len(content) + 1
                                  /\ \E at : /\ CutTo(at, q) /\ at[q] = x.at
                                             /\ GaveOut(at, m.outs, q)
<1> DEFINE r == m.run
           a == m.at
           x == Moved(m, q)
<1>1. /\ m.status = "OK" /\ DOMAIN m = {"status", "outs", "at", "run"}
      /\ m.run \in 1 .. (q - 1) + 1 /\ \A j \in m.run .. q - 1 : Literal(format[j])
      /\ m.at \in 1 .. Len(content) + 1 /\ Sound(m.run - 1)
  BY DEF Going
<1>2. PICK at : CutTo(at, m.run) /\ at[m.run] = m.at /\ GaveOut(at, m.outs, m.run)
  BY DEF Going
<1>3. /\ Len(format) \in Nat /\ Len(content) \in Nat /\ q \in Nat /\ r \in 1 .. Len(format) + 1
      /\ q \in r .. Len(format) + 1 /\ r \in Nat /\ a \in Nat /\ a >= 1
  <2>1. Len(format) \in Nat /\ Len(content) \in Nat
    BY ReadingIs
  <2> QED
    BY <1>1, <2>1
<1>4. /\ LiteralsAt(format, r, q, content, a) \in {"OK", "SLICE_END", "VALUE_INVALID"}
      /\ LiteralsAt(format, r, q, content, a) = "OK" <=>
           /\ a + (q - r) <= Len(content) + 1
           /\ \A j \in r .. q - 1 : content[a + (j - r)] = format[j]
  BY <1>1, <1>3, LiteralsAtIs
<1>5. SUFFICES ASSUME LiteralsAt(format, r, q, content, a) = "OK"
               PROVE  /\ x.status = "OK" /\ x.outs = m.outs /\ Sound(q - 1)
                      /\ DOMAIN x = {"status", "outs", "at", "run"}
                      /\ x.at = a + (q - r)
                      /\ x.at \in 1 .. Len(content) + 1
                      /\ \E cut : CutTo(cut, q) /\ cut[q] = x.at /\ GaveOut(cut, m.outs, q)
  BY <1>4
<1>6. /\ x.status = "OK" /\ x.outs = m.outs /\ x.at = a + (q - r)
      /\ DOMAIN x = {"status", "outs", "at", "run"}
  BY <1>1 DEF Moved
<1>7. a + (q - r) \in 1 .. Len(content) + 1
  BY <1>3, <1>4, <1>5
<1>8. Sound(q - 1)
  <2>1. SUFFICES ASSUME NEW j \in 1 .. q - 1 PROVE j \notin Faulty
    BY DEF Sound
  <2>2. CASE j < r
    <3>1. j \in 1 .. r - 1
      BY <1>3, <2>2
    <3> QED
      BY <1>1, <3>1 DEF Sound
  <2>3. CASE ~(j < r)
    <3>1. j \in r .. q - 1 /\ j \in 1 .. Len(format)
      BY <1>3, <2>3
    <3>2. Literal(format[j])
      BY <1>1, <3>1
    <3>3. format[j] # BadDir /\ format[j] # Unclosed
      BY <3>2 DEF Literal, BadDir, Unclosed
    <3> QED
      BY <3>3 DEF Faulty
  <2> QED
    BY <2>2, <2>3
<1>9. PICK cut : /\ CutTo(cut, q) /\ cut[q] = a + (q - r)
                 /\ \A i \in 1 .. r : cut[i] = at[i]
  <2>1. /\ \A j \in r .. q - 1 : Literal(format[j])
        /\ at[r] + (q - r) <= Len(content) + 1
        /\ \A j \in r .. q - 1 : content[at[r] + (j - r)] = format[j]
    BY <1>1, <1>2, <1>4, <1>5
  <2>2. CutTo(at, r) /\ at[r] = a
    BY <1>2
  <2> HIDE DEF r, a
  <2>3. \E cut : /\ CutTo(cut, q) /\ cut[q] = at[r] + (q - r)
                 /\ \A i \in 1 .. r : cut[i] = at[i]
    <3>1. /\ r \in 1 .. Len(format) + 1 /\ q \in r .. Len(format) + 1 /\ CutTo(at, r)
          /\ \A j \in r .. q - 1 : Literal(format[j])
          /\ at[r] + (q - r) <= Len(content) + 1
          /\ \A j \in r .. q - 1 : content[at[r] + (j - r)] = format[j]
      BY <1>3, <2>1, <2>2
    <3> QED
      BY <3>1, CutLiterals, SMTT(60)
  <2> QED
    BY <2>2, <2>3
<1>10. GaveOut(cut, m.outs, q)
  <2>1. SUFFICES ASSUME NEW i \in 1 .. q - 1, format[i] = SliceDir
                 PROVE  m.outs[Nth(i)].str = Part(cut, i)
    BY DEF GaveOut
  <2>2. CASE i < r
    <3>1. i \in 1 .. r - 1 /\ i \in 1 .. r /\ i + 1 \in 1 .. r
      BY <1>3, <2>2
    <3>2. cut[i] = at[i] /\ cut[i + 1] = at[i + 1]
      BY <1>9, <3>1
    <3>3. m.outs[Nth(i)].str = Part(at, i)
      BY <1>2, <2>1, <3>1 DEF GaveOut
    <3> QED
      BY <3>2, <3>3 DEF Part
  <2>3. CASE ~(i < r)
    <3>1. i \in r .. q - 1
      BY <1>3, <2>3
    <3>2. Literal(format[i])
      BY <1>1, <3>1
    <3> QED
      BY <2>1, <3>2 DEF Literal, SliceDir
  <2> QED
    BY <2>2, <2>3
<1> HIDE DEF x
<1>11. CutTo(cut, q) /\ cut[q] = x.at /\ GaveOut(cut, m.outs, q)
  BY <1>6, <1>9, <1>10
<1> QED
  BY <1>6, <1>7, <1>8, <1>11

LEMMA NthBound ==
    ASSUME Reading, NEW i \in 0 .. Len(format)
    PROVE  Nth(i) \in Nat /\ Nth(i) <= Len(format)
<1> DEFINE n == Len(format)
<1>1. n \in Nat /\ format \in Formats /\ DOMAIN format = 1 .. n
  BY ReadingIs DEF Reading
<1>2. Cardinality(DirectivesOf(format)) <= n
  <2>1. DirectivesOf(format) \subseteq 1 .. n
    BY <1>1 DEF DirectivesOf
  <2>2. IsFiniteSet(1 .. n) /\ Cardinality(1 .. n) = n
    <3>1. IsFiniteSet(1 .. n) /\ Cardinality(1 .. n) = IF 1 > n THEN 0 ELSE n - 1 + 1
      <4>1. 1 \in Int /\ n \in Int
        BY <1>1
      <4> HIDE DEF n
      <4> QED
        BY <4>1, FS_Interval
    <3> HIDE DEF n
    <3> QED
      BY <1>1, <3>1
  <2> QED
    BY <2>1, <2>2, FS_Subset
<1>3. n \in i .. n /\ n \in 0 .. n
  BY <1>1
<1>4. Nth(i) <= Nth(n) /\ Nth(n) = Cardinality(DirectivesOf(format)) /\ Nth(i) \in Nat
      /\ Nth(n) \in Nat
  BY <1>1, <1>3, NthIs
<1> QED
  BY <1>1, <1>2, <1>4

\* A parse that has taken the part from at[q] to b - 1 for symbol q goes on.
LEMMA WentOn ==
    ASSUME Reading, NEW q \in 1 .. Len(format), q \notin Faulty, Sound(q - 1),
           NEW at, CutTo(at, q), NEW o, GaveOut(at, o, q),
           NEW b \in 1 .. Len(content) + 1, Taken(q, at[q], b),
           NEW more \in Seq(Outs), Len(more) = Nth(q),
           \A i \in 1 .. q - 1 : format[i] \in Directives => more[Nth(i)] = o[Nth(i)],
           format[q] = SliceDir => more[Nth(q)].str = SubSeq(content, at[q], b - 1),
           NEW x, Went(x, more, b, q)
    PROVE  Going(x, q)
<1> DEFINE k == q + 1
<1>1. q \in Nat /\ q >= 1 /\ k \in Nat /\ k - 1 = q /\ k \in 1 .. q + 1
  BY ReadingIs
<1>2. PICK cut : /\ CutTo(cut, q + 1) /\ cut[q + 1] = b
                 /\ \A i \in 1 .. q : cut[i] = at[i]
  BY CutOn
<1>3. /\ x.status = "OK" /\ x.outs = more /\ x.at = b /\ x.run = k
      /\ DOMAIN x = {"status", "outs", "at", "run"}
  BY DEF Went
<1>4. CutTo(cut, k) /\ cut[k] = b
  BY <1>2
<1> HIDE DEF k
<1>5. Sound(k - 1)
  <2>1. \A j \in 1 .. q : j = q \/ j \in 1 .. q - 1
    BY <1>1
  <2> QED
    BY <1>1, <2>1 DEF Sound
<1>6. GaveOut(cut, more, k)
  <2>1. SUFFICES ASSUME NEW i \in 1 .. q, format[i] = SliceDir
                 PROVE  more[Nth(i)].str = Part(cut, i)
    BY <1>1 DEF GaveOut
  <2>2. CASE i = q
    <3>1. cut[q] = at[q] /\ cut[q + 1] = b
      BY <1>1, <1>2
    <3> QED
      BY <2>1, <2>2, <3>1 DEF Part
  <2>3. CASE i # q
    <3>1. i \in 1 .. q - 1 /\ i + 1 \in 1 .. q
      BY <1>1, <2>3
    <3>2. cut[i] = at[i] /\ cut[i + 1] = at[i + 1]
      BY <1>2, <3>1
    <3>3. o[Nth(i)].str = Part(at, i)
      BY <2>1, <3>1 DEF GaveOut
    <3>4. more[Nth(i)] = o[Nth(i)]
      BY <2>1, <3>1 DEF Directives
    <3> QED
      BY <3>2, <3>3, <3>4 DEF Part
  <2> QED
    BY <2>2, <2>3
<1>7. \A j \in k .. q : Literal(format[j])
  BY <1>1
<1> QED
  BY <1>1, <1>3, <1>4, <1>5, <1>6, <1>7 DEF Going

\* Symbol q of the format.
LEMMA ParseSymbolIs ==
    ASSUME Reading, NEW behind, NEW q \in 1 .. Len(format), NEW m, Going(m, q - 1)
    PROVE  LET x == ParseSymbol(format, content, behind, m, q)
           IN  Going(x, q) \/ Stopped(x)
<1> DEFINE n == Len(format)
           x == ParseSymbol(format, content, behind, m, q)
           s == LiteralsAt(format, m.run, q, content, m.at)
           y == Moved(m, q)
           a == y.at
           to == RegionEnd(format, q, content, a)
           part == SubSeq(content, a, to - 1)
           number == ParseNumber(part, Char(to, behind))
<1>1. /\ n \in Nat /\ q \in Nat /\ q <= n /\ q \in 1 .. n + 1 /\ format \in Formats
      /\ q - 1 \in 0 .. n /\ q \in 0 .. n /\ signed \in Signs /\ content \in Seq(Int)
  BY ReadingIs DEF Reading
<1>2. /\ m.status = "OK" /\ DOMAIN m = {"status", "outs", "at", "run"}
      /\ m.run \in 1 .. (q - 1) + 1 /\ \A j \in m.run .. q - 1 : Literal(format[j])
      /\ m.at \in 1 .. Len(content) + 1 /\ m.outs \in Seq(Outs) /\ Len(m.outs) = Nth(q - 1)
      /\ Sound(m.run - 1)
  BY DEF Going
<1>3. Nth(q) = IF format[q] \in Directives THEN Nth(q - 1) + 1 ELSE Nth(q - 1)
  BY <1>1, NthIs
<1>4. Nth(q - 1) <= n /\ Nth(q) <= n /\ Nth(q - 1) \in Nat
  BY <1>1, NthBound
<1>5. CASE Literal(format[q])
  <2>1. x = m
    BY <1>1, <1>5 DEF ParseSymbol
  <2>2. format[q] \notin Directives
    BY <1>5 DEF Literal, Directives, NumDir, SliceDir
  <2>3. \A j \in m.run .. q : Literal(format[j])
    <3>1. \A j \in m.run .. q : j = q \/ j \in m.run .. q - 1
      BY <1>1, <1>2
    <3> QED
      BY <1>2, <1>5, <3>1
  <2>4. m.run \in 1 .. q + 1
    BY <1>1, <1>2
  <2>5. \E at : CutTo(at, m.run) /\ at[m.run] = m.at /\ GaveOut(at, m.outs, m.run)
    BY DEF Going
  <2>6. Going(m, q)
    BY <1>2, <1>3, <2>2, <2>3, <2>4, <2>5 DEF Going
  <2> QED
    BY <2>1, <2>6
<1>6. CASE ~Literal(format[q]) /\ s # "OK"
  <2>1. s \in {"OK", "SLICE_END", "VALUE_INVALID"}
    BY <1>1, LiteralsPassed
  <2>2. x = [m EXCEPT !.status = s]
    BY <1>2, <1>6 DEF ParseSymbol
  <2> SUFFICES Stopped(x)
    OBVIOUS
  <2> HIDE DEF s, x
  <2>3. x.status = s /\ x.outs = m.outs
    BY <1>2, <2>2
  <2>4. Len(m.outs) <= n
    BY <1>2, <1>4
  <2> QED
    BY <1>2, <1>6, <2>1, <2>3, <2>4 DEF Stopped
<1>7. CASE ~Literal(format[q]) /\ s = "OK"
  <2>1. x = ParseSpecial(format, content, behind, y, q)
    BY <1>1, <1>2, <1>7 DEF ParseSymbol, Moved
  <2>2. /\ y.status = "OK" /\ y.outs = m.outs /\ Sound(q - 1)
        /\ DOMAIN y = {"status", "outs", "at", "run"} /\ a \in 1 .. Len(content) + 1
        /\ \E at : CutTo(at, q) /\ at[q] = a /\ GaveOut(at, m.outs, q)
    BY <1>1, <1>7, LiteralsPassed
  <2>3. PICK at : CutTo(at, q) /\ at[q] = a /\ GaveOut(at, m.outs, q)
    BY <2>2
  <2> SUFFICES Going(x, q) \/ Stopped(x)
    OBVIOUS
  <2> HIDE DEF y, x
  <2>4. /\ format[q] = Escape =>
              IF a <= Len(content) /\ Char(a, behind) = Open
              THEN Went(x, m.outs, a + 1, q) ELSE Failed(x, m.outs)
        /\ q \in Faulty => Failed(x, m.outs)
        /\ format[q] \in Directives /\ to = 0 => Failed(x, m.outs)
        /\ format[q] = SliceDir /\ to # 0 =>
              IF Len(part) <= SliceRoom
              THEN Went(x, Append(m.outs, [num |-> 0, str |-> part]), to, q)
              ELSE Failed(x, Append(m.outs, [num |-> 0, str |-> SubSeq(part, 1, SliceRoom)]))
        /\ format[q] = NumDir /\ to # 0 =>
              IF number.status = "OK"
              THEN Went(x, Append(m.outs, [num |-> number.out, str |-> <<>>]), to, q)
              ELSE Failed(x, m.outs)
    BY <1>7, <2>1, <2>2, ParseSpecialIs
  <2>5. to = 0 \/ Follows(q, a, to)
    BY <2>2, RegionEndIs
  <2> HIDE DEF to, number
  <2>6. to # 0 => part \in Seq(Int) /\ Len(part) \in Nat
    <3>1. SUFFICES ASSUME to # 0 PROVE part \in Seq(Int)
      BY DEF part
    <3>2. to - 1 \in a - 1 .. Len(content)
      <4>1. to \in a .. Len(content) + 1 /\ a \in Nat /\ Len(content) \in Nat
        <5>1. to \in a .. Len(content) + 1
          BY <2>5, <3>1 DEF Follows
        <5> HIDE DEF a
        <5> QED
          BY <2>2, <5>1, ReadingIs
      <4> HIDE DEF a
      <4> QED
        BY <4>1
    <3> HIDE DEF a
    <3> QED
      BY <1>1, <2>2, <3>2, SubSeqIs
  <2>7. ASSUME Failed(x, m.outs) PROVE Stopped(x)
    BY <1>2, <1>4, <2>7 DEF Failed, Stopped
  <2>m. ASSUME NEW o \in Outs, format[q] \in Directives
        PROVE  LET more == Append(m.outs, o)
               IN  /\ more \in Seq(Outs) /\ Len(more) = Nth(q) /\ more[Nth(q)] = o
                   /\ \A i \in 1 .. q - 1 :
                         format[i] \in Directives => more[Nth(i)] = m.outs[Nth(i)]
    <3> DEFINE outs1 == m.outs
    <3>1. outs1 \in Seq(Outs) /\ Len(outs1) = Nth(q - 1)
      BY <1>2
    <3> HIDE DEF outs1
    <3>2. LET more == Append(outs1, o)
          IN  /\ more \in Seq(Outs) /\ Len(more) = Nth(q) /\ more[Nth(q)] = o
              /\ \A i \in 1 .. q - 1 :
                    format[i] \in Directives => more[Nth(i)] = outs1[Nth(i)]
      BY <2>m, <3>1, AppendOuts
    <3> QED
      BY <3>2 DEF outs1
  <2>8. ASSUME NEW o \in Outs, format[q] \in Directives, Failed(x, Append(m.outs, o))
        PROVE  Stopped(x)
    <3>1. Append(m.outs, o) \in Seq(Outs) /\ Len(Append(m.outs, o)) = Nth(q)
      BY <2>8, <2>m
    <3> QED
      BY <1>4, <2>8, <3>1 DEF Failed, Stopped
  <2>9. CASE q \in Faulty
    BY <2>4, <2>7, <2>9
  <2>10. CASE format[q] = Escape
    <3>1. format[q] \notin Directives /\ format[q] # SliceDir /\ q \notin Faulty
      BY <2>10 DEF Escape, Directives, NumDir, SliceDir, Faulty, BadDir, Unclosed
    <3>2. CASE a <= Len(content) /\ Char(a, behind) = Open
      <4> DEFINE b == a + 1
      <4>1. Taken(q, a, b) /\ b \in 1 .. Len(content) + 1
        BY <2>2, <2>10, <3>2, PartTaken
      <4>2. Went(x, m.outs, b, q)
        BY <2>4, <2>10, <3>2
      <4> HIDE DEF b, a
      <4>3. Len(m.outs) = Nth(q)
        BY <1>2, <1>3, <3>1
      <4> QED
        BY <1>2, <2>2, <2>3, <3>1, <4>1, <4>2, <4>3, WentOn
    <3>3. CASE ~(a <= Len(content) /\ Char(a, behind) = Open)
      BY <2>4, <2>7, <2>10, <3>3
    <3> QED
      BY <3>2, <3>3
  <2>11. CASE format[q] = SliceDir
    <3>1. format[q] \in Directives /\ q \notin Faulty
      BY <2>11 DEF Directives, SliceDir, Faulty, BadDir, Unclosed
    <3>2. CASE to = 0
      BY <2>4, <2>7, <3>1, <3>2
    <3>3. CASE to # 0 /\ Len(part) <= SliceRoom
      <4> DEFINE o == [num |-> 0, str |-> part]
                 more == Append(m.outs, o)
      <4>1. Taken(q, a, to) /\ to \in 1 .. Len(content) + 1
        BY <2>2, <2>5, <2>11, <3>3, PartTaken
      <4>2. Went(x, more, to, q)
        BY <2>4, <2>11, <3>3
      <4>3. o \in Outs /\ o.str = part
        <5>1. part \in Seq(Int)
          BY <2>6, <3>3
        <5> HIDE DEF part
        <5> QED
          BY <5>1 DEF Outs
      <4> HIDE DEF o
      <4>4. /\ more \in Seq(Outs) /\ Len(more) = Nth(q) /\ more[Nth(q)] = o
            /\ \A i \in 1 .. q - 1 : format[i] \in Directives => more[Nth(i)] = m.outs[Nth(i)]
        BY <3>1, <4>3, <2>m
      <4>5. more[Nth(q)].str = SubSeq(content, a, to - 1)
        BY <4>3, <4>4
      <4> HIDE DEF more, a
      <4> QED
        BY <2>2, <2>3, <3>1, <4>1, <4>2, <4>4, <4>5, WentOn
    <3>4. CASE to # 0 /\ ~(Len(part) <= SliceRoom)
      <4> DEFINE o == [num |-> 0, str |-> SubSeq(part, 1, SliceRoom)]
      <4>1. SubSeq(part, 1, SliceRoom) \in Seq(Int)
        <5>1. part \in Seq(Int) /\ Len(part) \in Nat /\ SliceRoom \in Nat
          BY <2>6, <3>4, FormatsAssumption
        <5> HIDE DEF part
        <5>2. SliceRoom \in 1 - 1 .. Len(part) /\ 1 \in 1 .. Len(part) + 1
          BY <3>4, <5>1
        <5> QED
          BY <5>1, <5>2, SubSeqIs
      <4>2. o \in Outs
        <5> DEFINE u == SubSeq(part, 1, SliceRoom)
        <5>1. u \in Seq(Int)
          BY <4>1
        <5> HIDE DEF u
        <5>2. [num |-> 0, str |-> u] \in Outs
          BY <5>1 DEF Outs
        <5> QED
          BY <5>2 DEF u
      <4> QED
        BY <2>4, <2>8, <2>11, <3>1, <3>4, <4>2
    <3> QED
      BY <3>2, <3>3, <3>4
  <2>12. CASE format[q] = NumDir
    <3>1. format[q] \in Directives /\ q \notin Faulty /\ format[q] # SliceDir
      BY <2>12 DEF Directives, NumDir, SliceDir, Faulty, BadDir, Unclosed
    <3>2. CASE to = 0
      BY <2>4, <2>7, <3>1, <3>2
    <3>3. CASE to # 0 /\ number.status = "OK"
      <4> DEFINE o == [num |-> number.out, str |-> <<>>]
                 more == Append(m.outs, o)
      <4>1. Taken(q, a, to) /\ to \in 1 .. Len(content) + 1
        BY <2>2, <2>5, <2>12, <3>3, PartTaken DEF number
      <4>2. Went(x, more, to, q)
        BY <2>4, <2>12, <3>3
      <4>3. o \in Outs
        <5>1. number.out \in Values
          <6> HIDE DEF part
          <6> QED
            BY <1>1, <2>6, <3>3, ParseIs DEF number
        <5>2. number.out \in Int /\ <<>> \in Seq(Int)
          BY <1>1, <5>1, ValuesAre
        <5> QED
          BY <5>2 DEF Outs
      <4> HIDE DEF o
      <4>4. /\ more \in Seq(Outs) /\ Len(more) = Nth(q)
            /\ \A i \in 1 .. q - 1 : format[i] \in Directives => more[Nth(i)] = m.outs[Nth(i)]
        BY <3>1, <4>3, <2>m
      <4> HIDE DEF more, a
      <4> QED
        BY <2>2, <2>3, <3>1, <4>1, <4>2, <4>4, WentOn
    <3>4. CASE to # 0 /\ number.status # "OK"
      BY <2>4, <2>7, <2>12, <3>4
    <3> QED
      BY <3>2, <3>3, <3>4
  <2> QED
    BY <1>1, <1>7, <2>9, <2>10, <2>11, <2>12, SymbolIs
<1> QED
  BY <1>5, <1>6, <1>7

\* Behind the last symbol, when the literals at the end are compared too.
Ended(m) ==
    /\ m.status = "OK" /\ m.outs \in Seq(Outs) /\ Len(m.outs) <= Len(format)
    /\ Faulty = {} /\ m.at \in 1 .. Len(content) + 1
    /\ \E at : /\ CutTo(at, Len(format) + 1) /\ at[Len(format) + 1] = m.at
               /\ GaveOut(at, m.outs, Len(format) + 1)

LEMMA ParseEndIs ==
    ASSUME Reading, NEW behind, NEW m, Going(m, Len(format))
    PROVE  LET x == ParseSymbol(format, content, behind, m, Len(format) + 1)
           IN  Ended(x) \/ Stopped(x)
<1> DEFINE n == Len(format)
           q == n + 1
           x == ParseSymbol(format, content, behind, m, q)
           s == LiteralsAt(format, m.run, q, content, m.at)
<1>1. /\ n \in Nat /\ q \in Nat /\ q \in 1 .. n + 1 /\ ~(q <= n) /\ q > n
      /\ q - 1 = n /\ n \in 0 .. n /\ Faulty \subseteq 1 .. n
  BY ReadingIs DEF Faulty
<1>2. m.status = "OK" /\ DOMAIN m = {"status", "outs", "at", "run"} /\ m.outs \in Seq(Outs)
      /\ Len(m.outs) = Nth(n)
  BY DEF Going
<1>3. Len(m.outs) <= n
  BY <1>1, <1>2, NthBound
<1>4. x = IF s # "OK" THEN [m EXCEPT !.status = s] ELSE Moved(m, q)
  BY <1>1, <1>2 DEF ParseSymbol, Moved
<1> HIDE DEF q
<1>5. Going(m, q - 1)
  BY <1>1
<1>6. /\ s \in {"OK", "SLICE_END", "VALUE_INVALID"}
      /\ s = "OK" => LET y == Moved(m, q)
                     IN  /\ y.status = "OK" /\ y.outs = m.outs /\ Sound(q - 1)
                         /\ y.at \in 1 .. Len(content) + 1
                         /\ \E at : CutTo(at, q) /\ at[q] = y.at /\ GaveOut(at, m.outs, q)
  BY <1>1, <1>5, LiteralsPassed
<1> SUFFICES Ended(x) \/ Stopped(x)
  BY DEF q
<1> HIDE DEF x, s
<1>7. CASE s # "OK"
  <2>1. x.status = s /\ x.outs = m.outs
    BY <1>2, <1>4, <1>7
  <2> QED
    BY <1>2, <1>3, <1>6, <1>7, <2>1 DEF Stopped
<1>8. CASE s = "OK"
  <2> DEFINE y == Moved(m, q)
  <2>1. x = y
    BY <1>4, <1>8
  <2>2. /\ y.status = "OK" /\ y.outs = m.outs /\ Sound(q - 1)
        /\ y.at \in 1 .. Len(content) + 1
        /\ \E at : CutTo(at, q) /\ at[q] = y.at /\ GaveOut(at, m.outs, q)
    BY <1>6, <1>8
  <2> HIDE DEF y
  <2>3. Faulty = {}
    BY <1>1, <2>2 DEF Sound
  <2>4. \E at : CutTo(at, n + 1) /\ at[n + 1] = x.at /\ GaveOut(at, x.outs, n + 1)
    BY <2>1, <2>2 DEF q
  <2>5. Ended(x)
    BY <1>2, <1>3, <2>1, <2>2, <2>3, <2>4 DEF Ended
  <2> QED
    BY <2>5
<1> QED
  BY <1>7, <1>8

\* The whole parse.
LEMMA ParsesGo ==
    ASSUME Reading, NEW behind
    PROVE  /\ \A q \in 0 .. Len(format) :
                Going(Parses(behind, q), q) \/ Stopped(Parses(behind, q))
           /\ LET m == Parses(behind, Len(format) + 1) IN Ended(m) \/ Stopped(m)
<1> DEFINE n == Len(format)
           M(q) == Parses(behind, q)
           N == {q \in 0 .. n : Going(M(q), q) \/ Stopped(M(q))}
<1>1. n \in Nat /\ Len(content) \in Nat /\ format \in Formats
  BY ReadingIs DEF Reading
<1>2. /\ M(0) = [status |-> "OK", outs |-> <<>>, at |-> 1, run |-> 1]
      /\ \A q \in 1 .. n + 1 : M(q) = ParseSymbol(format, content, behind, M(q - 1), q)
  BY ParsesAre
<1>3. ASSUME NEW q \in 1 .. n + 1, Stopped(M(q - 1)) PROVE Stopped(M(q))
  <2>1. M(q - 1).status # "OK"
    BY <1>3 DEF Stopped
  <2>2. M(q) = ParseSymbol(format, content, behind, M(q - 1), q)
    BY <1>2
  <2> HIDE DEF M
  <2>3. ParseSymbol(format, content, behind, M(q - 1), q) = M(q - 1)
    BY <2>1 DEF ParseSymbol
  <2> QED
    BY <1>3, <2>2, <2>3
<1>4. 0 \in N
  <2> DEFINE at == [i \in 1 .. n + 1 |-> 1]
             m == M(0)
  <2>1. at \in [1 .. n + 1 -> 1 .. Len(content) + 1] /\ at[1] = 1
    BY <1>1
  <2>2. CutTo(at, 1) /\ GaveOut(at, <<>>, 1)
    <3> HIDE DEF at
    <3>1. 1 .. 1 - 1 = {}
      OBVIOUS
    <3> QED
      BY <2>1, <3>1 DEF CutTo, GaveOut
  <2>3. m.status = "OK" /\ m.outs = <<>> /\ m.at = 1 /\ m.run = 1
        /\ DOMAIN m = {"status", "outs", "at", "run"}
    BY <1>2
  <2>4. <<>> \in Seq(Outs) /\ Len(<<>>) = 0 /\ Nth(0) = 0
    BY <1>1, NthIs
  <2>5. Sound(1 - 1)
    BY DEF Sound
  <2>6. 1 \in 1 .. 0 + 1 /\ 1 \in 1 .. Len(content) + 1 /\ 1 .. 0 = {} /\ 0 \in 0 .. n
    BY <1>1
  <2> HIDE DEF at, m
  <2>7. \E c : CutTo(c, m.run) /\ c[m.run] = m.at /\ GaveOut(c, m.outs, m.run)
    BY <2>1, <2>2, <2>3
  <2>8. Going(m, 0)
    BY <2>3, <2>4, <2>5, <2>6, <2>7 DEF Going
  <2> QED
    BY <2>6, <2>8 DEF m
<1>5. ASSUME NEW k \in 0 .. n - 1, k \in N PROVE k + 1 \in N
  <2> DEFINE q == k + 1
  <2>1. q \in 1 .. n /\ q \in 1 .. n + 1 /\ q \in 0 .. n /\ q - 1 = k
    BY <1>1
  <2> HIDE DEF q
  <2>2. M(q) = ParseSymbol(format, content, behind, M(q - 1), q)
    BY <1>2, <2>1
  <2>3. Going(M(q - 1), q - 1) \/ Stopped(M(q - 1))
    BY <1>5, <2>1
  <2> HIDE DEF M
  <2>4. Going(M(q - 1), q - 1) => Going(M(q), q) \/ Stopped(M(q))
    BY <2>1, <2>2, ParseSymbolIs
  <2>5. Going(M(q), q) \/ Stopped(M(q))
    BY <1>3, <2>1, <2>3, <2>4
  <2> QED
    BY <2>1, <2>5 DEF q
<1> HIDE DEF N
<1>6. 0 .. n \subseteq N
  BY <1>1, <1>4, <1>5, UpTo
<1>7. \A q \in 0 .. n : Going(M(q), q) \/ Stopped(M(q))
  BY <1>6 DEF N
<1>8. Ended(M(n + 1)) \/ Stopped(M(n + 1))
  <2> DEFINE q == n + 1
  <2>1. q \in 1 .. n + 1 /\ q - 1 = n /\ n \in 0 .. n
    BY <1>1
  <2>2. M(q) = ParseSymbol(format, content, behind, M(n), q)
    BY <1>2, <2>1
  <2>3. Stopped(M(n)) => Stopped(M(q))
    <3> HIDE DEF q, M
    <3> QED
      BY <1>3, <2>1
  <2>4. Going(M(n), n) \/ Stopped(M(n))
    BY <1>7, <2>1
  <2> HIDE DEF M
  <2>5. Going(M(n), n) => Ended(M(q)) \/ Stopped(M(q))
    BY <2>2, ParseEndIs
  <2> QED
    BY <2>3, <2>4, <2>5
<1> QED
  BY <1>7, <1>8

\* What a parse has left.
LEMMA ParsedIs ==
    ASSUME Reading, NEW behind, ParsedFor(behind)
    PROVE  /\ result \in {"OK", "SLICE_END", "VALUE_INVALID", "FORMAT_INVALID"}
           /\ Len(outs) \in Nat /\ Len(outs) <= Len(format)
           /\ upto \in 1 .. Len(content) + 1 /\ (result # "OK" => upto = 1)
           /\ result = "OK" =>
                /\ Faulty = {}
                /\ \E at \in Cuts(TRUE) :
                      /\ upto = at[Len(format) + 1]
                      /\ \A i \in DOMAIN format : format[i] = SliceDir =>
                            outs[Nth(i)].str = SubSeq(content, at[i], at[i + 1] - 1)
<1> DEFINE n == Len(format)
           m == Parses(behind, n + 1)
<1>1. /\ n \in Nat /\ Len(content) \in Nat /\ DOMAIN format = 1 .. n
  BY ReadingIs
<1>2. result = m.status /\ outs = m.outs /\ upto = IF m.status = "OK" THEN m.at ELSE 1
  BY ParsesAre DEF ParsedFor
<1>3. Ended(m) \/ Stopped(m)
  BY ParsesGo
<1>x. 1 \in 1 .. Len(content) + 1
  BY <1>1
<1> HIDE DEF m
<1>4. CASE Stopped(m)
  <2>1. /\ result \in {"SLICE_END", "VALUE_INVALID", "FORMAT_INVALID"} /\ upto = 1
        /\ outs \in Seq(Outs) /\ Len(outs) <= n
    BY <1>2, <1>4 DEF Stopped
  <2>2. Len(outs) \in Nat
    BY <2>1
  <2> QED
    BY <1>x, <2>1, <2>2
<1>5. CASE Ended(m)
  <2>1. /\ m.status = "OK" /\ m.outs \in Seq(Outs) /\ Len(m.outs) <= n
        /\ Faulty = {} /\ m.at \in 1 .. Len(content) + 1
    BY <1>5 DEF Ended
  <2>2. PICK at : CutTo(at, n + 1) /\ at[n + 1] = m.at /\ GaveOut(at, m.outs, n + 1)
    BY <1>5 DEF Ended
  <2>3. 1 .. (n + 1) - 1 = 1 .. n
    BY <1>1
  <2>4. at \in Cuts(TRUE)
    <3>1. Cuts(TRUE) =
              {c \in [1 .. n + 1 -> 1 .. Len(content) + 1] :
                  c[1] = 1 /\ \A i \in 1 .. n : PartIs(i, c[i], c[i + 1], TRUE)}
      BY <1>1, CutsAre
    <3>2. /\ at \in [1 .. n + 1 -> 1 .. Len(content) + 1] /\ at[1] = 1
          /\ \A i \in 1 .. n : PartIs(i, at[i], at[i + 1], TRUE)
      BY <2>2, <2>3 DEF CutTo, Taken
    <3> QED
      BY <3>1, <3>2
  <2>5. \A i \in 1 .. n : format[i] = SliceDir =>
            outs[Nth(i)].str = SubSeq(content, at[i], at[i + 1] - 1)
    BY <1>2, <2>2, <2>3 DEF GaveOut, Part
  <2>6. result = "OK" /\ outs = m.outs /\ upto = m.at /\ upto = at[n + 1]
    BY <1>2, <2>1, <2>2
  <2>7. Len(outs) \in Nat /\ Len(outs) <= n /\ upto \in 1 .. Len(content) + 1
    BY <2>1, <2>6
  <2>8. \E c \in Cuts(TRUE) :
            /\ upto = c[Len(format) + 1]
            /\ \A i \in DOMAIN format : format[i] = SliceDir =>
                  outs[Nth(i)].str = SubSeq(content, c[i], c[i + 1] - 1)
    BY <1>1, <2>4, <2>5, <2>6
  <2> QED
    BY <2>1, <2>6, <2>7, <2>8
<1> QED
  BY <1>3, <1>4, <1>5

-----------------------------------------------------------------------------
(* A text that can be cut up is parsed *)

\* A part with a digit in each number.
Fitted(i, a, b) == PartIs(i, a, b, FALSE)

LEMMA FittedIs ==
    ASSUME Reading, NEW q \in 1 .. Len(format), NEW a \in 1 .. Len(content) + 1,
           NEW b \in 1 .. Len(content) + 1, Fitted(q, a, b), NEW behind
    PROVE  LET part == SubSeq(content, a, b - 1)
           IN  /\ a <= b /\ part \in Seq(Int)
               /\ Literal(format[q]) => b = a + 1 /\ a <= Len(content) /\ content[a] = format[q]
               /\ format[q] = Escape => b = a + 1 /\ a <= Len(content) /\ content[a] = Open
               /\ format[q] \in Directives => Follows(q, a, b)
               /\ format[q] = SliceDir => Len(part) <= SliceRoom
               /\ format[q] = NumDir => ParseNumber(part, behind).status = "OK"
<1> DEFINE l == Len(content)
           part == SubSeq(content, a, b - 1)
           next == FirstChar(format, q + 1)
           digit == IF signed /\ part # <<>> /\ part[1] = Minus THEN 2 ELSE 1
<1>1. l \in Nat /\ a \in Nat /\ b \in Nat /\ a >= 1 /\ content \in Seq(Int) /\ signed \in Signs
  BY ReadingIs DEF Reading
<1>2. /\ a <= b
      /\ Literal(format[q]) => part = <<format[q]>>
      /\ format[q] = Escape => part = <<Open>>
      /\ format[q] \in Directives =>
            IF q = Len(format) THEN b = Len(content) + 1
            ELSE /\ next \notin Range(part)
                 /\ b <= Len(content) /\ content[b] = next
      /\ format[q] = SliceDir => Len(part) <= SliceRoom
      /\ format[q] = NumDir => digit <= Len(part) /\ part[digit] \in 0 .. 9
  BY DEF Fitted, PartIs
<1>3. /\ part \in Seq(Int) /\ Len(part) = b - a /\ DOMAIN part = 1 .. b - a
      /\ \A i \in 1 .. b - a : part[i] = content[a - 1 + i]
  <2>1. b - 1 \in a - 1 .. l /\ b - 1 - a + 1 = b - a
    BY <1>1, <1>2
  <2>2. /\ part \in Seq(Int) /\ Len(part) = b - a
        /\ \A i \in 1 .. b - a : part[i] = content[a - 1 + i]
    BY <1>1, <2>1, SubSeqIs
  <2> HIDE DEF part
  <2> QED
    BY <2>2
<1> HIDE DEF part, next
<1>4. ASSUME NEW c, part = <<c>>
      PROVE  b = a + 1 /\ a <= l /\ content[a] = c
  <2>1. Len(part) = 1 /\ part[1] = c
    BY <1>4
  <2>2. b = a + 1
    <3>1. b - a = 1
      BY <1>3, <2>1
    <3> QED
      BY <1>1, <3>1
  <2>3. 1 \in 1 .. b - a /\ a - 1 + 1 = a
    BY <1>1, <2>2
  <2>4. part[1] = content[a]
    <3>1. part[1] = content[a - 1 + 1]
      BY <1>3, <2>3
    <3> QED
      BY <2>3, <3>1
  <2> QED
    BY <1>1, <2>1, <2>2, <2>4
<1>5. ASSUME format[q] \in Directives PROVE Follows(q, a, b)
  <2>1. b \in a .. l + 1
    BY <1>1, <1>2
  <2>2. CASE q = Len(format)
    BY <1>2, <1>5, <2>1, <2>2 DEF Follows
  <2>3. CASE q # Len(format)
    <3>1. next \notin Range(part) /\ b <= l /\ content[b] = next
      BY <1>2, <1>5, <2>3
    <3>2. \A i \in a .. b - 1 : content[i] # next
      <4>1. SUFFICES ASSUME NEW i \in a .. b - 1, content[i] = next PROVE FALSE
        OBVIOUS
      <4> DEFINE x == i - a + 1
      <4>2. x \in 1 .. b - a /\ a - 1 + x = i
        BY <1>1
      <4> HIDE DEF x
      <4>3. part[x] = content[a - 1 + x] /\ x \in DOMAIN part
        BY <1>3, <4>2
      <4>4. part[x] = next
        BY <4>1, <4>2, <4>3
      <4> QED
        BY <3>1, <4>3, <4>4 DEF Range
    <3> QED
      BY <2>1, <2>3, <3>1, <3>2 DEF Follows, next
  <2> QED
    BY <2>2, <2>3
<1>6. ASSUME format[q] = NumDir PROVE ParseNumber(part, behind).status = "OK"
  <2>1. digit = FirstOf(part)
    BY DEF FirstOf, MinusAt
  <2>2. digit <= Len(part) /\ part[digit] \in 0 .. 9
    BY <1>2, <1>6
  <2> HIDE DEF digit
  <2>3. /\ FirstOf(part) \in 1 .. 2 /\ StopOf(part) \in FirstOf(part) .. Len(part) + 1
        /\ StopOf(part) <= Len(part) => part[StopOf(part)] \notin Digits
    BY <1>3, StopIs
  <2>4. StopOf(part) # FirstOf(part)
    BY <2>1, <2>2, <2>3 DEF Digits
  <2>5. part # <<>>
    <3>1. Len(part) # 0
      <4> DEFINE f == FirstOf(part)
      <4>1. f \in 1 .. 2 /\ f <= Len(part)
        BY <2>1, <2>2, <2>3
      <4> HIDE DEF f
      <4> QED
        BY <4>1
    <3> QED
      BY <3>1
  <2> QED
    BY <1>1, <1>3, <2>4, <2>5, ParseIs
<1> QED
  BY <1>2, <1>3, <1>4, <1>5, <1>6 DEF part

\* The parts of the literals r .. q - 1 are behind each other.
LEMMA LiteralsFitted ==
    ASSUME Reading, NEW at \in [1 .. Len(format) + 1 -> 1 .. Len(content) + 1],
           \A i \in 1 .. Len(format) : Fitted(i, at[i], at[i + 1]),
           NEW r \in 1 .. Len(format) + 1, NEW q \in r .. Len(format) + 1,
           \A j \in r .. q - 1 : Literal(format[j])
    PROVE  /\ at[q] = at[r] + (q - r)
           /\ \A j \in r .. q - 1 : content[at[r] + (j - r)] = format[j]
<1> DEFINE n == Len(format)
           a == at[r]
           N == {k \in 0 .. q - r : at[r + k] = a + k}
<1>1. n \in Nat /\ Len(content) \in Nat /\ r \in Nat /\ q \in Nat /\ r <= q /\ r >= 1
      /\ q <= n + 1
  BY ReadingIs
<1>2. a \in Nat
  <2>1. a \in 1 .. Len(content) + 1
    BY <1>1
  <2> HIDE DEF a
  <2> QED
    BY <1>1, <2>1
<1>3. ASSUME NEW j \in r .. q - 1
      PROVE  /\ at[j + 1] = at[j] + 1 /\ content[at[j]] = format[j]
  <2>1. j \in 1 .. n /\ j \in 1 .. n + 1 /\ j + 1 \in 1 .. n + 1
    BY <1>1
  <2> DEFINE c == at[j]
             b == at[j + 1]
  <2>2. c \in 1 .. Len(content) + 1 /\ b \in 1 .. Len(content) + 1
        /\ Fitted(j, c, b) /\ Literal(format[j])
    BY <2>1
  <2> HIDE DEF c, b
  <2>3. b = c + 1 /\ content[c] = format[j]
    BY <2>1, <2>2, FittedIs
  <2> QED
    BY <2>3 DEF c, b
<1>4. 0 \in N
  <2>1. r + 0 = r /\ a + 0 = a /\ 0 \in 0 .. q - r
    BY <1>1, <1>2
  <2>2. at[r + 0] = a + 0
    BY <2>1
  <2> HIDE DEF a
  <2> QED
    BY <2>1, <2>2
<1>5. ASSUME NEW k \in 0 .. (q - r) - 1, k \in N PROVE k + 1 \in N
  <2> DEFINE j == r + k
  <2>1. j \in r .. q - 1 /\ j + 1 = r + (k + 1) /\ k + 1 \in 0 .. q - r
    BY <1>1
  <2>2. at[j] = a + k
    BY <1>5
  <2> HIDE DEF j, a
  <2>3. at[j + 1] = at[j] + 1
    BY <1>3, <2>1
  <2>4. at[r + (k + 1)] = a + (k + 1)
    <3>1. k \in Nat
      BY <1>1
    <3> QED
      <4>1. at[r + (k + 1)] = at[j + 1]
        BY <2>1, Zenon
      <4>2. at[j + 1] = (a + k) + 1
        BY <2>2, <2>3, Zenon
      <4>3. (a + k) + 1 = a + (k + 1)
        BY <1>2, <3>1
      <4> QED
        BY <4>1, <4>2, <4>3, Zenon
  <2> QED
    BY <2>1, <2>4
<1>6. q - r \in Nat
  BY <1>1
<1> HIDE DEF N, a
<1>7. 0 .. q - r \subseteq N
  BY <1>4, <1>5, <1>6, UpTo
<1>8. ASSUME NEW j \in r .. q PROVE at[j] = a + (j - r)
  <2> DEFINE k == j - r
  <2>1. k \in 0 .. q - r /\ r + k = j
    BY <1>1
  <2> HIDE DEF k
  <2>2. at[r + k] = a + k
    BY <1>7, <2>1 DEF N
  <2> QED
    BY <2>1, <2>2 DEF k
<1>9. q \in r .. q /\ \A j \in r .. q - 1 : j \in r .. q
  BY <1>1
<1>10. at[q] = a + (q - r)
  BY <1>8, <1>9
<1>11. \A j \in r .. q - 1 : content[a + (j - r)] = format[j]
  BY <1>3, <1>8, <1>9
<1> QED
  BY <1>10, <1>11 DEF a

\* What a parse gives out for part i, and that it does.
Value(at, i, behind) ==
    IF format[i] = NumDir
    THEN [num |-> ParseNumber(Part(at, i), Char(at[i + 1], behind)).out, str |-> <<>>]
    ELSE [num |-> 0, str |-> Part(at, i)]
Gave(at, o, k, behind) ==
    \A i \in 1 .. k - 1 : format[i] \in Directives => o[Nth(i)] = Value(at, i, behind)

\* A way to cut the text up, and a parse that goes along it.
Cutting(at) ==
    /\ at \in [1 .. Len(format) + 1 -> 1 .. Len(content) + 1] /\ at[1] = 1 /\ Faulty = {}
    /\ \A i \in 1 .. Len(format) : Fitted(i, at[i], at[i + 1])
Following(m, q, at, behind) ==
    Going(m, q) /\ m.at = at[m.run] /\ Gave(at, m.outs, m.run, behind)

LEMMA FollowLiterals ==
    ASSUME Reading, NEW behind, NEW at, Cutting(at), NEW q \in 1 .. Len(format) + 1,
           NEW m, Following(m, q - 1, at, behind)
    PROVE  /\ LiteralsAt(format, m.run, q, content, m.at) = "OK"
           /\ m.at + (q - m.run) = at[q] /\ Gave(at, m.outs, q, behind)
<1> DEFINE r == m.run
           a == m.at
<1>1. /\ Len(format) \in Nat /\ Len(content) \in Nat /\ q \in Nat
      /\ at \in [1 .. Len(format) + 1 -> 1 .. Len(content) + 1]
      /\ \A i \in 1 .. Len(format) : Fitted(i, at[i], at[i + 1])
  BY ReadingIs DEF Cutting
<1>2. /\ r \in 1 .. (q - 1) + 1 /\ \A j \in r .. q - 1 : Literal(format[j])
      /\ a \in 1 .. Len(content) + 1 /\ a = at[r] /\ Gave(at, m.outs, r, behind)
  BY DEF Following, Going
<1> HIDE DEF r, a
<1>3. r \in 1 .. Len(format) + 1 /\ q \in r .. Len(format) + 1 /\ r \in Nat
  BY <1>1, <1>2
<1>4. at[q] = at[r] + (q - r) /\ \A j \in r .. q - 1 : content[at[r] + (j - r)] = format[j]
  BY <1>1, <1>2, <1>3, LiteralsFitted
<1>5. a + (q - r) = at[q] /\ \A j \in r .. q - 1 : content[a + (j - r)] = format[j]
  BY <1>2, <1>4
<1>6. at[q] <= Len(content) + 1
  <2>1. at[q] \in 1 .. Len(content) + 1
    BY <1>1
  <2> DEFINE c == at[q]
  <2>2. c \in 1 .. Len(content) + 1
    BY <2>1
  <2> HIDE DEF c
  <2>3. c <= Len(content) + 1
    BY <1>1, <2>2
  <2> QED
    BY <2>3 DEF c
<1>7. a + (q - r) <= Len(content) + 1
  BY <1>5, <1>6
<1>8. LiteralsAt(format, r, q, content, a) = "OK"
  <2>1. LiteralsAt(format, r, q, content, a) = "OK" <=>
           /\ a + (q - r) <= Len(content) + 1
           /\ \A j \in r .. q - 1 : content[a + (j - r)] = format[j]
    BY <1>2, <1>3, LiteralsAtIs
  <2> QED
    BY <1>5, <1>7, <2>1
<1>9. Gave(at, m.outs, q, behind)
  <2>1. SUFFICES ASSUME NEW i \in 1 .. q - 1, format[i] \in Directives
                 PROVE  m.outs[Nth(i)] = Value(at, i, behind)
    BY DEF Gave
  <2>2. i \notin r .. q - 1
    BY <1>2, <2>1 DEF Literal, Directives, NumDir, SliceDir
  <2>3. i \in 1 .. r - 1
    BY <1>1, <1>3, <2>2
  <2> QED
    BY <1>2, <2>1, <2>3 DEF Gave
<1> QED
  BY <1>5, <1>8, <1>9 DEF r, a

LEMMA FollowSymbol ==
    ASSUME Reading, NEW behind, NEW at, Cutting(at), NEW q \in 1 .. Len(format),
           NEW m, Following(m, q - 1, at, behind)
    PROVE  Following(ParseSymbol(format, content, behind, m, q), q, at, behind)
<1> DEFINE n == Len(format)
           x == ParseSymbol(format, content, behind, m, q)
           s == LiteralsAt(format, m.run, q, content, m.at)
           y == Moved(m, q)
           a == at[q]
           b == at[q + 1]
           to == RegionEnd(format, q, content, a)
           part == SubSeq(content, a, b - 1)
<1>1. /\ n \in Nat /\ Len(content) \in Nat /\ q \in Nat /\ q \in 1 .. n + 1 /\ q + 1 \in 1 .. n + 1
      /\ q <= n /\ at \in [1 .. n + 1 -> 1 .. Len(content) + 1] /\ q \notin Faulty
      /\ Fitted(q, a, b) /\ format \in Formats /\ signed \in Signs
  BY ReadingIs DEF Cutting, Reading
<1>2. a \in 1 .. Len(content) + 1 /\ b \in 1 .. Len(content) + 1
  BY <1>1
<1>3. Going(m, q - 1) /\ m.at = at[m.run] /\ Gave(at, m.outs, m.run, behind)
  BY DEF Following
<1>4. m.status = "OK" /\ DOMAIN m = {"status", "outs", "at", "run"}
      /\ m.outs \in Seq(Outs) /\ Len(m.outs) = Nth(q - 1)
  BY <1>3 DEF Going
<1>5. s = "OK" /\ y.at = a /\ Gave(at, m.outs, q, behind)
      /\ y.status = "OK" /\ y.outs = m.outs /\ DOMAIN y = {"status", "outs", "at", "run"}
  <2>1. s = "OK" /\ m.at + (q - m.run) = a /\ Gave(at, m.outs, q, behind)
    BY <1>1, FollowLiterals
  <2>2. y.at = m.at + (q - m.run) /\ y.status = "OK" /\ y.outs = m.outs
        /\ DOMAIN y = {"status", "outs", "at", "run"}
    BY <1>4 DEF Moved
  <2> QED
    BY <2>1, <2>2
<1>6. Going(x, q) \/ Stopped(x)
  BY <1>3, ParseSymbolIs
<1>7. CASE Literal(format[q])
  <2>1. x = m
    BY <1>1, <1>7 DEF ParseSymbol
  <2>2. x.status = "OK"
    BY <1>4, <2>1
  <2> HIDE DEF x
  <2>3. Going(x, q)
    BY <1>6, <2>2 DEF Stopped
  <2> QED
    BY <1>3, <2>1, <2>3 DEF Following, x
<1>8. CASE ~Literal(format[q])
  <2>1. x = ParseSpecial(format, content, behind, y, q)
    BY <1>1, <1>4, <1>5, <1>8 DEF ParseSymbol, Moved
  <2> HIDE DEF y, s
  <2>2. LET number == ParseNumber(SubSeq(content, a, to - 1), Char(to, behind))
        IN  /\ format[q] = Escape =>
                 IF a <= Len(content) /\ Char(a, behind) = Open
                 THEN Went(x, m.outs, a + 1, q) ELSE Failed(x, m.outs)
            /\ format[q] = SliceDir /\ to # 0 =>
                 IF Len(SubSeq(content, a, to - 1)) <= SliceRoom
                 THEN Went(x, Append(m.outs, [num |-> 0, str |-> SubSeq(content, a, to - 1)]), to, q)
                 ELSE Failed(x, Append(m.outs,
                          [num |-> 0, str |-> SubSeq(SubSeq(content, a, to - 1), 1, SliceRoom)]))
            /\ format[q] = NumDir /\ to # 0 =>
                 IF number.status = "OK"
                 THEN Went(x, Append(m.outs, [num |-> number.out, str |-> <<>>]), to, q)
                 ELSE Failed(x, m.outs)
    BY <1>2, <1>5, <1>8, <2>1, ParseSpecialIs
  <2> SUFFICES Following(x, q, at, behind)
    OBVIOUS
  <2> HIDE DEF x, a, b
  <2>3. /\ a <= b /\ part \in Seq(Int)
        /\ format[q] = Escape => b = a + 1 /\ a <= Len(content) /\ content[a] = Open
        /\ format[q] \in Directives => Follows(q, a, b)
        /\ format[q] = SliceDir => Len(part) <= SliceRoom
        /\ format[q] = NumDir => ParseNumber(part, Char(b, behind)).status = "OK"
    BY <1>1, <1>2, FittedIs
  <2>4. format[q] \in Directives => to = b /\ to # 0
    <3>1. b \in a .. Len(content) + 1 /\ b # 0
      BY <1>1, <1>2, <2>3
    <3> QED
      BY <1>2, <2>3, <3>1, RegionEndIs
  <2> HIDE DEF to
  <2>5. ASSUME NEW more, Went(x, more, b, q),
               \A i \in 1 .. q - 1 : format[i] \in Directives => more[Nth(i)] = m.outs[Nth(i)],
               format[q] \in Directives => more[Nth(q)] = Value(at, q, behind)
        PROVE  Following(x, q, at, behind)
    <3>1. x.status = "OK" /\ x.outs = more /\ x.at = b /\ x.run = q + 1
      BY <2>5 DEF Went
    <3>2. Going(x, q)
      BY <1>6, <3>1 DEF Stopped
    <3>3. Gave(at, more, q + 1, behind)
      <4>1. SUFFICES ASSUME NEW i \in 1 .. q, format[i] \in Directives
                     PROVE  more[Nth(i)] = Value(at, i, behind)
        <5>1. (q + 1) - 1 = q
          BY <1>1
        <5> QED
          BY <5>1 DEF Gave
      <4>2. i = q \/ i \in 1 .. q - 1
        BY <1>1
      <4> QED
        BY <1>5, <2>5, <4>1, <4>2 DEF Gave
    <3> QED
      BY <3>1, <3>2, <3>3 DEF Following, b
  <2>6. CASE format[q] = Escape
    <3>1. Went(x, m.outs, b, q)
      BY <2>2, <2>3, <2>6 DEF Char
    <3>2. format[q] \notin Directives
      BY <2>6 DEF Escape, Directives, NumDir, SliceDir
    <3> QED
      BY <2>5, <3>1, <3>2
  <2>7. ASSUME NEW o \in Outs, format[q] \in Directives, Went(x, Append(m.outs, o), b, q),
               o = Value(at, q, behind)
        PROVE  Following(x, q, at, behind)
    <3> DEFINE outs1 == m.outs
               more == Append(outs1, o)
    <3>1. outs1 \in Seq(Outs) /\ Len(outs1) = Nth(q - 1)
      BY <1>4
    <3> HIDE DEF outs1
    <3>2. /\ more[Nth(q)] = o
          /\ \A i \in 1 .. q - 1 : format[i] \in Directives => more[Nth(i)] = outs1[Nth(i)]
      BY <2>7, <3>1, AppendOuts
    <3>3. Went(x, more, b, q)
      BY <2>7 DEF outs1
    <3> HIDE DEF more
    <3> QED
      BY <2>5, <2>7, <3>2, <3>3 DEF outs1
  <2>8. CASE format[q] = SliceDir
    <3> DEFINE o == [num |-> 0, str |-> part]
    <3>1. format[q] \in Directives /\ format[q] # NumDir
      BY <2>8 DEF Directives, SliceDir, NumDir
    <3>2. Went(x, Append(m.outs, o), b, q)
      BY <2>2, <2>3, <2>4, <2>8, <3>1
    <3>3. o = Value(at, q, behind)
      BY <3>1 DEF Value, Part, a, b
    <3>4. o \in Outs
      <4> HIDE DEF part
      <4> QED
        BY <2>3 DEF Outs
    <3> HIDE DEF o
    <3> QED
      BY <2>7, <3>1, <3>2, <3>3, <3>4
  <2>9. CASE format[q] = NumDir
    <3> DEFINE number == ParseNumber(part, Char(b, behind))
               o == [num |-> number.out, str |-> <<>>]
    <3>1. format[q] \in Directives
      BY <2>9 DEF Directives
    <3>2. Went(x, Append(m.outs, o), b, q)
      BY <2>2, <2>3, <2>4, <2>9, <3>1
    <3>3. o = Value(at, q, behind)
      BY <2>9 DEF Value, Part, a, b
    <3>4. o \in Outs
      <4>1. number.out \in Values
        <5> HIDE DEF part
        <5> QED
          BY <1>1, <2>3, ParseIs
      <4> HIDE DEF number
      <4>2. number.out \in Int /\ <<>> \in Seq(Int)
        BY <1>1, <4>1, ValuesAre
      <4> QED
        BY <4>2 DEF Outs
    <3> HIDE DEF o
    <3> QED
      BY <2>7, <3>1, <3>2, <3>3, <3>4
  <2> QED
    BY <1>1, <1>8, <2>6, <2>8, <2>9, SymbolIs
<1> QED
  BY <1>7, <1>8

LEMMA FollowAll ==
    ASSUME Reading, NEW behind, NEW at, Cutting(at)
    PROVE  Following(Parses(behind, Len(format)), Len(format), at, behind)
<1> DEFINE n == Len(format)
           M(q) == Parses(behind, q)
           N == {q \in 0 .. n : Following(M(q), q, at, behind)}
<1>1. n \in Nat
  BY ReadingIs
<1>2. /\ M(0) = [status |-> "OK", outs |-> <<>>, at |-> 1, run |-> 1]
      /\ \A q \in 1 .. n + 1 : M(q) = ParseSymbol(format, content, behind, M(q - 1), q)
  BY ParsesAre
<1>3. 0 \in N
  <2> DEFINE m == M(0)
  <2>1. m.status = "OK" /\ m.at = 1 /\ m.run = 1
    BY <1>2
  <2>2. 0 \in 0 .. n
    BY <1>1
  <2>3. Going(m, 0) \/ Stopped(m)
    BY <2>2, ParsesGo
  <2> HIDE DEF m
  <2>4. Going(m, 0)
    BY <2>1, <2>3 DEF Stopped
  <2>5. 1 .. 1 - 1 = {} /\ at[1] = 1
    BY DEF Cutting
  <2>6. Gave(at, m.outs, m.run, behind)
    BY <2>1, <2>5 DEF Gave
  <2>7. Following(m, 0, at, behind)
    BY <2>1, <2>4, <2>5, <2>6 DEF Following
  <2> QED
    BY <2>2, <2>7 DEF m
<1>4. ASSUME NEW k \in 0 .. n - 1, k \in N PROVE k + 1 \in N
  <2> DEFINE q == k + 1
  <2>1. q \in 1 .. n /\ q \in 1 .. n + 1 /\ q \in 0 .. n /\ q - 1 = k
    BY <1>1
  <2> HIDE DEF q
  <2>2. M(q) = ParseSymbol(format, content, behind, M(q - 1), q)
    BY <1>2, <2>1
  <2>3. Following(M(q - 1), q - 1, at, behind)
    BY <1>4, <2>1
  <2> HIDE DEF M
  <2>4. Following(M(q), q, at, behind)
    BY <2>1, <2>2, <2>3, FollowSymbol
  <2> QED
    BY <2>1, <2>4 DEF q
<1> HIDE DEF N, M
<1>5. 0 .. n \subseteq N
  BY <1>1, <1>3, <1>4, UpTo
<1>6. n \in N
  BY <1>1, <1>5
<1> QED
  BY <1>6 DEF N, M

LEMMA CutParsed ==
    ASSUME Reading, NEW behind, ParsedFor(behind), NEW at, Cutting(at)
    PROVE  /\ result = "OK" /\ upto = at[Len(format) + 1]
           /\ \A i \in 1 .. Len(format) : format[i] \in Directives =>
                outs[Nth(i)] = Value(at, i, behind)
<1> DEFINE n == Len(format)
           q == n + 1
           m == Parses(behind, n)
           x == Parses(behind, q)
           s == LiteralsAt(format, m.run, q, content, m.at)
<1>1. /\ n \in Nat /\ q \in Nat /\ q \in 1 .. n + 1 /\ ~(q <= n) /\ q > n /\ q - 1 = n
  BY ReadingIs
<1>2. x = ParseSymbol(format, content, behind, m, q)
  <2>1. \A k \in 1 .. n + 1 :
            Parses(behind, k) = ParseSymbol(format, content, behind, Parses(behind, k - 1), k)
    BY ParsesAre
  <2>2. Parses(behind, q) = ParseSymbol(format, content, behind, Parses(behind, q - 1), q)
    BY <1>1, <2>1
  <2> QED
    BY <1>1, <2>2
<1>3. result = x.status /\ outs = x.outs /\ upto = IF x.status = "OK" THEN x.at ELSE 1
  BY ParsesAre DEF ParsedFor
<1>4. Following(m, n, at, behind)
  BY FollowAll
<1> HIDE DEF q, x, m
<1>5. Following(m, q - 1, at, behind)
  BY <1>1, <1>4
<1>6. s = "OK" /\ m.at + (q - m.run) = at[q] /\ Gave(at, m.outs, q, behind)
  BY <1>1, <1>5, FollowLiterals
<1>7. m.status = "OK" /\ DOMAIN m = {"status", "outs", "at", "run"}
  BY <1>4 DEF Following, Going
<1>8. x = Moved(m, q)
  BY <1>1, <1>2, <1>6, <1>7 DEF ParseSymbol, Moved
<1>9. x.status = "OK" /\ x.outs = m.outs /\ x.at = at[q]
  BY <1>6, <1>7, <1>8 DEF Moved
<1>10. \A i \in 1 .. n : format[i] \in Directives => x.outs[Nth(i)] = Value(at, i, behind)
  BY <1>1, <1>6, <1>9 DEF Gave
<1> QED
  BY <1>3, <1>9, <1>10 DEF q

\* What the state invariant says of a parse.
LEMMA ReadIs ==
    ASSUME NumInv, FmtInv, using \in {"parse", "both"}
    PROVE  Reading /\ \E behind \in {0, Open, Minus} : ParsedFor(behind)
<1>1. signed \in Signs
  BY DEF NumInv, TypeOK
<1>2. \E behind \in {0, Open, Minus} : ParsedFor(behind)
  BY DEF FmtInv
<1>3. CASE using = "parse"
  BY <1>1, <1>2, <1>3, FormatsAssumption DEF FmtInv, Reading
<1>4. CASE using = "both"
  <2>1. Using /\ content = InsertFormat(format, args, space).text
    BY <1>4 DEF FmtInv
  <2>2. content \in Seq(Int) /\ format \in Formats
    BY <2>1, WrittenIs
  <2> QED
    BY <1>1, <1>2, <2>2 DEF Reading
<1> QED
  BY <1>3, <1>4

\* Every state of the formats is of its type: in particular a parse gives out
\* at most one value for each symbol and leaves the slice within its text.
THEOREM FormatsTypes == FormatsSpec => []FormatsTypeOK
<1>1. ASSUME NumInv, FmtInv PROVE FormatsTypeOK
  <2>1. /\ TypeOK /\ using \in {"nothing", "insert", "parse", "both"}
        /\ space \in 0 .. MaxRoom
    BY <1>1 DEF NumInv, FmtInv
  <2>2. CASE using = "nothing"
    <3>1. /\ format = <<>> /\ content = <<>> /\ result = "OK" /\ outs = <<>> /\ upto = 1
      BY <1>1, <2>2 DEF FmtInv, NoFormat
    <3>2. Range(<<>>) \subseteq Int /\ Len(<<>>) = 0 /\ 1 \in 1 .. 0 + 1
      BY DEF Range
    <3> QED
      BY <2>1, <3>1, <3>2 DEF FormatsTypeOK
  <2>3. CASE using = "insert"
    <3>1. /\ Using /\ content = InsertFormat(format, args, space).text /\ outs = <<>>
          /\ result = InsertFormat(format, args, space).status /\ upto = 1
      BY <1>1, <2>3 DEF FmtInv
    <3>2. /\ content \in Seq(Int) /\ format \in Formats
          /\ result \in {"OK", "SLICE_END", "FORMAT_INVALID"}
      BY <3>1, WrittenIs, InsertIs
    <3>3. Len(content) \in Nat /\ Range(content) \subseteq Int
      BY <3>2 DEF Range
    <3>4. Len(format) \in Nat
      BY <3>2, FormatIs
    <3>5. Len(outs) <= Len(format) /\ upto \in 1 .. Len(content) + 1
      BY <3>1, <3>3, <3>4
    <3> QED
      BY <2>1, <3>2, <3>3, <3>5 DEF FormatsTypeOK
  <2>4. CASE using \in {"parse", "both"}
    <3>1. Reading /\ \E behind \in {0, Open, Minus} : ParsedFor(behind)
      BY <1>1, <2>4, ReadIs
    <3>2. PICK behind \in {0, Open, Minus} : ParsedFor(behind)
      BY <3>1
    <3>3. /\ result \in {"OK", "SLICE_END", "VALUE_INVALID", "FORMAT_INVALID"}
          /\ Len(outs) <= Len(format) /\ upto \in 1 .. Len(content) + 1
      BY <3>1, <3>2, ParsedIs
    <3>4. content \in Seq(Int) /\ format \in Formats
      BY <3>1 DEF Reading
    <3>5. Range(content) \subseteq Int
      BY <3>4 DEF Range
    <3> QED
      BY <2>1, <3>3, <3>4, <3>5 DEF FormatsTypeOK
  <2> QED
    BY <2>1, <2>2, <2>3, <2>4
<1> QED
  BY <1>1, FmtInvAlways, PTL

\* shttp_slice_parse_format succeeds on every text that can be cut up along its
\* format, and on no other, but that a minus alone may be taken for a number;
\* what it gives out for a slice is that part of the text, and the slice it
\* parses is left as it was if it fails: for every format and every text.
THEOREM FormatsMatched == FormatsSpec => []FormatMatches
<1>1. ASSUME NumInv, FmtInv PROVE FormatMatches
  <2>1. SUFFICES ASSUME using = "parse"
                 PROVE  /\ Faulty = {} /\ Cuts(FALSE) # {} => result = "OK"
                        /\ result = "OK" =>
                              /\ Faulty = {}
                              /\ \E at \in Cuts(TRUE) :
                                    /\ upto = at[Len(format) + 1]
                                    /\ \A i \in DOMAIN format : format[i] = SliceDir =>
                                          outs[Nth(i)].str = SubSeq(content, at[i], at[i + 1] - 1)
                        /\ result # "OK" => upto = 1
    BY DEF FormatMatches
  <2>2. Reading /\ \E behind \in {0, Open, Minus} : ParsedFor(behind)
    BY <1>1, <2>1, ReadIs
  <2>3. PICK behind \in {0, Open, Minus} : ParsedFor(behind)
    BY <2>2
  <2>4. ASSUME Faulty = {}, Cuts(FALSE) # {} PROVE result = "OK"
    <3>1. PICK at : at \in Cuts(FALSE)
      BY <2>4
    <3>2. Cutting(at)
      <4>1. at \in {c \in [1 .. Len(format) + 1 -> 1 .. Len(content) + 1] :
                       c[1] = 1 /\ \A i \in DOMAIN format : PartIs(i, c[i], c[i + 1], FALSE)}
        BY <3>1, CutsAre
      <4>2. DOMAIN format = 1 .. Len(format)
        BY <2>2, ReadingIs
      <4> QED
        BY <2>4, <4>1, <4>2 DEF Cutting, Fitted
    <3> QED
      BY <2>2, <2>3, <3>2, CutParsed
  <2> QED
    BY <2>2, <2>3, <2>4, ParsedIs
<1> QED
  BY <1>1, FmtInvAlways, PTL

-----------------------------------------------------------------------------
(* What was written in full is read back *)

\* Behind its sign, if it has one, the decimal text of a value has a digit.
LEMMA DecimalDigit ==
    ASSUME signed \in Signs, NEW v \in Values
    PROVE  LET t == Decimal(v)
               digit == IF signed /\ t # <<>> /\ t[1] = Minus THEN 2 ELSE 1
           IN  digit <= Len(t) /\ t[digit] \in 0 .. 9
<1> DEFINE t == Decimal(v)
           A == IF v < 0 THEN -v ELSE v
           S == IF v < 0 THEN <<Minus>> ELSE <<>>
           d == Dec[A]
<1>1. v \in Int /\ (v < 0 => signed)
  BY ValuesAre DEF Values
<1>2. /\ S \in Seq(Int) /\ d \in Seq(Digits) /\ d \in Seq(Int) /\ Len(d) >= 1
      /\ t = S \o d /\ t \in Seq(Int) /\ Len(t) = Len(S) + Len(d)
  BY <1>1, DecimalParts
<1>3. d[1] \in 0 .. 9
  <2> HIDE DEF d
  <2> QED
    BY <1>2 DEF Digits
<1> HIDE DEF t, d
<1>4. CASE v < 0
  <2>1. S = <<Minus>> /\ Len(S) = 1
    BY <1>4
  <2> HIDE DEF S
  <2>2. t[1] = Minus /\ t[2] = d[1] /\ Len(t) >= 2 /\ t # <<>>
    BY <1>2, <2>1
  <2> QED
    BY <1>1, <1>3, <1>4, <2>2 DEF t
<1>5. CASE ~(v < 0)
  <2>1. S = <<>> /\ Len(S) = 0
    BY <1>5
  <2> HIDE DEF S
  <2>2. t[1] = d[1] /\ Len(t) >= 1
    BY <1>2, <2>1
  <2>3. t[1] # Minus
    BY <1>3, <2>2 DEF Minus
  <2> QED
    BY <1>3, <2>2, <2>3 DEF t
<1> QED
  BY <1>4, <1>5

\* With room for all of it and no fault in the format, an insert writes the
\* texts of all symbols.
LEMMA WrittenInFull ==
    ASSUME Using, Faulty = {}, Len(FlattenSeq(Pieces)) <= space
    PROVE  InsertFormat(format, args, space).text = W(Len(format))
<1> DEFINE n == Len(format)
           whole == W(n)
           l == Len(whole)
<1>1. format \in Formats /\ n \in Nat /\ space \in Nat
  BY FormatIs DEF Using
<1>2. Fault - 1 = n
  <2>1. Fault = n + 1
    BY <1>1, FaultIs
  <2> QED
    BY <1>1, <2>1
<1>3. whole \in Seq(Int) /\ l \in Nat
  <2>1. n \in 0 .. Len(format)
    BY <1>1
  <2> QED
    BY <2>1, TextIs
<1>4. SubSeq(Pieces, 1, n) = Pieces
  <2>1. Pieces \in Seq(Seq(Int)) /\ Len(Pieces) = n
    BY PiecesAre
  <2> DEFINE p == Pieces
  <2>2. p \in Seq(Seq(Int)) /\ Len(p) = n
    BY <2>1
  <2> HIDE DEF p, n
  <2>3. SubSeq(p, 1, n) = p
    BY <2>2
  <2> QED
    BY <2>3 DEF p
<1>5. FlattenSeq(SubSeq(Pieces, 1, n)) = whole
  <2>1. n \in 0 .. Len(format)
    BY <1>1
  <2> QED
    BY <2>1, FlattenIs
<1>6. l <= space
  BY <1>4, <1>5
<1>7. Min({space, l}) = l
  <2>1. Min({space, l}) = IF space <= l THEN space ELSE l
    BY <1>1, <1>3, MinOfTwo
  <2> HIDE DEF l
  <2> QED
    BY <1>1, <1>3, <1>6, <2>1
<1>8. InsertFormat(format, args, space).text = SubSeq(whole, 1, l)
  BY <1>2, <1>7, InsertIs
<1>9. SubSeq(whole, 1, l) = whole
  <2> HIDE DEF whole
  <2> QED
    BY <1>3
<1> QED
  BY <1>8, <1>9

\* Where in the text the text of each symbol begins.
Begun == [i \in 1 .. Len(format) + 1 |-> Len(W(i - 1)) + 1]

LEMMA BegunIs ==
    ASSUME Using, content = W(Len(format))
    PROVE  /\ Begun \in [1 .. Len(format) + 1 -> 1 .. Len(content) + 1] /\ Begun[1] = 1
           /\ Begun[Len(format) + 1] = Len(content) + 1
           /\ \A i \in 1 .. Len(format) :
                /\ Begun[i] = Len(W(i - 1)) + 1 /\ Begun[i + 1] = Len(W(i)) + 1
                /\ Begun[i] \in Nat /\ Begun[i] <= Begun[i + 1]
                /\ Part(Begun, i) = Pieces[i]
<1> DEFINE n == Len(format)
<1>1. n \in Nat
  BY FormatIs DEF Using
<1>2. \A i \in 0 .. n : W(i) \in Seq(Int) /\ Len(W(i)) \in Nat /\ Len(W(i)) <= Len(content)
  <2>1. TAKE i \in 0 .. n
  <2>2. n \in i .. n
    BY <1>1
  <2> QED
    BY <2>2, TextIs, TextBegins
<1>3. \A i \in 1 .. n + 1 : i - 1 \in 0 .. n /\ Begun[i] = Len(W(i - 1)) + 1
  BY <1>1 DEF Begun
<1>4. Begun \in [1 .. n + 1 -> 1 .. Len(content) + 1]
  <2>1. \A i \in 1 .. n + 1 : Len(W(i - 1)) + 1 \in 1 .. Len(content) + 1
    <3>1. TAKE i \in 1 .. n + 1
    <3> DEFINE l == Len(W(i - 1))
               c == Len(content)
    <3>2. n \in 0 .. n
      BY <1>1
    <3>3. l \in Nat /\ l <= c /\ c \in Nat
      BY <1>2, <1>3, <3>2
    <3> HIDE DEF l, c
    <3>4. l + 1 \in 1 .. c + 1
      BY <3>3
    <3> QED
      BY <3>4 DEF l, c
  <2> QED
    BY <2>1 DEF Begun
<1>5. Begun[1] = 1
  <2>1. 1 \in 1 .. n + 1 /\ 1 - 1 = 0
    BY <1>1
  <2>2. Begun[1] = Len(W(0)) + 1 /\ W(0) = <<>>
    BY <1>3, <2>1, TextIs
  <2> QED
    BY <2>2
<1>6. Begun[n + 1] = Len(content) + 1
  <2>1. n + 1 \in 1 .. n + 1 /\ (n + 1) - 1 = n
    BY <1>1
  <2> QED
    BY <1>3, <2>1
<1>7. ASSUME NEW i \in 1 .. n
      PROVE  /\ Begun[i] = Len(W(i - 1)) + 1 /\ Begun[i + 1] = Len(W(i)) + 1
             /\ Begun[i] \in Nat /\ Begun[i] <= Begun[i + 1]
             /\ Part(Begun, i) = Pieces[i]
  <2>1. /\ i \in 1 .. n + 1 /\ i + 1 \in 1 .. n + 1 /\ (i + 1) - 1 = i /\ i \in 0 .. n
        /\ i - 1 \in 0 .. n /\ n \in i .. n
    BY <1>1
  <2> DEFINE x == W(i - 1)
             y == W(i)
             p == Pieces[i]
             a == Len(x) + 1
             b == Len(y) + 1
  <2>2. Begun[i] = a /\ Begun[i + 1] = b
    BY <1>3, <2>1
  <2>3. /\ x \in Seq(Int) /\ y \in Seq(Int) /\ p \in Seq(Int) /\ y = x \o p
        /\ Len(x) \in Nat /\ Len(y) = Len(x) + Len(p)
    BY <1>2, <2>1, TextIs, PiecesAre
  <2>4. /\ content \in Seq(Int) /\ Len(y) <= Len(content)
        /\ \A j \in 1 .. Len(y) : content[j] = y[j]
    <3>1. n \in 0 .. n
      BY <1>1
    <3> QED
      BY <1>2, <2>1, <3>1, TextBegins
  <2> HIDE DEF x, y, p
  <2>5. /\ a \in Nat /\ a <= b /\ b - 1 = Len(y) /\ a - 1 = Len(x)
        /\ a \in 1 .. Len(content) + 1 /\ b - 1 \in a - 1 .. Len(content)
        /\ (b - 1) - a + 1 = Len(p)
    BY <2>3, <2>4
  <2>6. SubSeq(content, a, b - 1) = p
    <3> DEFINE s == SubSeq(content, a, b - 1)
    <3>1. /\ s \in Seq(Int) /\ Len(s) = Len(p)
          /\ \A j \in 1 .. Len(p) : s[j] = content[a - 1 + j]
      BY <2>4, <2>5, SubSeqIs
    <3>2. \A j \in 1 .. Len(p) : content[Len(x) + j] = p[j]
      <4>1. TAKE j \in 1 .. Len(p)
      <4>2. Len(x) + j \in 1 .. Len(y) /\ y[Len(x) + j] = p[j]
        BY <2>3
      <4> QED
        BY <2>4, <4>2
    <3> HIDE DEF s, a, b
    <3>3. \A j \in 1 .. Len(p) : s[j] = p[j]
      BY <2>5, <3>1, <3>2
    <3>4. s \in Seq(Int) /\ p \in Seq(Int) /\ Len(s) = Len(p)
      BY <2>3, <3>1
    <3>5. s = p
      BY <3>1, <3>3, <3>4, SeqEqual
    <3> QED
      BY <3>5 DEF s
  <2>7. Part(Begun, i) = p
    BY <2>2, <2>6 DEF Part
  <2> QED
    BY <2>2, <2>5, <2>7 DEF x, y, p
<1> QED
  BY <1>4, <1>5, <1>6, <1>7

\* Behind each directive there is nothing, or a character that what it wrote
\* does not have.
Ends(i) ==
    format[i] \in Directives =>
        /\ i < Len(format) => /\ format[i + 1] \notin Directives
                              /\ FirstChar(format, i + 1) \notin Range(Pieces[i])
        /\ Len(Pieces[i]) <= SliceRoom

\* Then the texts of the symbols are a way to cut up what they make together.
LEMMA BegunCuts ==
    ASSUME Using, content = W(Len(format)), Faulty = {},
           \A i \in DOMAIN format : Ends(i)
    PROVE  Cutting(Begun)
<1> DEFINE n == Len(format)
<1>1. format \in Formats /\ n \in Nat /\ signed \in Signs /\ DOMAIN format = 1 .. n
  BY FormatIs DEF Using
<1>2. ASSUME NEW i \in 1 .. n PROVE PartIs(i, Begun[i], Begun[i + 1], FALSE)
  <2> DEFINE a == Begun[i]
             b == Begun[i + 1]
             part == SubSeq(content, a, b - 1)
             digit == IF signed /\ part # <<>> /\ part[1] = Minus THEN 2 ELSE 1
             next == FirstChar(format, i + 1)
  <2>1. /\ a <= b /\ part = Pieces[i] /\ b = Len(W(i)) + 1
        /\ Begun[n + 1] = Len(content) + 1
    BY BegunIs DEF Part
  <2>2. Literal(format[i]) => part = <<format[i]>>
    BY <2>1, PiecesAre
  <2>3. format[i] = Escape => part = <<Open>>
    BY <2>1, PiecesAre
  <2>4. ASSUME format[i] \in Directives
        PROVE  IF i = n THEN b = Len(content) + 1
               ELSE next \notin Range(part) /\ b <= Len(content) /\ content[b] = next
    <3>1. CASE i = n
      BY <2>1, <3>1
    <3>2. CASE i # n
      <4>1. i + 1 \in 1 .. n /\ i < n /\ (i + 1) - 1 = i /\ i + 1 \in 0 .. n /\ n \in i + 1 .. n
            /\ i \in 0 .. n
        <5> HIDE DEF n
        <5> QED
          BY <1>1, <3>2
      <4>2. format[i + 1] \notin Directives /\ next \notin Range(part)
        BY <1>1, <2>1, <2>4, <4>1 DEF Ends
      <4>3. i + 1 \notin Faulty
        OBVIOUS
      <4>4. Pieces[i + 1] = <<next>>
        <5>1. CASE Literal(format[i + 1])
          BY <4>1, <5>1, PiecesAre DEF FirstChar
        <5>2. CASE ~Literal(format[i + 1])
          <6>1. format[i + 1] = Escape
            BY <1>1, <4>1, <4>2, <4>3, <5>2, SymbolIs
          <6>2. Pieces[i + 1] = <<Open>>
            BY <4>1, <6>1, PiecesAre
          <6> QED
            BY <5>2, <6>2 DEF FirstChar
        <5> QED
          BY <5>1, <5>2
      <4> DEFINE x == W(i)
                 y == W(i + 1)
      <4>5. x \in Seq(Int) /\ y \in Seq(Int) /\ y = x \o <<next>> /\ next \in Int
        <5>1. Pieces[i + 1] \in Seq(Int)
          BY <4>1, PiecesAre
        <5>2. next = Pieces[i + 1][1] /\ Len(Pieces[i + 1]) = 1
          BY <4>4
        <5>3. next \in Int
          BY <5>1, <5>2
        <5> QED
          BY <4>1, <4>4, <5>3, TextIs
      <4>6. Len(y) <= Len(content) /\ \A j \in 1 .. Len(y) : content[j] = y[j]
        BY <4>1, TextBegins
      <4>7. b = Len(x) + 1
        BY <2>1
      <4>8. Len(content) \in Nat
        BY <1>1, <4>1, TextIs
      <4> HIDE DEF x, y, next, b
      <4>9. Len(y) = b /\ y[b] = next /\ b \in 1 .. Len(y)
        BY <4>5, <4>7
      <4> QED
        BY <3>2, <4>2, <4>6, <4>8, <4>9
    <3> QED
      BY <3>1, <3>2
  <2>5. format[i] = SliceDir => Len(part) <= SliceRoom
    BY <1>1, <2>1 DEF Ends, Directives
  <2>6. ASSUME format[i] = NumDir PROVE digit <= Len(part) /\ part[digit] \in 0 .. 9
    <3>1. format[i] \in Directives
      BY <2>6 DEF Directives
    <3>2. args[Nth(i)].num \in Values /\ part = Decimal(args[Nth(i)].num)
      BY <2>1, <2>6, <3>1, ArgIs, PiecesAre
    <3> QED
      BY <1>1, <3>2, DecimalDigit
  <2>7. a <= b
    BY <2>1
  <2> QED
    BY <2>2, <2>3, <2>4, <2>5, <2>6, <2>7, Zenon DEF PartIs
<1> QED
  BY <1>2, BegunIs DEF Cutting, Fitted

\* What shttp_slice_insert_format wrote in full, shttp_slice_parse_format
\* reads back with the same format, every value and all of the text, if the
\* format lets one see where each value ends: for every format, arguments and
\* buffer, whatever stands behind the text.
THEOREM FormatsReadBack == FormatsSpec => []FormatRoundTrip
<1>1. ASSUME NumInv, FmtInv PROVE FormatRoundTrip
  <2> DEFINE read(i) == IF format[i] = NumDir THEN [num |-> args[Nth(i)].num, str |-> <<>>]
                        ELSE [num |-> 0, str |-> args[Nth(i)].str]
  <2>1. SUFFICES ASSUME using = "both", Faulty = {}, Len(FlattenSeq(Pieces)) <= space,
                        \A i \in DOMAIN format : Ends(i)
                 PROVE  /\ result = "OK" /\ upto = Len(content) + 1
                        /\ \A i \in DOMAIN format :
                              format[i] \in Directives => outs[Nth(i)] = read(i)
    BY DEF FormatRoundTrip, Ends
  <2>2. Using /\ content = W(Len(format))
    <3>1. Using /\ content = InsertFormat(format, args, space).text
      BY <1>1, <2>1 DEF FmtInv
    <3> QED
      BY <2>1, <3>1, WrittenInFull
  <2>3. Reading /\ \E behind \in {0, Open, Minus} : ParsedFor(behind)
    BY <1>1, <2>1, ReadIs
  <2>4. PICK behind \in {0, Open, Minus} : ParsedFor(behind)
    BY <2>3
  <2>5. Cutting(Begun)
    BY <2>1, <2>2, BegunCuts
  <2>6. /\ result = "OK" /\ upto = Begun[Len(format) + 1]
        /\ \A i \in 1 .. Len(format) : format[i] \in Directives =>
             outs[Nth(i)] = Value(Begun, i, behind)
    BY <2>3, <2>4, <2>5, CutParsed
  <2>7. ASSUME NEW i \in 1 .. Len(format), format[i] \in Directives
        PROVE  Value(Begun, i, behind) = read(i)
    <3>1. Part(Begun, i) = Pieces[i]
      BY <2>2, BegunIs
    <3>2. CASE format[i] = NumDir
      <4>1. args[Nth(i)].num \in Values /\ Part(Begun, i) = Decimal(args[Nth(i)].num)
        BY <2>2, <2>7, <3>1, <3>2, ArgIs, PiecesAre
      <4>2. ParseNumber(Part(Begun, i), Char(Begun[i + 1], behind)).out = args[Nth(i)].num
        BY <2>3, <4>1, ParseDecimal DEF Reading
      <4> QED
        BY <3>2, <4>2 DEF Value
    <3>3. CASE format[i] = SliceDir
      <4>1. Part(Begun, i) = args[Nth(i)].str
        BY <2>2, <3>1, <3>3, PiecesAre
      <4> QED
        BY <3>3, <4>1 DEF Value, NumDir, SliceDir
    <3> QED
      BY <2>7, <3>2, <3>3 DEF Directives
  <2>8. DOMAIN format = 1 .. Len(format) /\ Begun[Len(format) + 1] = Len(content) + 1
    BY <2>2, FormatIs, BegunIs DEF Using
  <2> QED
    BY <2>6, <2>7, <2>8
<1> QED
  BY <1>1, FmtInvAlways, PTL
=============================================================================
