---------------------------- MODULE DriverProofs ----------------------------
(***************************************************************************)
(* Proofs about uconfig(), for every command line and every repository of  *)
(* packages: compareversions() orders versions by the bytes and numbers in *)
(* them, consistently, the words are parsed as they are read, the options  *)
(* decide where messages go, wherever they stand on the command line, the  *)
(* exit status is the one that a reader of the command line expects, and   *)
(* the flags are printed on one line, as many as were asked for and in     *)
(* their order.                                                            *)
(***************************************************************************)
EXTENDS Driver, FiniteSetTheorems, WellFoundedInduction, TLAPS

\* A set of natural numbers has a least one.
LEMMA LeastNatural ==
  ASSUME NEW S, S \subseteq Nat, S # {}
  PROVE  \E x \in S : \A i \in S : x <= i
<1>1. PICK x \in S : \A y \in S : ~(<<y, x>> \in OpToRel(<, Nat))
  BY NatLessThanWellFounded, WFMin, Zenon
<1>2. \A y \in S : ~(y < x)
  BY <1>1 DEF OpToRel
<1>3. \A y \in S : x <= y
  BY <1>2
<1> QED
  BY <1>3

\* A set that holds 0 and each successor of what it holds has all the natural numbers.
LEMMA NaturalsFrom0 ==
  ASSUME NEW S, 0 \in S, \A n \in Nat : n \in S => n + 1 \in S
  PROVE  Nat \subseteq S
<1> SUFFICES ASSUME Nat \ S # {} PROVE FALSE
  OBVIOUS
<1>1. PICK x \in Nat \ S : \A i \in Nat \ S : x <= i
  <2> DEFINE T == Nat \ S
  <2>1. T \subseteq Nat /\ T # {}
    OBVIOUS
  <2> HIDE DEF T
  <2>2. \E x \in T : \A i \in T : x <= i
    BY <2>1, LeastNatural
  <2> QED
    BY <2>2 DEF T
<1>2. x - 1 \in Nat /\ (x - 1) + 1 = x /\ x - 1 \in S
  BY <1>1
<1> QED
  BY <1>1, <1>2

\* What holds of M, and of each number if it holds of the next, holds of all from 1.
LEMMA DownToOne ==
  ASSUME NEW M \in Nat, NEW S, M \in S,
         \A k \in 1 .. M - 1 : k + 1 \in S => k \in S
  PROVE  \A k \in 1 .. M : k \in S
<1> DEFINE T == {n \in Nat : M - n \in 1 .. M => M - n \in S}
<1>1. 0 \in T
  OBVIOUS
<1>2. ASSUME NEW n \in Nat, n \in T PROVE n + 1 \in T
  <2> SUFFICES ASSUME M - (n + 1) \in 1 .. M PROVE M - (n + 1) \in S
    OBVIOUS
  <2>1. M - n \in 1 .. M /\ M - (n + 1) \in 1 .. M - 1 /\ (M - (n + 1)) + 1 = M - n
    OBVIOUS
  <2> QED
    BY <1>2, <2>1
<1>3. Nat \subseteq T
  <2> HIDE DEF T
  <2> QED
    BY <1>1, <1>2, NaturalsFrom0
<1>4. ASSUME NEW k \in 1 .. M PROVE k \in S
  <2>1. M - k \in Nat /\ M - (M - k) = k
    OBVIOUS
  <2> QED
    BY <1>3, <2>1
<1> QED
  BY <1>4

\* The least of a set of natural numbers.
LEMMA MinIs ==
  ASSUME NEW S, S \subseteq Nat, S # {}
  PROVE  Min(S) \in S /\ \A i \in S : Min(S) <= i
BY LeastNatural DEF Min

-----------------------------------------------------------------------------
(***************************************************************************)
(* Versions, and the numbers in them.                                      *)
(***************************************************************************)
Byte == 0 .. 255

\* Bytes are numbers.
LEMMA BytesAreNumbers == \A b \in Byte : b \in Nat /\ b \in Int
BY DEF Byte

\* The digits that a text starts with, and no more.
LEMMA LeadingIs ==
  ASSUME NEW s \in Seq(Byte)
  PROVE  /\ Leading(s) \in 0 .. Len(s)
         /\ \A k \in 1 .. Leading(s) : digit(s[k])
         /\ Leading(s) = Len(s) \/ ~digit(s[Leading(s) + 1])
<1> DEFINE S == {n \in 0 .. Len(s) : n = Len(s) \/ ~digit(s[n+1])}
           n == Min(S)
<1>1. S \subseteq Nat /\ Len(s) \in S
  OBVIOUS
<1> HIDE DEF n
<1>2. n \in S /\ \A i \in S : n <= i
  <2> HIDE DEF S
  <2> QED
    BY <1>1, MinIs DEF n
<1>3. ASSUME NEW k \in 1 .. n PROVE digit(s[k])
  <2>1. k - 1 \in 0 .. Len(s) /\ k - 1 # Len(s) /\ (k - 1) + 1 = k /\ ~(n <= k - 1)
    BY <1>2
  <2>2. k - 1 \notin S
    BY <1>2, <2>1
  <2> QED
    BY <2>1, <2>2
<1>4. Leading(s) = n
  BY DEF Leading, n
<1> QED
  BY <1>2, <1>3, <1>4

\* The number at a position, and no more.
LEMMA BehindIs ==
  ASSUME NEW s \in Seq(Byte), NEW i \in 1 .. Len(s) + 1
  PROVE  /\ Behind(s, i) \in i .. Len(s) + 1
         /\ \A k \in i .. Behind(s, i) - 1 : digit(s[k])
         /\ Behind(s, i) > Len(s) \/ ~digit(s[Behind(s, i)])
<1> DEFINE S == {k \in i .. Len(s) + 1 : k > Len(s) \/ ~digit(s[k])}
           n == Min(S)
<1>1. S \subseteq Nat /\ Len(s) + 1 \in S
  OBVIOUS
<1> HIDE DEF n
<1>2. n \in S /\ \A k \in S : n <= k
  <2> HIDE DEF S
  <2> QED
    BY <1>1, MinIs DEF n
<1>3. ASSUME NEW k \in i .. n - 1 PROVE digit(s[k])
  <2>1. k \in i .. Len(s) + 1 /\ ~(k > Len(s)) /\ ~(n <= k)
    BY <1>2
  <2>2. k \notin S
    BY <1>2, <2>1
  <2> QED
    BY <2>1, <2>2
<1>4. Behind(s, i) = n
  BY DEF Behind, n
<1> QED
  BY <1>2, <1>3, <1>4

\* Only one position is behind the number.
LEMMA BehindOnly ==
  ASSUME NEW s \in Seq(Byte), NEW i \in 1 .. Len(s) + 1, NEW e \in i .. Len(s) + 1,
         \A k \in i .. e - 1 : digit(s[k]), e > Len(s) \/ ~digit(s[e])
  PROVE  Behind(s, i) = e
<1> DEFINE b == Behind(s, i)
<1>1. b \in i .. Len(s) + 1 /\ (\A k \in i .. b - 1 : digit(s[k])) /\ (b > Len(s) \/ ~digit(s[b]))
  BY BehindIs
<1> HIDE DEF b
<1>2. b < e => FALSE
  BY <1>1
<1>3. e < b => FALSE
  BY <1>1
<1>4. b = e
  BY <1>1, <1>2, <1>3
<1> QED
  BY <1>4 DEF b

\* digits() of the rest of a text is the number there.
LEMMA DigitsAt ==
  ASSUME NEW s \in Seq(Byte), NEW i \in 1 .. Len(s)
  PROVE  LET a == digits(SubSeq(s, i, Len(s)))
         IN  /\ a \in Seq(Byte) /\ Len(a) = Behind(s, i) - i
             /\ \A k \in 1 .. Len(a) : a[k] = s[i + k - 1]
<1> DEFINE t == SubSeq(s, i, Len(s))
           n == Leading(t)
<1>1. t \in Seq(Byte) /\ Len(t) = Len(s) - i + 1 /\ \A k \in 1 .. Len(t) : t[k] = s[i + k - 1]
  OBVIOUS
<1> HIDE DEF t
<1>2. n \in 0 .. Len(t) /\ (\A k \in 1 .. n : digit(t[k])) /\ (n = Len(t) \/ ~digit(t[n + 1]))
  BY <1>1, LeadingIs
<1> HIDE DEF n
<1> DEFINE a == SubSeq(t, 1, n)
<1>3. a \in Seq(Byte) /\ Len(a) = n /\ \A k \in 1 .. n : a[k] = t[k]
  BY <1>1, <1>2
<1> HIDE DEF a
<1> DEFINE e == i + n
<1>4. e \in i .. Len(s) + 1 /\ i \in 1 .. Len(s) + 1 /\ e - i = n
  BY <1>1, <1>2
<1>5. ASSUME NEW k \in i .. e - 1 PROVE digit(s[k])
  <2> DEFINE m == k - i + 1
  <2>1. m \in 1 .. n /\ m \in 1 .. Len(t) /\ i + m - 1 = k
    BY <1>1, <1>2
  <2> QED
    BY <1>1, <1>2, <2>1
<1>6. e > Len(s) \/ ~digit(s[e])
  <2>1. CASE n = Len(t)
    BY <1>1, <2>1
  <2>2. CASE n # Len(t) /\ ~digit(t[n + 1])
    <3>1. n + 1 \in 1 .. Len(t)
      <4> DEFINE L == Len(t)
      <4>1. L \in Nat /\ n \in 0 .. L /\ n # L
        BY <1>1, <1>2, <2>2
      <4> HIDE DEF L
      <4>2. n + 1 \in 1 .. L
        BY <4>1
      <4> QED
        BY <4>2 DEF L
    <3>2. n \in Int /\ i + (n + 1) - 1 = e
      BY <1>2
    <3>3. t[n + 1] = s[e]
      BY <1>1, <3>1, <3>2
    <3> QED
      BY <2>2, <3>3
  <2> QED
    BY <1>2, <2>1, <2>2
<1> HIDE DEF e
<1>7. Behind(s, i) = e
  BY <1>4, <1>5, <1>6, BehindOnly
<1>8. a = digits(SubSeq(s, i, Len(s)))
  BY DEF digits, a, n, t
<1>9. \A k \in 1 .. n : a[k] = s[i + k - 1]
  <2> DEFINE L == Len(t)
  <2>1. L \in Nat /\ n \in 0 .. L
    BY <1>1, <1>2
  <2> HIDE DEF L
  <2>2. \A k \in 1 .. n : k \in 1 .. L
    BY <2>1
  <2>3. \A k \in 1 .. L : t[k] = s[i + k - 1]
    BY <1>1 DEF L
  <2> QED
    BY <1>3, <2>2, <2>3, Zenon
<1> QED
  BY <1>3, <1>4, <1>7, <1>8, <1>9

-----------------------------------------------------------------------------
(***************************************************************************)
(* The values of numbers.                                                  *)
(***************************************************************************)
AreValues(f, s, from, end) ==
  f = [k \in from .. end |-> IF k = from THEN 0 ELSE 10 * f[k-1] + s[k-1] - 48]

ValuesOf(s, from, end) == CHOOSE f : AreValues(f, s, from, end)

\* ValueOf is the last of the values.
LEMMA ValueIs ==
  ASSUME NEW s, NEW from, NEW end
  PROVE  ValueOf(s, from, end) = ValuesOf(s, from, end)[end]
BY DEF ValueOf, ValuesOf, AreValues

\* There are such values, one digit more at a time.
LEMMA ValuesExist ==
  ASSUME NEW s, NEW from \in Nat
  PROVE  \A n \in Nat : \E f : AreValues(f, s, from, from + n)
<1> DEFINE S == {n \in Nat : \E f : AreValues(f, s, from, from + n)}
<1>1. 0 \in S
  <2> DEFINE f == [k \in from .. from + 0 |-> 0]
  <2>1. \A k \in from .. from + 0 : k = from
    OBVIOUS
  <2>2. f = [k \in from .. from + 0 |-> IF k = from THEN 0 ELSE 10 * f[k-1] + s[k-1] - 48]
    <3> DEFINE D == from .. from + 0
    <3> HIDE DEF D
    <3> QED
      BY <2>1 DEF D
  <2> QED
    BY <2>2 DEF AreValues
<1>2. ASSUME NEW n \in Nat, n \in S PROVE n + 1 \in S
  <2> DEFINE e == from + n
  <2>1. PICK f : AreValues(f, s, from, e)
    BY <1>2
  <2>2. e \in Nat /\ from + (n + 1) = e + 1 /\ from <= e
    OBVIOUS
  <2> HIDE DEF e
  <2> DEFINE next == 10 * f[e] + s[e] - 48
             t == [k \in from .. e + 1 |-> IF k = e + 1 THEN next ELSE f[k]]
  <2> HIDE DEF next
  <2>3. /\ t[e + 1] = next
        /\ \A k \in from .. e : t[k] = f[k]
        /\ \A k \in from + 1 .. e + 1 : t[k-1] = f[k-1]
        /\ \A k \in from .. e + 1 : k = from \/ k \in from + 1 .. e \/ k = e + 1
        /\ e + 1 # from /\ (e + 1) - 1 = e
    BY <2>2
  <2>4. \A k \in from .. e : f[k] = IF k = from THEN 0 ELSE 10 * f[k-1] + s[k-1] - 48
    BY <2>1 DEF AreValues
  <2>5. t = [k \in from .. e + 1 |-> t[k]]
    OBVIOUS
  <2> HIDE DEF t
  <2>6. ASSUME NEW k \in from .. e + 1
        PROVE  t[k] = IF k = from THEN 0 ELSE 10 * t[k-1] + s[k-1] - 48
    <3>1. CASE k = e + 1
      <4>1. e + 1 \in from + 1 .. e + 1
        BY <2>2
      <4>2. t[k-1] = f[e]
        BY <2>3, <3>1, <4>1, Zenon
      <4> QED
        BY <2>3, <3>1, <4>2, Zenon DEF next
    <3>2. CASE k = from
      <4>1. from \in from .. e
        BY <2>2
      <4> QED
        BY <2>3, <2>4, <3>2, <4>1, Zenon
    <3>3. CASE k \in from + 1 .. e
      <4>1. k \in from .. e /\ k # from /\ k \in from + 1 .. e + 1
        BY <2>2, <3>3
      <4>2. t[k-1] = f[k-1] /\ t[k] = f[k]
        BY <2>3, <4>1, Zenon
      <4> QED
        BY <2>4, <4>1, <4>2, Zenon
    <3> QED
      BY <2>3, <3>1, <3>2, <3>3, Zenon
  <2>7. AreValues(t, s, from, e + 1)
    BY <2>5, <2>6, Zenon DEF AreValues
  <2> QED
    BY <2>2, <2>7
<1>3. Nat \subseteq S
  <2> HIDE DEF S
  <2> QED
    BY <1>1, <1>2, NaturalsFrom0
<1> QED
  BY <1>3

\* The values, digit by digit.
LEMMA ValueSteps ==
  ASSUME NEW s \in Seq(Byte), NEW from \in 1 .. Len(s) + 1, NEW end \in from .. Len(s) + 1
  PROVE  LET f == ValuesOf(s, from, end)
         IN  /\ f[from] = 0
             /\ \A k \in from .. end - 1 : f[k+1] = 10 * f[k] + s[k] - 48
             /\ \A k \in from .. end : f[k] \in Int
<1> DEFINE f == ValuesOf(s, from, end)
<1>1. AreValues(f, s, from, end)
  <2>1. end - from \in Nat /\ from + (end - from) = end /\ from \in Nat
    OBVIOUS
  <2>2. \E g : AreValues(g, s, from, end)
    BY <2>1, ValuesExist
  <2> QED
    BY <2>2, Zenon DEF ValuesOf
<1> HIDE DEF f
<1>2. \A k \in from .. end : f[k] = IF k = from THEN 0 ELSE 10 * f[k-1] + s[k-1] - 48
  BY <1>1 DEF AreValues
<1>3. f[from] = 0
  <2>1. from \in from .. end
    OBVIOUS
  <2> QED
    BY <1>2, <2>1, Zenon
<1>4. ASSUME NEW k \in from .. end - 1 PROVE f[k+1] = 10 * f[k] + s[k] - 48
  <2>1. k + 1 \in from .. end /\ k + 1 # from /\ (k + 1) - 1 = k
    OBVIOUS
  <2>2. f[k+1] = 10 * f[(k+1)-1] + s[(k+1)-1] - 48
    BY <1>2, <2>1, Zenon
  <2> QED
    BY <2>1, <2>2
<1> DEFINE S == {n \in Nat : from + n \in from .. end => f[from + n] \in Int}
<1>5. 0 \in S
  BY <1>3
<1>6. ASSUME NEW n \in Nat, n \in S PROVE n + 1 \in S
  <2> SUFFICES ASSUME from + (n + 1) \in from .. end PROVE f[from + (n + 1)] \in Int
    OBVIOUS
  <2>1. from + n \in from .. end /\ from + n \in from .. end - 1 /\ (from + n) + 1 = from + (n + 1)
        /\ from + n \in 1 .. Len(s)
    OBVIOUS
  <2>2. f[from + n] \in Int /\ s[from + n] \in Int
    <3>1. f[from + n] \in Int
      BY <1>6, <2>1
    <3>2. s[from + n] \in Byte
      BY <2>1
    <3> QED
      BY <3>1, <3>2, BytesAreNumbers
  <2>3. f[from + (n + 1)] = 10 * f[from + n] + s[from + n] - 48
    BY <1>4, <2>1
  <2> DEFINE x == f[from + n]
             y == s[from + n]
  <2> HIDE DEF x, y
  <2>4. x \in Int /\ y \in Int
    BY <2>2 DEF x, y
  <2>5. 10 * x + y - 48 \in Int
    BY <2>4
  <2> QED
    BY <2>3, <2>5 DEF x, y
<1>7. Nat \subseteq S
  <2> HIDE DEF S
  <2> QED
    BY <1>5, <1>6, NaturalsFrom0
<1>8. ASSUME NEW k \in from .. end PROVE f[k] \in Int
  <2>1. k - from \in Nat /\ from + (k - from) = k
    OBVIOUS
  <2> QED
    BY <1>7, <2>1
<1> QED
  BY <1>3, <1>4, <1>8 DEF f

\* Numbers with as many digits are in the order of the first digit that differs.
LEMMA FirstDigitDecides ==
  ASSUME NEW s \in Seq(Byte), NEW t \in Seq(Byte), NEW from \in Nat \ {0},
         NEW end \in from .. Len(s) + 1, end <= Len(t) + 1,
         \A k \in from .. end - 1 : digit(s[k]) /\ digit(t[k])
  PROVE  /\ ValueOf(s, from, end) \in Int
         /\ (\A k \in from .. end - 1 : s[k] = t[k]) =>
              ValueOf(s, from, end) = ValueOf(t, from, end)
         /\ \A j \in from .. end - 1 :
              (\A k \in from .. j - 1 : s[k] = t[k]) /\ s[j] < t[j]
                => ValueOf(s, from, end) < ValueOf(t, from, end)
<1> DEFINE f == ValuesOf(s, from, end)
           g == ValuesOf(t, from, end)
<1>1. from \in 1 .. Len(s) + 1 /\ from \in 1 .. Len(t) + 1 /\ end \in from .. Len(t) + 1
  OBVIOUS
<1>2. /\ f[from] = 0 /\ g[from] = 0
      /\ \A k \in from .. end - 1 : f[k+1] = 10 * f[k] + s[k] - 48
      /\ \A k \in from .. end - 1 : g[k+1] = 10 * g[k] + t[k] - 48
      /\ \A k \in from .. end : f[k] \in Int /\ g[k] \in Int
  BY <1>1, ValueSteps
<1> HIDE DEF f, g
<1>3. \A k \in from .. end - 1 : s[k] \in 48 .. 57 /\ t[k] \in 48 .. 57
  BY DEF digit
\* Up to j they have the same value, and behind it the one is less.
<1>4. ASSUME NEW j \in from .. end, \A k \in from .. j - 1 : s[k] = t[k]
      PROVE  /\ f[j] = g[j]
             /\ j < end /\ s[j] < t[j] => \A m \in j + 1 .. end : f[m] < g[m]
  <2> DEFINE S == {n \in Nat : from + n \in from .. end =>
                     /\ from + n <= j => f[from + n] = g[from + n]
                     /\ j < from + n /\ s[j] < t[j] => f[from + n] < g[from + n]}
  <2>1. 0 \in S
    BY <1>2
  <2>2. ASSUME NEW n \in Nat, n \in S PROVE n + 1 \in S
    <3> DEFINE p == from + n
    <3> SUFFICES ASSUME p + 1 \in from .. end
                 PROVE  /\ p + 1 <= j => f[p + 1] = g[p + 1]
                        /\ j < p + 1 /\ s[j] < t[j] => f[p + 1] < g[p + 1]
      <4>1. from + (n + 1) = p + 1 /\ n + 1 \in Nat
        OBVIOUS
      <4> HIDE DEF p
      <4> QED
        BY <4>1
    <3>1. p \in from .. end /\ p \in from .. end - 1 /\ p \in Int
      OBVIOUS
    <3>2. /\ p <= j => f[p] = g[p]
          /\ j < p /\ s[j] < t[j] => f[p] < g[p]
      BY <2>2, <3>1
    <3> HIDE DEF p
    <3> DEFINE x == f[p]
               y == g[p]
               c == s[p]
               d == t[p]
    <3>3. /\ x \in Int /\ y \in Int /\ c \in 48 .. 57 /\ d \in 48 .. 57
          /\ f[p + 1] = 10 * x + c - 48 /\ g[p + 1] = 10 * y + d - 48
      BY <1>2, <1>3, <3>1, Zenon
    <3>4. p < j => c = d
      BY <1>4, <3>1
    <3>5. p = j /\ s[j] < t[j] => c < d
      OBVIOUS
    <3> HIDE DEF x, y, c, d
    <3>6. p + 1 <= j => p < j /\ p <= j
      BY <3>1
    <3>7. p + 1 <= j => f[p + 1] = g[p + 1]
      BY <3>2, <3>3, <3>4, <3>6 DEF x, y
    <3>8. ASSUME j < p + 1, s[j] < t[j] PROVE f[p + 1] < g[p + 1]
      <4>1. p = j \/ j < p
        BY <3>1, <3>8
      <4>2. p = j => x = y /\ c < d
        BY <3>1, <3>2, <3>5, <3>8 DEF x, y
      <4>3. j < p => x < y
        BY <3>2, <3>8 DEF x, y
      <4>4. 10 * x + c - 48 < 10 * y + d - 48
        BY <3>3, <4>1, <4>2, <4>3
      <4> QED
        BY <3>3, <4>4
    <3> QED
      BY <3>7, <3>8
  <2>3. Nat \subseteq S
    <3> HIDE DEF S
    <3> QED
      BY <2>1, <2>2, NaturalsFrom0
  <2>4. ASSUME NEW m \in from .. end
        PROVE  /\ m <= j => f[m] = g[m]
               /\ j < m /\ s[j] < t[j] => f[m] < g[m]
    <3>1. m - from \in Nat /\ from + (m - from) = m
      OBVIOUS
    <3> QED
      BY <2>3, <3>1
  <2>5. f[j] = g[j]
    BY <2>4
  <2>6. ASSUME s[j] < t[j], NEW m \in j + 1 .. end PROVE f[m] < g[m]
    <3>1. m \in from .. end /\ j < m
      OBVIOUS
    <3> QED
      BY <2>4, <2>6, <3>1
  <2> QED
    BY <2>5, <2>6
<1>5. ValueOf(s, from, end) = f[end] /\ ValueOf(t, from, end) = g[end]
  BY ValueIs DEF f, g
<1>6. end \in from .. end
  OBVIOUS
<1>7. f[end] \in Int
  BY <1>2, <1>6
<1>8. ASSUME \A k \in from .. end - 1 : s[k] = t[k] PROVE f[end] = g[end]
  BY <1>4, <1>6, <1>8
<1>9. ASSUME NEW j \in from .. end - 1, \A k \in from .. j - 1 : s[k] = t[k], s[j] < t[j]
      PROVE  f[end] < g[end]
  <2>1. j \in from .. end /\ j < end /\ end \in j + 1 .. end
    OBVIOUS
  <2> QED
    BY <1>4, <1>9, <2>1
<1> QED
  BY <1>5, <1>7, <1>8, <1>9

-----------------------------------------------------------------------------
(***************************************************************************)
(* compareversions(), position by position.                                *)
(***************************************************************************)
CompareAt(f, va, vb, i) ==
  IF i > Len(va) \/ i > Len(vb) THEN Sign(Len(va) - Len(vb))
  ELSE IF ~digit(va[i]) \/ ~digit(vb[i])
  THEN IF va[i] # vb[i] THEN Sign(va[i] - vb[i]) ELSE f[i + 1]
  ELSE LET a == digits(SubSeq(va, i, Len(va)))
           b == digits(SubSeq(vb, i, Len(vb)))
       IN  IF Numbers(a, b) # 0 THEN Numbers(a, b) ELSE f[i + Len(a)]

Compares(f, va, vb, b) == f = [i \in b .. Len(va) + 1 |-> CompareAt(f, va, vb, i)]

Compared(va, vb) == CHOOSE f : Compares(f, va, vb, 1)

\* compareversions() is what is compared from the first position on.
LEMMA ComparedIs ==
  ASSUME NEW va, NEW vb
  PROVE  compareversions(va, vb) = Compared(va, vb)[1]
BY DEF compareversions, Compared, Compares, CompareAt

\* What is compared at a position depends on later ones.
LEMMA CompareAgrees ==
  ASSUME NEW va \in Seq(Byte), NEW vb \in Seq(Byte), NEW i \in 1 .. Len(va) + 1, NEW f, NEW g,
         \A j \in i + 1 .. Len(va) + 1 : f[j] = g[j]
  PROVE  CompareAt(f, va, vb, i) = CompareAt(g, va, vb, i)
<1>1. CASE i > Len(va) \/ i > Len(vb)
  BY <1>1 DEF CompareAt
<1>2. CASE ~(i > Len(va) \/ i > Len(vb))
  <2>1. i \in 1 .. Len(va) /\ i + 1 \in i + 1 .. Len(va) + 1
    BY <1>2
  <2>2. f[i + 1] = g[i + 1]
    BY <2>1
  <2>3. CASE ~digit(va[i]) \/ ~digit(vb[i])
    BY <1>2, <2>2, <2>3, Zenon DEF CompareAt
  <2>4. CASE ~(~digit(va[i]) \/ ~digit(vb[i]))
    <3> DEFINE a == digits(SubSeq(va, i, Len(va)))
               b == Behind(va, i)
    <3>1. Len(a) = b - i
      BY <2>1, DigitsAt
    <3>2. b \in i .. Len(va) + 1 /\ (b > Len(va) \/ ~digit(va[b]))
      BY <2>1, BehindIs
    <3>3. b # i
      BY <2>1, <2>4, <3>2
    <3> HIDE DEF b
    <3>4. i + (b - i) = b /\ b \in i + 1 .. Len(va) + 1
      BY <2>1, <3>2, <3>3
    <3>5. f[i + Len(a)] = g[i + Len(a)]
      BY <3>1, <3>4
    <3> QED
      BY <1>2, <2>4, <3>5, Zenon DEF CompareAt
  <2> QED
    BY <2>3, <2>4
<1> QED
  BY <1>1, <1>2

\* There is such a comparison.
LEMMA ComparesExist ==
  ASSUME NEW va \in Seq(Byte), NEW vb \in Seq(Byte)
  PROVE  \E f : Compares(f, va, vb, 1)
<1> DEFINE E == Len(va) + 1
           S == {b \in 1 .. E : \E f : Compares(f, va, vb, b)}
<1>1. E \in Nat /\ E >= 1
  OBVIOUS
<1>2. E \in S
  <2> DEFINE none == [i \in {} |-> 0]
             f == [i \in E .. E |-> CompareAt(none, va, vb, i)]
  <2>1. ASSUME NEW i \in E .. E PROVE CompareAt(none, va, vb, i) = CompareAt(f, va, vb, i)
    <3> HIDE DEF none, f
    <3>1. i > Len(va)
      BY <1>1
    <3> QED
      BY <3>1, Zenon DEF CompareAt
  <2>2. Compares(f, va, vb, E)
    BY <2>1, Zenon DEF Compares
  <2> QED
    BY <1>1, <2>2
<1>3. ASSUME NEW k \in 1 .. E - 1, k + 1 \in S PROVE k \in S
  <2>1. PICK f : Compares(f, va, vb, k + 1)
    BY <1>3
  <2> DEFINE first == CompareAt(f, va, vb, k)
             h == [i \in k .. E |-> IF i = k THEN first ELSE f[i]]
  <2> HIDE DEF first
  <2>2. /\ k \in k .. E /\ h[k] = first
        /\ \A i \in k + 1 .. E : h[i] = f[i]
        /\ \A i \in k .. E : i = k \/ i \in k + 1 .. E
        /\ \A i \in k .. E : i \in 1 .. E
        /\ \A i \in k .. E : \A j \in i + 1 .. E : j \in k + 1 .. E
    BY <1>1
  <2>3. h = [i \in k .. E |-> h[i]]
    OBVIOUS
  <2> HIDE DEF h
  <2>4. \A i \in k + 1 .. E : f[i] = CompareAt(f, va, vb, i)
    BY <2>1 DEF Compares
  <2>5. ASSUME NEW i \in k .. E PROVE h[i] = CompareAt(h, va, vb, i)
    <3>1. \A j \in i + 1 .. E : h[j] = f[j]
      BY <2>2, Zenon
    <3>2. CompareAt(h, va, vb, i) = CompareAt(f, va, vb, i)
      BY <2>2, <3>1, CompareAgrees
    <3> QED
      BY <2>2, <2>4, <3>2 DEF first
  <2>6. Compares(h, va, vb, k)
    BY <2>3, <2>5, Zenon DEF Compares
  <2> QED
    BY <1>1, <2>6
<1>4. \A b \in 1 .. E : b \in S
  <2> HIDE DEF S, E
  <2> QED
    BY <1>1, <1>2, <1>3, DownToOne
<1> QED
  BY <1>1, <1>4

\* What is compared from every position on.
LEMMA CompareSteps ==
  ASSUME NEW va \in Seq(Byte), NEW vb \in Seq(Byte)
  PROVE  \A i \in 1 .. Len(va) + 1 : Compared(va, vb)[i] = CompareAt(Compared(va, vb), va, vb, i)
<1> DEFINE f == Compared(va, vb)
<1>1. Compares(f, va, vb, 1)
  BY ComparesExist, Zenon DEF Compared
<1> HIDE DEF f
<1> QED
  BY <1>1 DEF Compares, f

-----------------------------------------------------------------------------
(***************************************************************************)
(* The order of versions.                                                  *)
(***************************************************************************)
\* Up to i the versions are the same, and the parts there begin in both.
Alike(va, vb, i) ==
  /\ i \in 1 .. Len(va) + 1 /\ i <= Len(vb) + 1
  /\ \A k \in 1 .. i - 1 : va[k] = vb[k]
  /\ Parted(va, i) /\ Parted(vb, i)

\* The first of them that differs decides.
LEMMA Decides ==
  ASSUME NEW va \in Seq(Byte), NEW vb \in Seq(Byte), NEW i, Alike(va, vb, i)
  PROVE  /\ Precedes(Key(va, i), Key(vb, i)) => Before(va, vb)
         /\ Precedes(Key(vb, i), Key(va, i)) => Before(vb, va)
<1>1. i \in 1 .. Len(va) + 1 /\ i \in 1 .. Len(vb) + 1
  BY DEF Alike
<1> QED
  BY <1>1 DEF Alike, Before

\* What the outcome says of the versions.
Says(n, va, vb) ==
  /\ n \in {-1, 0, 1}
  /\ n = 0 => va = vb
  /\ n = -1 => Before(va, vb)
  /\ n = 1 => Before(vb, va)

\* One of the versions ends.
LEMMA EndsRightly ==
  ASSUME NEW va \in Seq(Byte), NEW vb \in Seq(Byte), NEW i, Alike(va, vb, i),
         i > Len(va) \/ i > Len(vb)
  PROVE  Says(Sign(Len(va) - Len(vb)), va, vb)
<1> DEFINE a == Len(va)
           b == Len(vb)
<1>1. a \in Nat /\ b \in Nat /\ i \in 1 .. a + 1 /\ i <= b + 1 /\ (i = a + 1 \/ i = b + 1)
  BY DEF Alike
<1>2. /\ a < b => Sign(a - b) = -1 /\ i = a + 1 /\ i <= b
      /\ b < a => Sign(a - b) = 1 /\ i = b + 1 /\ i <= a
      /\ a = b => Sign(a - b) = 0 /\ i = a + 1
  <2> HIDE DEF a, b
  <2> QED
    BY <1>1 DEF Sign
<1>3. ASSUME NEW v \in Seq(Byte), NEW w \in Seq(Byte), i = Len(v) + 1, i <= Len(w)
      PROVE  Precedes(Key(v, i), Key(w, i))
  <2>1. i > Len(v) /\ i \in 1 .. Len(w) /\ ~(i > Len(w))
    BY <1>3
  <2>2. Key(v, i) = <<-1, 0, 0>>
    BY <2>1 DEF Key
  <2>3. w[i] \in Byte
    BY <2>1
  <2>4. Key(w, i)[1] \in Nat
    <3>1. CASE digit(w[i])
      BY <2>1, <3>1 DEF Key
    <3>2. CASE ~digit(w[i])
      BY <2>1, <2>3, <3>2, BytesAreNumbers DEF Key
    <3> QED
      BY <3>1, <3>2
  <2>5. Key(v, i)[1] < Key(w, i)[1]
    BY <2>2, <2>4
  <2> QED
    BY <2>5 DEF Precedes
<1>4. CASE a < b
  <2>1. Before(va, vb)
    BY <1>2, <1>3, <1>4, Decides
  <2> QED
    BY <1>2, <1>4, <2>1 DEF Says
<1>5. CASE b < a
  <2>1. Before(vb, va)
    BY <1>2, <1>3, <1>5, Decides
  <2> QED
    BY <1>2, <1>5, <2>1 DEF Says
<1>6. CASE a = b
  <2>1. \A k \in 1 .. a : va[k] = vb[k]
    BY <1>1, <1>2, <1>6 DEF Alike
  <2>2. va = vb
    BY <1>6, <2>1
  <2> QED
    BY <1>2, <1>6, <2>2 DEF Says
<1> QED
  <2> HIDE DEF a, b
  <2> QED
    BY <1>1, <1>4, <1>5, <1>6

\* The first difference between two texts of the same length.
LEMMA BytewiseIs ==
  ASSUME NEW s \in Seq(Byte), NEW t \in Seq(Byte), Len(s) = Len(t)
  PROVE  \/ Bytewise(s, t) = 0 /\ \A k \in 1 .. Len(s) : s[k] = t[k]
         \/ \E j \in 1 .. Len(s) :
              /\ \A k \in 1 .. j - 1 : s[k] = t[k]
              /\ \/ Bytewise(s, t) = -1 /\ s[j] < t[j]
                 \/ Bytewise(s, t) = 1 /\ t[j] < s[j]
<1> DEFINE D == {i \in DOMAIN s : s[i] # t[i]}
<1>1. CASE D = {}
  BY <1>1 DEF Bytewise
<1>2. CASE D # {}
  <2> DEFINE j == CHOOSE i \in D : \A k \in D : i <= k
  <2>1. D \subseteq Nat /\ D \subseteq 1 .. Len(s)
    OBVIOUS
  <2>2. j \in D /\ \A k \in D : j <= k
    <3> HIDE DEF D
    <3> QED
      BY <1>2, <2>1, LeastNatural
  <2>3. Bytewise(s, t) = Sign(s[j] - t[j])
    BY <1>2 DEF Bytewise
  <2> HIDE DEF j
  <2>4. j \in 1 .. Len(s) /\ s[j] # t[j]
    BY <2>1, <2>2
  <2>5. s[j] \in Int /\ t[j] \in Int
    <3>1. s[j] \in Byte /\ t[j] \in Byte
      BY <2>4
    <3> QED
      BY <3>1, BytesAreNumbers
  <2>6. \A k \in 1 .. j - 1 : s[k] = t[k]
    BY <2>2, <2>4
  <2>7. \/ Bytewise(s, t) = -1 /\ s[j] < t[j]
        \/ Bytewise(s, t) = 1 /\ t[j] < s[j]
    <3> DEFINE x == s[j]
               y == t[j]
    <3>1. x \in Int /\ y \in Int /\ x # y /\ Bytewise(s, t) = Sign(x - y)
      BY <2>3, <2>4, <2>5
    <3> HIDE DEF x, y
    <3>2. \/ Bytewise(s, t) = -1 /\ x < y
          \/ Bytewise(s, t) = 1 /\ y < x
      BY <3>1 DEF Sign
    <3> QED
      BY <3>2 DEF x, y
  <2> QED
    BY <2>4, <2>6, <2>7
<1> QED
  BY <1>1, <1>2

\* A difference in bytes that are not both digits.
LEMMA BytesDecide ==
  ASSUME NEW v \in Seq(Byte), NEW w \in Seq(Byte), NEW i \in 1 .. Len(v), i <= Len(w),
         ~digit(v[i]) \/ ~digit(w[i]), v[i] < w[i]
  PROVE  Precedes(Key(v, i), Key(w, i))
<1> DEFINE x == v[i]
           y == w[i]
<1>1. x \in Int /\ y \in Int /\ x < y /\ (~digit(x) \/ ~digit(y))
  <2>1. i \in 1 .. Len(w)
    OBVIOUS
  <2>2. x \in Byte /\ y \in Byte
    BY <2>1
  <2> QED
    BY <2>2, BytesAreNumbers
<1>2. ~(i > Len(v)) /\ ~(i > Len(w))
  OBVIOUS
<1>3. /\ Key(v, i)[1] = IF digit(x) THEN 48 ELSE x
      /\ Key(w, i)[1] = IF digit(y) THEN 48 ELSE y
  BY <1>2 DEF Key
<1> HIDE DEF x, y
<1>4. Key(v, i)[1] < Key(w, i)[1]
  BY <1>1, <1>3 DEF digit
<1> QED
  BY <1>4 DEF Precedes

\* A difference in numbers.
LEMMA NumbersDecide ==
  ASSUME NEW v \in Seq(Byte), NEW w \in Seq(Byte), NEW i \in 1 .. Len(v), i <= Len(w),
         digit(v[i]), digit(w[i]),
         \/ Behind(v, i) < Behind(w, i)
         \/ /\ Behind(v, i) = Behind(w, i)
            /\ \E j \in i .. Behind(v, i) - 1 : (\A k \in i .. j - 1 : v[k] = w[k]) /\ v[j] < w[j]
  PROVE  Precedes(Key(v, i), Key(w, i))
<1> DEFINE b == Behind(v, i)
           c == Behind(w, i)
<1>1. i \in Nat \ {0} /\ i \in 1 .. Len(w) + 1 /\ i \in 1 .. Len(v) + 1
      /\ ~(i > Len(v)) /\ ~(i > Len(w))
  OBVIOUS
<1>2. b \in i .. Len(v) + 1 /\ (\A k \in i .. b - 1 : digit(v[k]))
      /\ c \in i .. Len(w) + 1 /\ (\A k \in i .. c - 1 : digit(w[k]))
  BY <1>1, BehindIs
<1> DEFINE x == ValueOf(v, i, b)
           y == ValueOf(w, i, c)
<1>3. Key(v, i) = <<48, b - i, x>> /\ Key(w, i) = <<48, c - i, y>>
  BY <1>1 DEF Key
<1>4. CASE b < c
  <2>1. b - i < c - i
    BY <1>1, <1>2, <1>4
  <2> HIDE DEF b, c, x, y
  <2> QED
    BY <1>3, <2>1 DEF Precedes
<1>5. CASE b = c /\ \E j \in i .. b - 1 : (\A k \in i .. j - 1 : v[k] = w[k]) /\ v[j] < w[j]
  <2>1. b <= Len(w) + 1 /\ \A k \in i .. b - 1 : digit(v[k]) /\ digit(w[k])
    BY <1>2, <1>5
  <2>2. PICK j \in i .. b - 1 : (\A k \in i .. j - 1 : v[k] = w[k]) /\ v[j] < w[j]
    BY <1>5
  <2> HIDE DEF b, c
  <2>3. ValueOf(v, i, b) < ValueOf(w, i, b)
    BY <1>1, <1>2, <2>1, <2>2, FirstDigitDecides
  <2>4. x < y
    BY <1>5, <2>3
  <2> HIDE DEF x, y
  <2> QED
    BY <1>3, <1>5, <2>4 DEF Precedes
<1> QED
  BY <1>4, <1>5

\* What is behind a byte, or a number, that both have.
LEMMA StillAlike ==
  ASSUME NEW va \in Seq(Byte), NEW vb \in Seq(Byte), NEW i, Alike(va, vb, i),
         i <= Len(va), i <= Len(vb),
         NEW e \in i + 1 .. Len(va) + 1, e <= Len(vb) + 1, \A k \in i .. e - 1 : va[k] = vb[k],
         \/ ~digit(va[e - 1])
         \/ (e > Len(va) \/ ~digit(va[e])) /\ (e > Len(vb) \/ ~digit(vb[e]))
  PROVE  Alike(va, vb, e)
<1>1. i \in 1 .. Len(va) + 1 /\ \A k \in 1 .. i - 1 : va[k] = vb[k]
  BY DEF Alike
<1>2. e \in 1 .. Len(va) + 1 /\ e - 1 \in i .. e - 1
  BY <1>1
<1>3. \A k \in 1 .. e - 1 : va[k] = vb[k]
  <2>1. \A k \in 1 .. e - 1 : k \in 1 .. i - 1 \/ k \in i .. e - 1
    BY <1>1
  <2> QED
    BY <1>1, <2>1
<1>4. va[e - 1] = vb[e - 1]
  BY <1>2
<1>5. Parted(va, e) /\ Parted(vb, e)
  BY <1>4, Zenon DEF Parted
<1> QED
  BY <1>2, <1>3, <1>5 DEF Alike

\* What is compared from a position on is right, if it is right from later ones on.
LEMMA ComparesRightly ==
  ASSUME NEW va \in Seq(Byte), NEW vb \in Seq(Byte), NEW i, Alike(va, vb, i), NEW f,
         \A e \in i + 1 .. Len(va) + 1 : Alike(va, vb, e) => Says(f[e], va, vb)
  PROVE  Says(CompareAt(f, va, vb, i), va, vb)
<1>1. CASE i > Len(va) \/ i > Len(vb)
  BY <1>1, EndsRightly DEF CompareAt
<1>2. CASE ~(i > Len(va) \/ i > Len(vb))
  <2>1. i \in 1 .. Len(va) /\ i \in 1 .. Len(vb) /\ i <= Len(va) /\ i <= Len(vb)
    BY <1>2 DEF Alike
  <2>2. CASE ~digit(va[i]) \/ ~digit(vb[i])
    <3> DEFINE x == va[i]
               y == vb[i]
    <3>1. x \in Int /\ y \in Int
      <4>1. x \in Byte /\ y \in Byte
        BY <2>1
      <4> QED
        BY <4>1, BytesAreNumbers
    <3>2. CompareAt(f, va, vb, i) = IF x # y THEN Sign(x - y) ELSE f[i + 1]
      BY <1>2, <2>2 DEF CompareAt
    <3>3. CASE x < y
      <4>1. Before(va, vb)
        BY <2>1, <2>2, <3>3, BytesDecide, Decides
      <4>2. CompareAt(f, va, vb, i) = -1
        <5> HIDE DEF x, y
        <5> QED
          BY <3>1, <3>2, <3>3 DEF Sign
      <4> QED
        BY <4>1, <4>2 DEF Says
    <3>4. CASE y < x
      <4>1. Before(vb, va)
        BY <2>1, <2>2, <3>4, BytesDecide, Decides
      <4>2. CompareAt(f, va, vb, i) = 1
        <5> HIDE DEF x, y
        <5> QED
          BY <3>1, <3>2, <3>4 DEF Sign
      <4> QED
        BY <4>1, <4>2 DEF Says
    <3>5. CASE x = y
      <4>1. i + 1 \in i + 1 .. Len(va) + 1 /\ i + 1 <= Len(vb) + 1 /\ (i + 1) - 1 = i
            /\ \A k \in i .. (i + 1) - 1 : k = i
        BY <2>1
      <4>2. ~digit(va[(i + 1) - 1]) /\ \A k \in i .. (i + 1) - 1 : va[k] = vb[k]
        BY <2>2, <3>5, <4>1
      <4>3. Alike(va, vb, i + 1)
        BY <2>1, <4>1, <4>2, StillAlike
      <4> QED
        BY <3>2, <3>5, <4>1, <4>3
    <3> QED
      <4> HIDE DEF x, y
      <4> QED
        BY <3>1, <3>3, <3>4, <3>5
  <2>3. CASE digit(va[i]) /\ digit(vb[i])
    <3> DEFINE a == digits(SubSeq(va, i, Len(va)))
               b == digits(SubSeq(vb, i, Len(vb)))
               m == Behind(va, i)
               n == Behind(vb, i)
    <3>1. /\ a \in Seq(Byte) /\ Len(a) = m - i /\ \A k \in 1 .. Len(a) : a[k] = va[i + k - 1]
          /\ b \in Seq(Byte) /\ Len(b) = n - i /\ \A k \in 1 .. Len(b) : b[k] = vb[i + k - 1]
      BY <2>1, DigitsAt
    <3>2. CompareAt(f, va, vb, i) = IF Numbers(a, b) # 0 THEN Numbers(a, b) ELSE f[i + Len(a)]
      BY <1>2, <2>3 DEF CompareAt
    <3>3. /\ m \in i .. Len(va) + 1 /\ (m > Len(va) \/ ~digit(va[m]))
          /\ n \in i .. Len(vb) + 1 /\ (n > Len(vb) \/ ~digit(vb[n]))
      BY <2>1, BehindIs
    <3> HIDE DEF a, b
    <3>4. CASE Len(a) # Len(b)
      <4>1. Numbers(a, b) = Sign(Len(a) - Len(b))
        BY <3>4 DEF Numbers
      <4>2. \/ m < n /\ Numbers(a, b) = -1
            \/ n < m /\ Numbers(a, b) = 1
        <5> DEFINE p == Len(a)
                   q == Len(b)
        <5>1. /\ p \in Int /\ q \in Int /\ p = m - i /\ q = n - i
              /\ m \in Int /\ n \in Int /\ i \in Int
              /\ p # q /\ Numbers(a, b) = Sign(p - q)
          BY <2>1, <3>1, <3>3, <3>4, <4>1
        <5> HIDE DEF p, q, m, n
        <5> QED
          BY <5>1 DEF Sign
      <4>3. m < n => Before(va, vb)
        BY <2>1, <2>3, NumbersDecide, Decides
      <4>4. n < m => Before(vb, va)
        BY <2>1, <2>3, NumbersDecide, Decides
      <4> HIDE DEF m, n
      <4> QED
        BY <3>2, <4>2, <4>3, <4>4 DEF Says
    <3>5. CASE Len(a) = Len(b)
      <4>1. m = n /\ Numbers(a, b) = Bytewise(a, b)
        <5>1. Numbers(a, b) = Bytewise(a, b)
          BY <3>5 DEF Numbers
        <5>2. m \in Int /\ n \in Int /\ i \in Int /\ m - i = n - i
          BY <2>1, <3>1, <3>3, <3>5
        <5> HIDE DEF m, n
        <5> QED
          BY <5>1, <5>2
      <4>2. CASE Bytewise(a, b) = 0 /\ \A k \in 1 .. Len(a) : a[k] = b[k]
        <5>1. ASSUME NEW k \in i .. m - 1 PROVE va[k] = vb[k]
          <6> DEFINE d == k - i + 1
          <6>1. d \in 1 .. m - i /\ d \in 1 .. n - i /\ i + d - 1 = k
            BY <2>1, <3>3, <4>1
          <6>2. a[d] = va[k] /\ b[d] = vb[k] /\ a[d] = b[d]
            BY <3>1, <4>2, <6>1
          <6> QED
            BY <6>2
        <5>2. m # i
          BY <2>1, <2>3, <3>3
        <5>3. /\ m \in i + 1 .. Len(va) + 1 /\ m <= Len(vb) + 1 /\ i + Len(a) = m
          <6> HIDE DEF m, n
          <6> QED
            BY <2>1, <3>1, <3>3, <4>1, <5>2
        <5>4. (m > Len(va) \/ ~digit(va[m])) /\ (m > Len(vb) \/ ~digit(vb[m]))
          BY <3>3, <4>1
        <5> HIDE DEF m, n
        <5>5. Alike(va, vb, m)
          BY <2>1, <5>1, <5>3, <5>4, StillAlike
        <5> QED
          BY <3>2, <4>1, <4>2, <5>3, <5>5
      <4>3. CASE \E j \in 1 .. Len(a) :
                   /\ \A k \in 1 .. j - 1 : a[k] = b[k]
                   /\ \/ Bytewise(a, b) = -1 /\ a[j] < b[j]
                      \/ Bytewise(a, b) = 1 /\ b[j] < a[j]
        <5>1. PICK j \in 1 .. Len(a) :
                   /\ \A k \in 1 .. j - 1 : a[k] = b[k]
                   /\ \/ Bytewise(a, b) = -1 /\ a[j] < b[j]
                      \/ Bytewise(a, b) = 1 /\ b[j] < a[j]
          BY <4>3
        <5> DEFINE d == i + j - 1
        <5>2. d \in i .. m - 1 /\ d \in i .. n - 1 /\ a[j] = va[d] /\ b[j] = vb[d]
          <6>1. j \in 1 .. m - i /\ j \in 1 .. n - i
            BY <3>1, <4>1
          <6>2. a[j] = va[d] /\ b[j] = vb[d]
            BY <3>1, <6>1
          <6>3. d \in i .. m - 1 /\ d \in i .. n - 1
            BY <2>1, <3>3, <6>1
          <6> QED
            BY <6>2, <6>3
        <5>3. ASSUME NEW k \in i .. d - 1 PROVE va[k] = vb[k]
          <6> DEFINE e == k - i + 1
          <6>1. e \in 1 .. j - 1 /\ i + e - 1 = k /\ e \in 1 .. m - i /\ e \in 1 .. n - i
            BY <2>1, <3>3, <5>2
          <6>2. a[e] = va[k] /\ b[e] = vb[k]
            BY <3>1, <6>1
          <6>3. a[e] = b[e]
            BY <5>1, <6>1
          <6> QED
            BY <6>2, <6>3
        <5> HIDE DEF d
        <5>4. va[d] < vb[d] => Before(va, vb)
          BY <2>1, <2>3, <4>1, <5>2, <5>3, NumbersDecide, Decides
        <5>5. vb[d] < va[d] => Before(vb, va)
          BY <2>1, <2>3, <4>1, <5>2, <5>3, NumbersDecide, Decides
        <5> QED
          BY <3>2, <4>1, <5>1, <5>2, <5>4, <5>5 DEF Says
      <4> QED
        BY <3>1, <3>5, <4>2, <4>3, BytewiseIs
    <3> QED
      BY <3>4, <3>5
  <2> QED
    BY <2>2, <2>3
<1> QED
  BY <1>1, <1>2

\* So what is compared from the start is right.
LEMMA ComparedRightly ==
  ASSUME NEW va \in Seq(Byte), NEW vb \in Seq(Byte)
  PROVE  Says(compareversions(va, vb), va, vb)
<1> DEFINE f == Compared(va, vb)
           E == Len(va) + 1
           S == {b \in 1 .. E : \A e \in b .. E : Alike(va, vb, e) => Says(f[e], va, vb)}
<1>1. \A e \in 1 .. E : f[e] = CompareAt(f, va, vb, e)
  BY CompareSteps
<1> HIDE DEF f
<1>2. ASSUME NEW b \in 1 .. E, \A e \in b + 1 .. E : Alike(va, vb, e) => Says(f[e], va, vb)
      PROVE  b \in S
  <2>1. Alike(va, vb, b) => Says(f[b], va, vb)
    <3>1. \A e \in b + 1 .. Len(va) + 1 : Alike(va, vb, e) => Says(f[e], va, vb)
      BY <1>2
    <3>2. Alike(va, vb, b) => Says(CompareAt(f, va, vb, b), va, vb)
      BY <3>1, ComparesRightly, Zenon
    <3> QED
      BY <1>1, <3>2
  <2>2. \A e \in b .. E : e = b \/ e \in b + 1 .. E
    OBVIOUS
  <2> QED
    BY <1>2, <2>1, <2>2
<1>3. E \in S
  <2>1. E \in 1 .. E /\ \A e \in E + 1 .. E : FALSE
    OBVIOUS
  <2> QED
    BY <1>2, <2>1
<1>4. \A k \in 1 .. E - 1 : k + 1 \in S => k \in S
  <2>1. \A k \in 1 .. E - 1 : k \in 1 .. E
    OBVIOUS
  <2> QED
    BY <1>2, <2>1
<1>5. 1 \in S
  <2>1. E \in Nat /\ 1 \in 1 .. E
    OBVIOUS
  <2> HIDE DEF S, E
  <2> QED
    BY <1>3, <1>4, <2>1, DownToOne
<1>6. Alike(va, vb, 1)
  <2>1. Parted(va, 1) /\ Parted(vb, 1)
    BY DEF Parted
  <2> QED
    BY <2>1 DEF Alike
<1>7. 1 \in 1 .. E
  OBVIOUS
<1>8. Says(f[1], va, vb)
  BY <1>5, <1>6, <1>7
<1> QED
  BY <1>8, ComparedIs DEF f

\* Keys are compared like numbers.
LEMMA KeysAreNumbers ==
  ASSUME NEW s \in Seq(Byte), NEW i \in 1 .. Len(s) + 1
  PROVE  Key(s, i)[1] \in Int /\ Key(s, i)[2] \in Int /\ Key(s, i)[3] \in Int
<1>1. CASE i > Len(s)
  BY <1>1 DEF Key
<1>2. CASE ~(i > Len(s)) /\ digit(s[i])
  <2> DEFINE b == Behind(s, i)
             v == ValueOf(s, i, b)
  <2>1. b \in i .. Len(s) + 1 /\ (\A k \in i .. b - 1 : digit(s[k])) /\ i \in Nat \ {0}
    BY BehindIs
  <2>2. b - i \in Int
    BY <2>1
  <2>3. Key(s, i) = <<48, b - i, v>>
    BY <1>2 DEF Key
  <2> HIDE DEF b
  <2>4. v \in Int
    BY <2>1, FirstDigitDecides
  <2> HIDE DEF v
  <2> QED
    BY <2>2, <2>3, <2>4
<1>3. CASE ~(i > Len(s)) /\ ~digit(s[i])
  <2>1. s[i] \in Byte
    BY <1>3
  <2> QED
    BY <1>3, <2>1, BytesAreNumbers DEF Key
<1> QED
  BY <1>1, <1>2, <1>3

\* A key does not precede itself, nor do two precede each other.
LEMMA PrecedesOneWay ==
  ASSUME NEW v \in Seq(Byte), NEW w \in Seq(Byte), NEW i \in 1 .. Len(v) + 1, i <= Len(w) + 1
  PROVE  ~(Precedes(Key(v, i), Key(w, i)) /\ Precedes(Key(w, i), Key(v, i)))
<1>1. i \in 1 .. Len(w) + 1
  OBVIOUS
<1> DEFINE a == Key(v, i)
           b == Key(w, i)
<1>2. /\ a[1] \in Int /\ a[2] \in Int /\ a[3] \in Int
      /\ b[1] \in Int /\ b[2] \in Int /\ b[3] \in Int
  BY <1>1, KeysAreNumbers
<1> HIDE DEF a, b
<1> DEFINE p == a[1]
           q == a[2]
           r == a[3]
           x == b[1]
           y == b[2]
           z == b[3]
<1>3. /\ Precedes(a, b) <=> p < x \/ (p = x /\ q < y) \/ (p = x /\ q = y /\ r < z)
      /\ Precedes(b, a) <=> x < p \/ (x = p /\ y < q) \/ (x = p /\ y = q /\ z < r)
  BY Zenon DEF Precedes
<1> HIDE DEF p, q, r, x, y, z
<1>4. p \in Int /\ q \in Int /\ r \in Int /\ x \in Int /\ y \in Int /\ z \in Int
  BY <1>2 DEF p, q, r, x, y, z
<1>5. ~((p < x \/ (p = x /\ q < y) \/ (p = x /\ q = y /\ r < z))
        /\ (x < p \/ (x = p /\ y < q) \/ (x = p /\ y = q /\ z < r)))
  BY <1>4
<1>6. ~(Precedes(a, b) /\ Precedes(b, a))
  BY <1>3, <1>5, Zenon
<1> QED
  BY <1>6 DEF a, b

\* Before a place where two versions are still alike, no key differs.
LEMMA SameKeys ==
  ASSUME NEW va \in Seq(Byte), NEW vb \in Seq(Byte), NEW i, NEW j,
         Alike(va, vb, i), Alike(va, vb, j), i < j
  PROVE  Key(va, i) = Key(vb, i)
<1>1. /\ i \in Nat /\ j \in Nat /\ i \in 1 .. Len(va) /\ i \in 1 .. Len(vb)
      /\ j \in 1 .. Len(va) + 1 /\ j \in 1 .. Len(vb) + 1 /\ \A k \in 1 .. j - 1 : va[k] = vb[k]
      /\ ~(i > Len(va)) /\ ~(i > Len(vb))
  BY DEF Alike
<1>2. va[i] = vb[i]
  BY <1>1
<1>3. CASE ~digit(va[i])
  BY <1>1, <1>2, <1>3 DEF Key
<1>4. CASE digit(va[i])
  <2> DEFINE e == Behind(va, i)
  <2>5. /\ e \in i .. Len(va) + 1 /\ (\A k \in i .. e - 1 : digit(va[k]))
        /\ (e > Len(va) \/ ~digit(va[e]))
    BY <1>1, BehindIs
  <2> HIDE DEF e
\* The number ends up to j in both.
  <2>1. e <= j
    <3> SUFFICES ASSUME j < e PROVE FALSE
      BY <1>1, <2>5
    <3>1. j \in i .. e - 1 /\ j - 1 \in i .. e - 1 /\ j # 1 /\ ~(j > Len(va))
      BY <1>1, <2>5
    <3>2. digit(va[j]) /\ digit(va[j-1])
      BY <2>5, <3>1
    <3>3. Parted(va, j)
      BY DEF Alike
    <3> QED
      BY <3>1, <3>2, <3>3 DEF Parted
  <2>2. e \in i .. Len(vb) + 1 /\ \A k \in i .. e - 1 : k \in 1 .. j - 1 /\ va[k] = vb[k]
    BY <1>1, <2>5, <2>1
  <2>3. \A k \in i .. e - 1 : digit(vb[k])
    BY <2>5, <2>2
  <2>4. e > Len(vb) \/ ~digit(vb[e])
    <3>1. CASE e = j
      <4>1. e - 1 \in i .. e - 1 \/ e = i
        BY <1>1, <2>5
      <4>2. e # i
        BY <1>1, <3>1
      <4>3. digit(vb[e-1])
        BY <2>3, <4>1, <4>2
      <4>4. Parted(vb, e) /\ e # 1
        BY <1>1, <3>1 DEF Alike
      <4> QED
        BY <4>3, <4>4 DEF Parted
    <3>2. CASE e < j
      <4>1. e \in 1 .. j - 1 /\ ~(e > Len(va))
        BY <1>1, <2>5, <3>2
      <4> QED
        BY <1>1, <2>5, <4>1
    <3> QED
      BY <1>1, <2>5, <2>1, <3>1, <3>2
  <2>6. Behind(vb, i) = e
    BY <1>1, <2>2, <2>3, <2>4, BehindOnly
  <2>7. ValueOf(va, i, e) = ValueOf(vb, i, e)
    <3>1. i \in Nat \ {0} /\ e <= Len(vb) + 1 /\ \A k \in i .. e - 1 : digit(va[k]) /\ digit(vb[k])
      BY <1>1, <2>5, <2>2, <2>3
    <3> QED
      BY <2>5, <2>2, <3>1, FirstDigitDecides
  <2> QED
    BY <1>1, <1>2, <1>4, <2>6, <2>7 DEF Key, e
<1> QED
  BY <1>3, <1>4

\* No two versions are before each other, and none is before itself.
LEMMA BeforeOneWay ==
  ASSUME NEW va \in Seq(Byte), NEW vb \in Seq(Byte), Before(va, vb), Before(vb, va)
  PROVE  FALSE
<1>1. PICK i : Alike(va, vb, i) /\ Precedes(Key(va, i), Key(vb, i))
  BY DEF Before, Alike
<1>2. PICK j : Alike(va, vb, j) /\ Precedes(Key(vb, j), Key(va, j))
  <2>5. PICK j \in 1 .. Len(vb) + 1 :
          /\ j <= Len(va) + 1 /\ \A k \in 1 .. j - 1 : vb[k] = va[k]
          /\ Parted(vb, j) /\ Parted(va, j) /\ Precedes(Key(vb, j), Key(va, j))
    BY DEF Before
  <2>1. Alike(va, vb, j)
    BY <2>5 DEF Alike
  <2> QED
    BY <2>5, <2>1
<1>3. /\ i \in 1 .. Len(va) + 1 /\ i <= Len(vb) + 1 /\ i \in 1 .. Len(vb) + 1
      /\ j \in 1 .. Len(va) + 1 /\ j <= Len(vb) + 1 /\ j \in 1 .. Len(vb) + 1
  BY <1>1, <1>2 DEF Alike
<1>4. CASE i = j
  BY <1>1, <1>2, <1>3, <1>4, PrecedesOneWay
<1>5. CASE i < j
  <2>5. Key(va, i) = Key(vb, i)
    BY <1>1, <1>2, <1>5, SameKeys
  <2>1. ~(Precedes(Key(va, i), Key(vb, i)) /\ Precedes(Key(vb, i), Key(va, i)))
    BY <1>3, PrecedesOneWay
  <2> QED
    BY <1>1, <2>5, <2>1
<1>6. CASE j < i
  <2>5. Key(va, j) = Key(vb, j)
    BY <1>1, <1>2, <1>6, SameKeys
  <2>1. ~(Precedes(Key(va, j), Key(vb, j)) /\ Precedes(Key(vb, j), Key(va, j)))
    BY <1>3, PrecedesOneWay
  <2> QED
    BY <1>2, <2>5, <2>1
<1> QED
  BY <1>3, <1>4, <1>5, <1>6

(***************************************************************************)
(* compareversions() is the order Before: it finds two versions equal      *)
(* exactly if they are the same text, and otherwise tells which of them    *)
(* has the lesser byte or number where they differ first, a number being   *)
(* the greater the more digits it has, leading zeros included.  So of two  *)
(* versions one is before the other, and only one.                         *)
(***************************************************************************)
THEOREM VersionOrderCorrect ==
  ASSUME NEW v \in Seq(Byte), NEW w \in Seq(Byte)
  PROVE  /\ compareversions(v, w) \in {-1, 0, 1}
         /\ compareversions(v, w) = 0 <=> v = w
         /\ compareversions(v, w) = -1 <=> Before(v, w)
         /\ compareversions(v, w) = 1 <=> Before(w, v)
<1> DEFINE n == compareversions(v, w)
<1>1. Says(n, v, w)
  BY ComparedRightly
<1> HIDE DEF n
<1>2. ~(Before(v, w) /\ Before(w, v))
  BY BeforeOneWay
<1>3. v = w => ~Before(v, w)
  BY <1>2
<1> QED
  BY <1>1, <1>2, <1>3 DEF Says, n

-----------------------------------------------------------------------------
(***************************************************************************)
(* What this order is good for.                                            *)
(***************************************************************************)
\* What is at a place precedes what follows something that it precedes.
LEMMA PrecedesOn ==
  ASSUME NEW u \in Seq(Byte), NEW v \in Seq(Byte), NEW w \in Seq(Byte),
         NEW i \in 1 .. Len(u) + 1, i <= Len(v) + 1, i <= Len(w) + 1,
         Precedes(Key(u, i), Key(v, i)), Precedes(Key(v, i), Key(w, i))
  PROVE  Precedes(Key(u, i), Key(w, i))
<1>1. i \in 1 .. Len(v) + 1 /\ i \in 1 .. Len(w) + 1
  OBVIOUS
<1> DEFINE a == Key(u, i)
           b == Key(v, i)
           c == Key(w, i)
<1>2. /\ a[1] \in Int /\ a[2] \in Int /\ a[3] \in Int
      /\ b[1] \in Int /\ b[2] \in Int /\ b[3] \in Int
      /\ c[1] \in Int /\ c[2] \in Int /\ c[3] \in Int
  BY <1>1, KeysAreNumbers
<1>3. Precedes(a, b) /\ Precedes(b, c)
  OBVIOUS
<1> HIDE DEF a, b, c
<1> QED
  <2> DEFINE p == a[1]
             q == a[2]
             r == a[3]
             x == b[1]
             y == b[2]
             z == b[3]
             l == c[1]
             m == c[2]
             n == c[3]
  <2>1. /\ p < x \/ (p = x /\ q < y) \/ (p = x /\ q = y /\ r < z)
        /\ x < l \/ (x = l /\ y < m) \/ (x = l /\ y = m /\ z < n)
    BY <1>3, Zenon DEF Precedes
  <2>2. p < l \/ (p = l /\ q < m) \/ (p = l /\ q = m /\ r < n) => Precedes(a, c)
    BY Zenon DEF Precedes
  <2> HIDE DEF p, q, r, x, y, z, l, m, n
  <2>3. /\ p \in Int /\ q \in Int /\ r \in Int /\ x \in Int /\ y \in Int /\ z \in Int
        /\ l \in Int /\ m \in Int /\ n \in Int
    BY <1>2 DEF p, q, r, x, y, z, l, m, n
  <2>4. p < l \/ (p = l /\ q < m) \/ (p = l /\ q = m /\ r < n)
    BY <2>1, <2>3
  <2>5. Precedes(a, c)
    BY <2>2, <2>4
  <2> QED
    BY <2>5 DEF a, b, c

\* Up to an earlier place, a part begins in a version that is the same so far.
LEMMA AlikeBefore ==
  ASSUME NEW v \in Seq(Byte), NEW w \in Seq(Byte), NEW i \in Nat \ {0}, NEW j,
         Alike(v, w, j), i < j, Parted(v, i)
  PROVE  Alike(v, w, i)
<1>1. /\ j \in 1 .. Len(v) + 1 /\ j <= Len(w) + 1 /\ j \in Nat
      /\ \A k \in 1 .. j - 1 : v[k] = w[k]
  BY DEF Alike
<1>2. i \in 1 .. Len(v) + 1 /\ i <= Len(w) + 1 /\ ~(i > Len(v)) /\ i \in 1 .. j - 1
  BY <1>1
<1>3. i = 1 \/ i - 1 \in 1 .. j - 1
  BY <1>1, <1>2
<1>4. v[i] = w[i] /\ (i = 1 \/ v[i-1] = w[i-1])
  BY <1>1, <1>2, <1>3
<1>5. Parted(w, i)
  BY <1>2, <1>4 DEF Parted
<1>6. \A k \in 1 .. i - 1 : v[k] = w[k]
  BY <1>1, <1>2
<1> QED
  BY <1>2, <1>5, <1>6 DEF Alike

\* Versions that are like a third one are like each other.
LEMMA AlikeOn ==
  ASSUME NEW u \in Seq(Byte), NEW v \in Seq(Byte), NEW w \in Seq(Byte), NEW i,
         Alike(u, v, i), Alike(v, w, i)
  PROVE  Alike(u, w, i)
<1>1. \A k \in 1 .. i - 1 : u[k] = w[k]
  BY DEF Alike
<1> QED
  BY <1>1 DEF Alike

\* Alike is the same both ways.
LEMMA AlikeBothWays ==
  ASSUME NEW v \in Seq(Byte), NEW w \in Seq(Byte), NEW i, Alike(v, w, i)
  PROVE  Alike(w, v, i)
<1>1. i \in 1 .. Len(w) + 1 /\ i <= Len(v) + 1 /\ \A k \in 1 .. i - 1 : w[k] = v[k]
  BY DEF Alike
<1> QED
  BY <1>1 DEF Alike

\* A version before another differs from it somewhere.
LEMMA BeforeAt ==
  ASSUME NEW v \in Seq(Byte), NEW w \in Seq(Byte), Before(v, w)
  PROVE  \E i \in Nat \ {0} : Alike(v, w, i) /\ Precedes(Key(v, i), Key(w, i))
<1>1. PICK i \in 1 .. Len(v) + 1 :
        /\ i <= Len(w) + 1 /\ \A k \in 1 .. i - 1 : v[k] = w[k]
        /\ Parted(v, i) /\ Parted(w, i) /\ Precedes(Key(v, i), Key(w, i))
  BY DEF Before
<1>2. i \in Nat \ {0} /\ Alike(v, w, i)
  BY <1>1 DEF Alike
<1> QED
  BY <1>1, <1>2

(***************************************************************************)
(* What compareversions() says is consistent: a version below one that is  *)
(* below a third is itself below the third, so that a chain of required    *)
(* versions never turns round.                                             *)
(***************************************************************************)
THEOREM VersionOrderTransitive ==
  ASSUME NEW u \in Seq(Byte), NEW v \in Seq(Byte), NEW w \in Seq(Byte),
         compareversions(u, v) = -1, compareversions(v, w) = -1
  PROVE  compareversions(u, w) = -1
<1>1. Before(u, v) /\ Before(v, w)
  BY VersionOrderCorrect
<1>2. PICK i \in Nat \ {0} : Alike(u, v, i) /\ Precedes(Key(u, i), Key(v, i))
  BY <1>1, BeforeAt
<1>3. PICK j \in Nat \ {0} : Alike(v, w, j) /\ Precedes(Key(v, j), Key(w, j))
  BY <1>1, BeforeAt
<1>4. ASSUME i < j PROVE Before(u, w)
  <2>1. Alike(v, w, i)
    <3>1. Parted(v, i)
      BY <1>2 DEF Alike
    <3> QED
      BY <1>3, <1>4, <3>1, AlikeBefore
  <2>2. Alike(u, w, i)
    BY <1>2, <2>1, AlikeOn
  <2>3. Key(v, i) = Key(w, i)
    BY <1>3, <1>4, <2>1, SameKeys
  <2>4. Precedes(Key(u, i), Key(w, i))
    BY <1>2, <2>3
  <2> QED
    BY <2>2, <2>4, Decides
<1>5. ASSUME j < i PROVE Before(u, w)
  <2>1. Alike(v, u, i)
    BY <1>2, AlikeBothWays
  <2>2. Alike(v, u, j)
    <3>1. Parted(v, j)
      BY <1>3 DEF Alike
    <3> QED
      BY <1>5, <2>1, <3>1, AlikeBefore
  <2>3. Alike(u, v, j)
    BY <2>2, AlikeBothWays
  <2>4. Alike(u, w, j)
    BY <1>3, <2>3, AlikeOn
  <2>5. Key(u, j) = Key(v, j)
    BY <1>2, <1>5, <2>3, SameKeys
  <2>6. Precedes(Key(u, j), Key(w, j))
    BY <1>3, <2>5
  <2> QED
    BY <2>4, <2>6, Decides
<1>6. ASSUME i = j PROVE Before(u, w)
  <2>1. Alike(v, w, i) /\ Precedes(Key(v, i), Key(w, i))
    BY <1>3, <1>6
  <2>2. Alike(u, w, i)
    BY <1>2, <2>1, AlikeOn
  <2>3. i \in 1 .. Len(u) + 1 /\ i <= Len(v) + 1 /\ i <= Len(w) + 1
    BY <1>2, <2>1 DEF Alike
  <2>4. Precedes(Key(u, i), Key(w, i))
    BY <1>2, <2>1, <2>3, PrecedesOn
  <2> QED
    BY <2>2, <2>4, Decides
<1>7. Before(u, w)
  <2>1. i < j \/ j < i \/ i = j
    OBVIOUS
  <2> QED
    BY <1>4, <1>5, <1>6, <2>1
<1> QED
  BY <1>7, VersionOrderCorrect

\* A number that starts with another digit than zero is greater than all with less digits.
LEMMA MoreDigitsMore ==
  ASSUME NEW s \in Seq(Byte), NEW t \in Seq(Byte), NEW from \in Nat \ {0},
         NEW d \in from .. Len(s) + 1, NEW e \in from .. Len(t) + 1, d < e,
         \A k \in from .. d - 1 : digit(s[k]),
         \A k \in from .. e - 1 : digit(t[k]),
         t[from] # 48
  PROVE  ValueOf(s, from, d) < ValueOf(t, from, e)
<1> DEFINE f == ValuesOf(s, from, d)
           g == ValuesOf(t, from, e)
<1>1. from \in 1 .. Len(s) + 1 /\ from \in 1 .. Len(t) + 1
  OBVIOUS
<1>2. /\ f[from] = 0 /\ \A k \in from .. d - 1 : f[k+1] = 10 * f[k] + s[k] - 48
      /\ \A k \in from .. d : f[k] \in Int
  BY <1>1, ValueSteps
<1>3. /\ g[from] = 0 /\ \A k \in from .. e - 1 : g[k+1] = 10 * g[k] + t[k] - 48
      /\ \A k \in from .. e : g[k] \in Int
  BY <1>1, ValueSteps
<1> HIDE DEF f, g
\* So far t has a digit more.
<1> DEFINE S == {n \in Nat : from + n \in from .. d =>
                    0 <= f[from + n] /\ f[from + n] < g[from + n + 1]}
<1>4. 0 \in S
  <2>1. from \in from .. e - 1 /\ from \in from .. e
    OBVIOUS
  <2>2. digit(t[from]) /\ g[from + 1] = 10 * g[from] + t[from] - 48
    BY <1>3, <2>1
  <2> DEFINE y == t[from]
  <2>3. g[from + 1] = y - 48 /\ y \in 48 .. 57 /\ y # 48
    BY <1>3, <2>2 DEF digit
  <2> HIDE DEF y
  <2>4. 0 < y - 48
    BY <2>3
  <2>5. f[from] < g[from + 1]
    BY <1>2, <2>3, <2>4
  <2> QED
    BY <1>2, <2>5
<1>5. ASSUME NEW n \in Nat, n \in S PROVE n + 1 \in S
  <2> SUFFICES ASSUME from + (n + 1) \in from .. d
               PROVE  0 <= f[from + (n + 1)] /\ f[from + (n + 1)] < g[from + (n + 1) + 1]
    OBVIOUS
  <2> DEFINE k == from + n
  <2>1. /\ k \in from .. d /\ k \in from .. d - 1 /\ k + 1 = from + (n + 1)
        /\ k + 1 \in from .. e - 1 /\ k + 1 \in from .. e /\ (k + 1) + 1 = from + (n + 1) + 1
        /\ k + 1 = from + n + 1
    OBVIOUS
  <2> HIDE DEF k
  <2>2. 0 <= f[k] /\ f[k] < g[k + 1]
    BY <1>5, <2>1 DEF k
  <2>3. f[k] \in Int /\ g[k + 1] \in Int
    BY <1>2, <1>3, <2>1
  <2>4. f[k + 1] = 10 * f[k] + s[k] - 48 /\ s[k] \in 48 .. 57
    BY <1>2, <2>1 DEF digit
  <2>5. g[(k + 1) + 1] = 10 * g[k + 1] + t[k + 1] - 48 /\ t[k + 1] \in 48 .. 57
    BY <1>3, <2>1 DEF digit
  <2>6. 0 <= f[k + 1] /\ f[k + 1] < g[(k + 1) + 1]
    <3> DEFINE x == f[k]
               y == g[k + 1]
               p == s[k]
               q == t[k + 1]
    <3>1. x \in Int /\ y \in Int /\ 0 <= x /\ x < y /\ p \in 48 .. 57 /\ q \in 48 .. 57
      BY <2>2, <2>3, <2>4, <2>5
    <3>2. f[k + 1] = 10 * x + p - 48 /\ g[(k + 1) + 1] = 10 * y + q - 48
      BY <2>4, <2>5
    <3> HIDE DEF x, y, p, q
    <3>3. 0 <= 10 * x + p - 48 /\ 10 * x + p - 48 < 10 * y + q - 48
      BY <3>1
    <3> QED
      BY <3>2, <3>3
  <2> QED
    BY <2>1, <2>6
<1>6. Nat \subseteq S
  <2> HIDE DEF S
  <2> QED
    BY <1>4, <1>5, NaturalsFrom0
<1>7. 0 <= f[d] /\ f[d] < g[d + 1]
  <2>1. d - from \in Nat /\ from + (d - from) = d /\ d \in from .. d
    OBVIOUS
  <2> QED
    BY <1>6, <2>1
\* Further digits do not make it less.
<1> DEFINE T == {n \in Nat : d + 1 + n \in from .. e => f[d] < g[d + 1 + n]}
<1>8. 0 \in T
  BY <1>7
<1>9. ASSUME NEW n \in Nat, n \in T PROVE n + 1 \in T
  <2> SUFFICES ASSUME d + 1 + (n + 1) \in from .. e PROVE f[d] < g[d + 1 + (n + 1)]
    OBVIOUS
  <2> DEFINE k == d + 1 + n
  <2>1. k \in from .. e /\ k \in from .. e - 1 /\ k + 1 = d + 1 + (n + 1) /\ d \in from .. d
    OBVIOUS
  <2> HIDE DEF k
  <2>2. f[d] < g[k]
    BY <1>9, <2>1 DEF k
  <2>3. f[d] \in Int /\ g[k] \in Int
    BY <1>2, <1>3, <2>1
  <2>4. g[k + 1] = 10 * g[k] + t[k] - 48 /\ t[k] \in 48 .. 57
    BY <1>3, <2>1 DEF digit
  <2>5. f[d] < g[k + 1]
    <3> DEFINE x == f[d]
               y == g[k]
               q == t[k]
    <3>1. x \in Int /\ y \in Int /\ 0 <= x /\ x < y /\ q \in 48 .. 57 /\ g[k + 1] = 10 * y + q - 48
      BY <1>7, <2>2, <2>3, <2>4
    <3> HIDE DEF x, y, q
    <3>2. x < 10 * y + q - 48
      BY <3>1
    <3>3. x < g[k + 1]
      BY <3>1, <3>2
    <3> QED
      BY <3>3 DEF x
  <2> QED
    BY <2>1, <2>5
<1>10. Nat \subseteq T
  <2> HIDE DEF T
  <2> QED
    BY <1>8, <1>9, NaturalsFrom0
<1>11. f[d] < g[e]
  <2>1. e - (d + 1) \in Nat /\ d + 1 + (e - (d + 1)) = e /\ e \in from .. e
    OBVIOUS
  <2> QED
    BY <1>10, <2>1
<1> QED
  BY <1>11, ValueIs DEF f, g

\* The value of a number that has more digits, as a key tells it.
LEMMA MoreDigitsGreater ==
  ASSUME NEW v \in Seq(Byte), NEW w \in Seq(Byte), NEW i, Alike(v, w, i),
         NoLeadingZeros(w), Key(v, i)[1] = Key(w, i)[1], Key(v, i)[2] < Key(w, i)[2]
  PROVE  Key(v, i)[3] < Key(w, i)[3]
<1>1. i \in Nat \ {0} /\ i \in 1 .. Len(v) + 1 /\ i \in 1 .. Len(w) + 1 /\ Parted(w, i)
  BY DEF Alike
\* Only numbers have a length.
<1>2. ~(i > Len(w)) /\ digit(w[i])
  <2>1. Key(v, i)[2] >= 0
    <3>1. CASE i > Len(v)
      BY <3>1 DEF Key
    <3>2. CASE ~(i > Len(v)) /\ digit(v[i])
      <4>1. Behind(v, i) \in i .. Len(v) + 1
        BY <1>1, BehindIs
      <4>2. Key(v, i)[2] = Behind(v, i) - i
        BY <3>2 DEF Key
      <4> QED
        BY <1>1, <4>1, <4>2
    <3>3. CASE ~(i > Len(v)) /\ ~digit(v[i])
      BY <3>3 DEF Key
    <3> QED
      BY <3>1, <3>2, <3>3
  <2>2. Key(v, i)[2] \in Int
    BY <1>1, KeysAreNumbers
  <2>3. Key(w, i)[2] # 0
    BY <2>1, <2>2
  <2> QED
    BY <2>3 DEF Key
<1>3. Key(w, i) = <<48, Behind(w, i) - i, ValueOf(w, i, Behind(w, i))>>
  BY <1>2 DEF Key
<1>4. ~(i > Len(v)) /\ digit(v[i])
  <2>1. Key(v, i)[1] = 48
    BY <1>3
  <2>2. CASE i > Len(v)
    BY <2>1, <2>2 DEF Key
  <2>3. CASE ~(i > Len(v)) /\ ~digit(v[i])
    <3>1. Key(v, i)[1] = v[i]
      BY <2>3 DEF Key
    <3> QED
      BY <2>1, <2>3, <3>1 DEF digit
  <2> QED
    BY <2>2, <2>3
<1>5. Key(v, i) = <<48, Behind(v, i) - i, ValueOf(v, i, Behind(v, i))>>
  BY <1>4 DEF Key
<1> DEFINE d == Behind(v, i)
           e == Behind(w, i)
<1>6. /\ d \in i .. Len(v) + 1 /\ \A k \in i .. d - 1 : digit(v[k])
      /\ d > Len(v) \/ ~digit(v[d])
  BY <1>1, BehindIs
<1>7. e \in i .. Len(w) + 1 /\ \A k \in i .. e - 1 : digit(w[k])
  BY <1>1, BehindIs
<1>8. Key(v, i)[2] = d - i /\ Key(v, i)[3] = ValueOf(v, i, d)
  BY <1>5
<1>9. Key(w, i)[2] = e - i /\ Key(w, i)[3] = ValueOf(w, i, e)
  BY <1>3
<1> HIDE DEF d, e
<1>10. d < e
  BY <1>1, <1>6, <1>7, <1>8, <1>9
\* So w has two digits or more here.
<1>11. w[i] # 48
  <2>1. d # i
    BY <1>1, <1>4, <1>6
  <2>2. i \in 1 .. Len(w) - 1 /\ i + 1 \in i .. e - 1
    BY <1>1, <1>6, <1>7, <1>10, <2>1
  <2> QED
    BY <1>1, <1>2, <1>7, <2>2 DEF NoLeadingZeros
<1>12. ValueOf(v, i, d) < ValueOf(w, i, e)
  BY <1>1, <1>6, <1>7, <1>10, <1>11, MoreDigitsMore
<1> QED
  BY <1>8, <1>9, <1>12

\* Without leading zeros the count of digits has nothing to say.
LEMMA CountSaysNothing ==
  ASSUME NEW v \in Seq(Byte), NEW w \in Seq(Byte), NEW i, Alike(v, w, i),
         NoLeadingZeros(v), NoLeadingZeros(w)
  PROVE  Precedes(Key(v, i), Key(w, i)) <=> PrecedesByValue(Key(v, i), Key(w, i))
<1> DEFINE a == Key(v, i)
           b == Key(w, i)
<1>1. i \in 1 .. Len(v) + 1 /\ i \in 1 .. Len(w) + 1 /\ Alike(w, v, i)
  BY AlikeBothWays DEF Alike
<1>2. /\ a[1] \in Int /\ a[2] \in Int /\ a[3] \in Int
      /\ b[1] \in Int /\ b[2] \in Int /\ b[3] \in Int
  BY <1>1, KeysAreNumbers
<1>3. a[1] = b[1] /\ a[2] < b[2] => a[3] < b[3]
  BY MoreDigitsGreater
<1>4. a[1] = b[1] /\ b[2] < a[2] => b[3] < a[3]
  BY <1>1, MoreDigitsGreater
<1> HIDE DEF a, b
<1>5. Precedes(a, b) <=> PrecedesByValue(a, b)
  BY <1>2, <1>3, <1>4 DEF Precedes, PrecedesByValue
<1> QED
  BY <1>5 DEF a, b

(***************************************************************************)
(* Of versions whose numbers have no leading zeros, the way nearly all are *)
(* written, compareversions() puts first the one that has the lesser byte, *)
(* or the number of lesser value, where they differ first: the shortcut of *)
(* counting digits, which also makes numbers of any length comparable, is  *)
(* right for them.                                                         *)
(***************************************************************************)
THEOREM VersionsByValue ==
  ASSUME NEW v \in Seq(Byte), NEW w \in Seq(Byte), NoLeadingZeros(v), NoLeadingZeros(w)
  PROVE  /\ compareversions(v, w) = -1 <=> BeforeByValue(v, w)
         /\ compareversions(v, w) = 1 <=> BeforeByValue(w, v)
<1>1. ASSUME NEW x \in Seq(Byte), NEW y \in Seq(Byte), NoLeadingZeros(x), NoLeadingZeros(y)
      PROVE  Before(x, y) <=> BeforeByValue(x, y)
  <2>1. ASSUME NEW i \in 1 .. Len(x) + 1, i <= Len(y) + 1, \A k \in 1 .. i - 1 : x[k] = y[k],
               Parted(x, i), Parted(y, i)
        PROVE  Precedes(Key(x, i), Key(y, i)) <=> PrecedesByValue(Key(x, i), Key(y, i))
    <3>1. Alike(x, y, i)
      BY <2>1 DEF Alike
    <3> QED
      BY <1>1, <3>1, CountSaysNothing
  <2> QED
    BY <2>1, Zenon DEF Before, BeforeByValue
<1> QED
  BY <1>1, VersionOrderCorrect

-----------------------------------------------------------------------------
(***************************************************************************)
(* Functions that are defined from one number to the next.                 *)
(***************************************************************************)
Follows(f, base, step, n) ==
  f = [i \in 0 .. n |-> IF i = 0 THEN base ELSE step[<<f[i-1], i>>]]

\* There is such a function.
LEMMA FollowsExist ==
  ASSUME NEW X, NEW base \in X, NEW M \in Nat, NEW step \in [X \X (1 .. M) -> X]
  PROVE  \E f \in [0 .. M -> X] : Follows(f, base, step, M)
<1> DEFINE S == {n \in Nat : n <= M => \E f \in [0 .. n -> X] : Follows(f, base, step, n)}
<1>1. 0 \in S
  <2> DEFINE f == [i \in 0 .. 0 |-> base]
  <2>1. \A i \in 0 .. 0 : i = 0
    OBVIOUS
  <2>2. f = [i \in 0 .. 0 |-> IF i = 0 THEN base ELSE step[<<f[i-1], i>>]]
    <3> DEFINE D == 0 .. 0
    <3> HIDE DEF D
    <3> QED
      BY <2>1 DEF D
  <2>3. f \in [0 .. 0 -> X]
    OBVIOUS
  <2> QED
    BY <2>2, <2>3 DEF Follows
<1>2. ASSUME NEW n \in Nat, n \in S PROVE n + 1 \in S
  <2> SUFFICES ASSUME n + 1 <= M PROVE \E f \in [0 .. n + 1 -> X] : Follows(f, base, step, n + 1)
    OBVIOUS
  <2>1. PICK f \in [0 .. n -> X] : Follows(f, base, step, n)
    BY <1>2
  <2> DEFINE next == step[<<f[n], n + 1>>]
             t == [i \in 0 .. n + 1 |-> IF i = n + 1 THEN next ELSE f[i]]
  <2>2. next \in X
    <3>1. f[n] \in X /\ n + 1 \in 1 .. M
      BY <2>1
    <3> QED
      BY <3>1
  <2> HIDE DEF next
  <2>3. /\ t[n + 1] = next
        /\ \A i \in 0 .. n : t[i] = f[i]
        /\ \A i \in 1 .. n + 1 : t[i-1] = f[i-1]
        /\ \A i \in 0 .. n + 1 : i = 0 \/ i \in 1 .. n \/ i = n + 1
        /\ \A i \in 1 .. n : i \in 0 .. n /\ i \in 1 .. n + 1 /\ i # 0
        /\ n + 1 # 0 /\ (n + 1) - 1 = n /\ n + 1 \in 1 .. n + 1 /\ 0 \in 0 .. n
    OBVIOUS
  <2>4. \A i \in 0 .. n : f[i] = IF i = 0 THEN base ELSE step[<<f[i-1], i>>]
    BY <2>1 DEF Follows
  <2>5. t = [i \in 0 .. n + 1 |-> t[i]] /\ t \in [0 .. n + 1 -> X]
    BY <2>1, <2>2
  <2> HIDE DEF t
  <2>6. ASSUME NEW i \in 0 .. n + 1
        PROVE  t[i] = IF i = 0 THEN base ELSE step[<<t[i-1], i>>]
    <3>1. CASE i = n + 1
      <4>1. t[i-1] = f[n]
        BY <2>3, <3>1, Zenon
      <4> QED
        BY <2>3, <3>1, <4>1, Zenon DEF next
    <3>2. CASE i = 0
      BY <2>3, <2>4, <3>2, Zenon
    <3>3. CASE i \in 1 .. n
      <4>1. t[i-1] = f[i-1] /\ t[i] = f[i] /\ i \in 0 .. n /\ i # 0
        BY <2>3, <3>3, Zenon
      <4> QED
        BY <2>4, <4>1, Zenon
    <3> QED
      BY <2>3, <3>1, <3>2, <3>3, Zenon
  <2>7. Follows(t, base, step, n + 1)
    BY <2>5, <2>6, Zenon DEF Follows
  <2> QED
    BY <2>5, <2>7
<1>3. Nat \subseteq S
  <2> HIDE DEF S
  <2> QED
    BY <1>1, <1>2, NaturalsFrom0
<1>4. M \in S
  BY <1>3
<1> QED
  BY <1>4

\* A property of 0 and of each successor, up to a number.
LEMMA UpTo ==
  ASSUME NEW M \in Nat, NEW S, 0 \in S, \A n \in 0 .. M - 1 : n \in S => n + 1 \in S
  PROVE  \A n \in 0 .. M : n \in S
<1> DEFINE T == {n \in Nat : n \in 0 .. M => n \in S}
<1>1. 0 \in T
  OBVIOUS
<1>2. ASSUME NEW n \in Nat, n \in T PROVE n + 1 \in T
  <2> SUFFICES ASSUME n + 1 \in 0 .. M PROVE n + 1 \in S
    OBVIOUS
  <2>1. n \in 0 .. M /\ n \in 0 .. M - 1
    OBVIOUS
  <2> QED
    BY <1>2, <2>1
<1>3. Nat \subseteq T
  <2> HIDE DEF T
  <2> QED
    BY <1>1, <1>2, NaturalsFrom0
<1> QED
  BY <1>3

-----------------------------------------------------------------------------
(***************************************************************************)
(* Which of the words are versions.                                        *)
(***************************************************************************)
AreVersions(v, w) == v = [i \in 0 .. Len(w) |-> i > 1 /\ ~v[i-1] /\ w[i-1] \in Operator]

VersionsOf(w) == CHOOSE v : AreVersions(v, w)

\* IsVersion is about the words given.
LEMMA IsVersionIs == IsVersion = VersionsOf(WordsGiven)
BY DEF IsVersion, VersionsOf, AreVersions

\* A word is a version if the one before it is an operator.
LEMMA VersionSteps ==
  ASSUME NEW w, Len(w) \in Nat
  PROVE  LET v == VersionsOf(w)
         IN  /\ v[0] = FALSE
             /\ \A i \in 1 .. Len(w) : v[i] = (i > 1 /\ ~v[i-1] /\ w[i-1] \in Operator)
             /\ \A i \in 0 .. Len(w) : v[i] \in BOOLEAN
<1> DEFINE M == Len(w)
           step == [p \in BOOLEAN \X (1 .. M) |-> p[2] > 1 /\ ~p[1] /\ w[p[2]-1] \in Operator]
<1>1. step \in [BOOLEAN \X (1 .. M) -> BOOLEAN] /\ FALSE \in BOOLEAN
  OBVIOUS
<1>2. PICK f \in [0 .. M -> BOOLEAN] : Follows(f, FALSE, step, M)
  <2> HIDE DEF step
  <2> QED
    BY <1>1, FollowsExist
<1>3. ASSUME NEW i \in 0 .. M PROVE f[i] = (i > 1 /\ ~f[i-1] /\ w[i-1] \in Operator)
  <2>1. f[i] = IF i = 0 THEN FALSE ELSE step[<<f[i-1], i>>]
    BY <1>2 DEF Follows
  <2>2. CASE i = 0
    BY <2>1, <2>2
  <2>3. CASE i # 0
    <3>1. f[i-1] \in BOOLEAN /\ i \in 1 .. M
      BY <1>2, <2>3
    <3>2. <<f[i-1], i>> \in BOOLEAN \X (1 .. M)
      BY <3>1
    <3>3. step[<<f[i-1], i>>] = (i > 1 /\ ~f[i-1] /\ w[i-1] \in Operator)
      BY <3>2
    <3> QED
      BY <2>1, <2>3, <3>3
  <2> QED
    BY <2>2, <2>3
<1>4. AreVersions(f, w)
  <2>1. f = [i \in 0 .. M |-> f[i]]
    BY <1>2
  <2> QED
    BY <1>3, <2>1, Zenon DEF AreVersions
<1> DEFINE v == VersionsOf(w)
<1>5. AreVersions(v, w)
  BY <1>4, Zenon DEF VersionsOf
<1> HIDE DEF v
<1>6. \A i \in 0 .. M : v[i] = (i > 1 /\ ~v[i-1] /\ w[i-1] \in Operator)
  BY <1>5, Zenon DEF AreVersions
<1>7. v[0] = FALSE /\ \A i \in 1 .. M : i \in 0 .. M
  <2>1. 0 \in 0 .. M /\ ~(0 > 1)
    OBVIOUS
  <2>2. v[0] = (0 > 1 /\ ~v[0-1] /\ w[0-1] \in Operator)
    BY <1>6, <2>1, Zenon
  <2>3. v[0] = FALSE
    BY <2>1, <2>2, Zenon
  <2> QED
    BY <2>3
<1>8. \A i \in 0 .. M : v[i] \in BOOLEAN
  BY <1>6, Zenon
<1> QED
  BY <1>6, <1>7, <1>8, Zenon DEF v

-----------------------------------------------------------------------------
(***************************************************************************)
(* parsespecs(), one word after the other.                                 *)
(***************************************************************************)
Start == [specs |-> <<>>, pending |-> "nothing", bad |-> FALSE]

AreTaken(f, w, n) == f = [i \in 0 .. n |-> IF i = 0 THEN Start ELSE TakeToken(f[i-1], w[i])]

TakenOf(w) == CHOOSE f : AreTaken(f, w, Len(w))

\* parsespecs() is what is taken in the end.
LEMMA ParsedIs ==
  ASSUME NEW w
  PROVE  LET all == TakenOf(w)[Len(w)]
         IN  parsespecs(w) = [specs |-> all.specs, ok |-> ~all.bad /\ all.pending # "version"]
BY DEF parsespecs, TakenOf, AreTaken, Start

\* There is such a function for all words, one more at a time.
LEMMA TakenExist ==
  ASSUME NEW w
  PROVE  \A n \in Nat : \E f : AreTaken(f, w, n)
<1> DEFINE S == {n \in Nat : \E f : AreTaken(f, w, n)}
<1>1. 0 \in S
  <2> DEFINE f == [i \in 0 .. 0 |-> Start]
  <2>1. \A i \in 0 .. 0 : i = 0
    OBVIOUS
  <2>2. f = [i \in 0 .. 0 |-> IF i = 0 THEN Start ELSE TakeToken(f[i-1], w[i])]
    <3> DEFINE D == 0 .. 0
    <3> HIDE DEF D
    <3> QED
      BY <2>1 DEF D
  <2> QED
    BY <2>2 DEF AreTaken
<1>2. ASSUME NEW n \in Nat, n \in S PROVE n + 1 \in S
  <2>1. PICK f : AreTaken(f, w, n)
    BY <1>2
  <2> DEFINE next == TakeToken(f[n], w[n + 1])
             t == [i \in 0 .. n + 1 |-> IF i = n + 1 THEN next ELSE f[i]]
  <2> HIDE DEF next
  <2>2. /\ t[n + 1] = next
        /\ \A i \in 0 .. n : t[i] = f[i]
        /\ \A i \in 1 .. n + 1 : t[i-1] = f[i-1]
        /\ \A i \in 0 .. n + 1 : i = 0 \/ i \in 1 .. n \/ i = n + 1
        /\ \A i \in 1 .. n : i \in 0 .. n /\ i \in 1 .. n + 1 /\ i # 0
        /\ n + 1 # 0 /\ (n + 1) - 1 = n /\ n + 1 \in 1 .. n + 1 /\ 0 \in 0 .. n
    OBVIOUS
  <2>3. \A i \in 0 .. n : f[i] = IF i = 0 THEN Start ELSE TakeToken(f[i-1], w[i])
    BY <2>1, Zenon DEF AreTaken
  <2>4. t = [i \in 0 .. n + 1 |-> t[i]]
    OBVIOUS
  <2> HIDE DEF t
  <2>5. ASSUME NEW i \in 0 .. n + 1
        PROVE  t[i] = IF i = 0 THEN Start ELSE TakeToken(t[i-1], w[i])
    <3>1. CASE i = n + 1
      <4>1. t[i-1] = f[n]
        BY <2>2, <3>1, Zenon
      <4> QED
        BY <2>2, <3>1, <4>1, Zenon DEF next
    <3>2. CASE i = 0
      BY <2>2, <2>3, <3>2, Zenon
    <3>3. CASE i \in 1 .. n
      <4>1. t[i-1] = f[i-1] /\ t[i] = f[i] /\ i \in 0 .. n /\ i # 0
        BY <2>2, <3>3, Zenon
      <4> QED
        BY <2>3, <4>1, Zenon
    <3> QED
      BY <2>2, <3>1, <3>2, <3>3, Zenon
  <2>6. AreTaken(t, w, n + 1)
    BY <2>4, <2>5, Zenon DEF AreTaken
  <2> QED
    BY <2>6
<1>3. Nat \subseteq S
  <2> HIDE DEF S
  <2> QED
    BY <1>1, <1>2, NaturalsFrom0
<1> QED
  BY <1>3

\* What is taken, word by word.
LEMMA TakenSteps ==
  ASSUME NEW w, Len(w) \in Nat
  PROVE  LET f == TakenOf(w)
         IN  /\ f[0] = Start
             /\ \A i \in 1 .. Len(w) : f[i] = TakeToken(f[i-1], w[i])
<1> DEFINE f == TakenOf(w)
           M == Len(w)
<1>1. AreTaken(f, w, M)
  BY TakenExist, Zenon DEF TakenOf
<1> HIDE DEF f
<1>2. \A i \in 0 .. M : f[i] = IF i = 0 THEN Start ELSE TakeToken(f[i-1], w[i])
  BY <1>1, Zenon DEF AreTaken
<1>3. 0 \in 0 .. M /\ \A i \in 1 .. M : i \in 0 .. M /\ i # 0
  OBVIOUS
<1> QED
  BY <1>2, <1>3, Zenon DEF f

-----------------------------------------------------------------------------
(***************************************************************************)
(* The specs are those that the words say.                                 *)
(***************************************************************************)
NameAt(w, v, i) == ~v[i] /\ w[i] \notin Operator
OpAt(w, v, i)   == ~v[i] /\ w[i] \in Operator

\* The operators without a name before them.
Nameless(w, v, n) == {i \in 1 .. n : OpAt(w, v, i) /\ (i = 1 \/ v[i-1])}

\* The spec of the name at i, of the first n words.
SpecAt(w, i, n) ==
  LET op == i + 1 <= n /\ w[i+1] \in Operator
  IN  [name |-> w[i], op |-> IF op THEN w[i+1] ELSE "none",
       version |-> IF op /\ i + 2 <= n THEN Text(w[i+2]) ELSE <<>>]

\* What is pending behind n words.
PendingAt(w, v, n) ==
  IF n = 0 \/ v[n] THEN "nothing" ELSE IF w[n] \in Operator THEN "version" ELSE "operator"

\* The specs are those of the names, which are at these positions, the last one first.
SpecsAre(specs, at, w, v, n) ==
  /\ at \in Seq(1 .. n)
  /\ specs = [k \in 1 .. Len(at) |-> SpecAt(w, at[k], n)]
  /\ \A i \in 1 .. n : NameAt(w, v, i) <=> \E k \in 1 .. Len(at) : at[k] = i
  /\ \A k, l \in 1 .. Len(at) : k < l => at[l] < at[k]

TakenAre(t, w, v, n) ==
  /\ DOMAIN t = {"specs", "pending", "bad"}
  /\ t.bad \in BOOLEAN
  /\ t.bad <=> Nameless(w, v, n) # {}
  /\ ~t.bad => t.pending = PendingAt(w, v, n) /\ \E at : SpecsAre(t.specs, at, w, v, n)

\* The last name is the first of the specs.
LEMMA LastName ==
  ASSUME NEW n \in Nat, NEW w, NEW v, NEW specs, NEW at, SpecsAre(specs, at, w, v, n),
         NEW i \in 1 .. n, NameAt(w, v, i), \A j \in i + 1 .. n : ~NameAt(w, v, j)
  PROVE  1 \in 1 .. Len(at) /\ at[1] = i /\ \A k \in 2 .. Len(at) : at[k] < i
<1>1. PICK k \in 1 .. Len(at) : at[k] = i
  BY DEF SpecsAre
<1>2. /\ at \in Seq(1 .. n) /\ Len(at) \in Nat
      /\ \A j, l \in 1 .. Len(at) : j < l => at[l] < at[j]
  BY DEF SpecsAre
<1>3. 1 \in 1 .. Len(at) /\ at[1] \in 1 .. n
  BY <1>1, <1>2
<1>4. NameAt(w, v, at[1])
  BY <1>3 DEF SpecsAre
<1>5. at[1] <= i
  BY <1>3, <1>4
<1>6. k = 1
  <2>1. 1 < k => at[k] < at[1]
    BY <1>2, <1>3
  <2> QED
    BY <1>1, <1>3, <1>5, <2>1
<1>7. \A j \in 2 .. Len(at) : at[j] < at[1]
  BY <1>2, <1>3
<1> QED
  BY <1>1, <1>3, <1>6, <1>7

\* A name more is put in front of the specs.
LEMMA NameTaken ==
  ASSUME NEW w, NEW v, NEW n \in Nat, NEW specs, NEW at, SpecsAre(specs, at, w, v, n),
         NameAt(w, v, n + 1),
         \A i \in 1 .. n : NameAt(w, v, i) => SpecAt(w, i, n + 1) = SpecAt(w, i, n)
  PROVE  SpecsAre(<<newpkgspec(w[n+1])>> \o specs, <<n + 1>> \o at, w, v, n + 1)
<1> DEFINE L == Len(at)
           bt == <<n + 1>> \o at
           first == newpkgspec(w[n+1])
           more == <<first>> \o specs
<1>1. /\ at \in Seq(1 .. n) /\ specs = [k \in 1 .. L |-> SpecAt(w, at[k], n)]
      /\ \A i \in 1 .. n : NameAt(w, v, i) <=> \E k \in 1 .. L : at[k] = i
      /\ \A k, l \in 1 .. L : k < l => at[l] < at[k]
  BY DEF SpecsAre
<1>2. L \in Nat /\ \A k \in 1 .. L : at[k] \in 1 .. n
  BY <1>1
<1>3. specs \in Seq({SpecAt(w, i, n) : i \in 1 .. n}) /\ Len(specs) = L
  <2>1. \A k \in 1 .. L : SpecAt(w, at[k], n) \in {SpecAt(w, i, n) : i \in 1 .. n}
    BY <1>2
  <2> DEFINE T == {SpecAt(w, i, n) : i \in 1 .. n}
  <2> HIDE DEF T
  <2>2. \A k \in 1 .. L : SpecAt(w, at[k], n) \in T
    BY <2>1, Zenon DEF T
  <2> HIDE DEF L
  <2>3. specs \in Seq(T) /\ Len(specs) = L
    BY <1>1, <1>2, <2>2
  <2> QED
    BY <2>3, Zenon DEF T
<1>4. /\ bt \in Seq(1 .. n + 1) /\ Len(bt) = L + 1 /\ bt[1] = n + 1
      /\ \A k \in 2 .. L + 1 : bt[k] = at[k-1] /\ k - 1 \in 1 .. L
      /\ \A k \in 1 .. L : bt[k+1] = at[k] /\ k + 1 \in 1 .. L + 1
  <2>1. at \in Seq(1 .. n + 1) /\ n + 1 \in 1 .. n + 1
    BY <1>1
  <2> QED
    BY <1>2, <2>1
<1>5. /\ Len(more) = L + 1 /\ more[1] = first /\ more = [k \in 1 .. L + 1 |-> more[k]]
      /\ \A k \in 2 .. L + 1 : more[k] = specs[k-1]
  <2> DEFINE T == {SpecAt(w, i, n) : i \in 1 .. n} \cup {first}
  <2>1. specs \in Seq(T) /\ first \in T
    BY <1>3
  <2> HIDE DEF T, L, first
  <2>2. more \in Seq(T) /\ Len(more) = L + 1
    BY <1>2, <1>3, <2>1
  <2> QED
    BY <1>2, <1>3, <2>1, <2>2
<1> HIDE DEF bt, more
<1>6. first = SpecAt(w, n + 1, n + 1)
  <2>1. ~(n + 1 + 1 <= n + 1)
    OBVIOUS
  <2> QED
    BY <2>1 DEF newpkgspec, SpecAt
<1>7. ASSUME NEW k \in 1 .. L + 1 PROVE more[k] = SpecAt(w, bt[k], n + 1)
  <2>1. CASE k = 1
    BY <1>4, <1>5, <1>6, <2>1
  <2>2. CASE k # 1
    <3>1. k \in 2 .. L + 1 /\ k - 1 \in 1 .. L
      BY <1>2, <2>2
    <3>2. more[k] = specs[k-1] /\ bt[k] = at[k-1]
      BY <1>4, <1>5, <3>1
    <3>3. specs[k-1] = SpecAt(w, at[k-1], n)
      BY <1>1, <3>1
    <3>4. at[k-1] \in 1 .. n /\ NameAt(w, v, at[k-1])
      BY <1>1, <1>2, <3>1
    <3> QED
      BY <3>2, <3>3, <3>4
  <2> QED
    BY <2>1, <2>2
<1>8. more = [k \in 1 .. Len(bt) |-> SpecAt(w, bt[k], n + 1)]
  BY <1>4, <1>5, <1>7
<1>9. ASSUME NEW i \in 1 .. n + 1 PROVE NameAt(w, v, i) <=> \E k \in 1 .. Len(bt) : bt[k] = i
  <2>1. CASE i = n + 1
    <3>1. 1 \in 1 .. Len(bt)
      BY <1>2, <1>4
    <3> QED
      BY <1>4, <2>1, <3>1
  <2>2. CASE i \in 1 .. n
    <3>1. (\E k \in 1 .. Len(bt) : bt[k] = i) <=> \E k \in 1 .. L : at[k] = i
      <4>1. ASSUME NEW k \in 1 .. Len(bt), bt[k] = i PROVE \E l \in 1 .. L : at[l] = i
        <5>1. k # 1
          BY <1>4, <2>2, <4>1
        <5>2. k \in 2 .. L + 1
          BY <1>2, <1>4, <5>1
        <5> QED
          BY <1>4, <4>1, <5>2
      <4>2. ASSUME NEW k \in 1 .. L, at[k] = i PROVE \E l \in 1 .. Len(bt) : bt[l] = i
        BY <1>4, <4>2
      <4> QED
        BY <4>1, <4>2
    <3> QED
      BY <1>1, <2>2, <3>1
  <2> QED
    BY <2>1, <2>2
<1>10. ASSUME NEW k \in 1 .. Len(bt), NEW l \in 1 .. Len(bt), k < l PROVE bt[l] < bt[k]
  <2>1. l \in 2 .. L + 1 /\ (k = 1 \/ k \in 2 .. L + 1)
    BY <1>2, <1>4, <1>10
  <2>2. bt[l] = at[l-1] /\ l - 1 \in 1 .. L /\ at[l-1] \in 1 .. n
    BY <1>2, <1>4, <2>1
  <2>3. CASE k = 1
    BY <1>4, <2>2, <2>3
  <2>4. CASE k \in 2 .. L + 1
    <3>1. bt[k] = at[k-1] /\ k - 1 \in 1 .. L /\ k - 1 < l - 1
      BY <1>2, <1>4, <1>10, <2>1, <2>4
    <3> QED
      BY <1>1, <2>2, <3>1
  <2> QED
    BY <2>1, <2>3, <2>4
<1>11. SpecsAre(more, bt, w, v, n + 1)
  BY <1>4, <1>8, <1>9, <1>10 DEF SpecsAre
<1> QED
  BY <1>11 DEF more, bt

\* An operator, or a version, is put into the first of the specs.
LEMMA FirstSpecTaken ==
  ASSUME NEW w, NEW v, NEW n \in Nat, NEW specs, NEW at, SpecsAre(specs, at, w, v, n),
         ~NameAt(w, v, n + 1), 1 \in 1 .. Len(at), NEW more, DOMAIN more = DOMAIN specs,
         more[1] = SpecAt(w, at[1], n + 1),
         \A k \in 2 .. Len(at) :
           more[k] = specs[k] /\ SpecAt(w, at[k], n + 1) = SpecAt(w, at[k], n),
         more = [k \in DOMAIN more |-> more[k]]
  PROVE  SpecsAre(more, at, w, v, n + 1)
<1> DEFINE L == Len(at)
<1>1. /\ at \in Seq(1 .. n) /\ specs = [k \in 1 .. L |-> SpecAt(w, at[k], n)]
      /\ \A i \in 1 .. n : NameAt(w, v, i) <=> \E k \in 1 .. L : at[k] = i
      /\ \A k, l \in 1 .. L : k < l => at[l] < at[k]
  BY DEF SpecsAre
<1>2. L \in Nat /\ (\A k \in 1 .. L : at[k] \in 1 .. n) /\ at \in Seq(1 .. n + 1)
  BY <1>1
<1>3. ASSUME NEW k \in 1 .. L PROVE more[k] = SpecAt(w, at[k], n + 1)
  <2>1. k = 1 \/ k \in 2 .. L
    BY <1>2
  <2>2. specs[k] = SpecAt(w, at[k], n)
    BY <1>1
  <2> QED
    BY <2>1, <2>2
<1>4. more = [k \in 1 .. L |-> SpecAt(w, at[k], n + 1)]
  <2>1. DOMAIN more = 1 .. L
    BY <1>1
  <2> HIDE DEF L
  <2> QED
    BY <1>3, <2>1
<1>5. ASSUME NEW i \in 1 .. n + 1 PROVE NameAt(w, v, i) <=> \E k \in 1 .. L : at[k] = i
  <2>1. i \in 1 .. n \/ i = n + 1
    OBVIOUS
  <2>2. \A k \in 1 .. L : at[k] # n + 1
    BY <1>2
  <2> QED
    BY <1>1, <2>1, <2>2
<1> QED
  BY <1>1, <1>2, <1>4, <1>5 DEF SpecsAre

\* A word more, when the words before it make no sense.
LEMMA BadStaysBad ==
  ASSUME NEW w, NEW v, NEW n \in Nat, NEW t, TakenAre(t, w, v, n), t.bad
  PROVE  TakenAre(TakeToken(t, w[n+1]), w, v, n + 1)
<1>1. TakeToken(t, w[n+1]) = t
  BY DEF TakeToken
<1>2. Nameless(w, v, n) # {}
  BY DEF TakenAre
<1>3. \A i \in 1 .. n : i \in 1 .. n + 1
  OBVIOUS
<1>4. Nameless(w, v, n + 1) # {}
  BY <1>2, <1>3 DEF Nameless
<1> QED
  BY <1>1, <1>4 DEF TakenAre

\* The operators without a name, of one word more.
LEMMA NamelessSteps ==
  ASSUME NEW w, NEW v, NEW n \in Nat, Nameless(w, v, n) = {}
  PROVE  Nameless(w, v, n + 1) # {} <=> OpAt(w, v, n + 1) /\ (n = 0 \/ v[n])
<1>1. /\ \A i \in 1 .. n + 1 : i \in 1 .. n \/ i = n + 1
      /\ n + 1 \in 1 .. n + 1 /\ (n + 1 = 1 <=> n = 0) /\ (n + 1) - 1 = n
  OBVIOUS
<1>2. \A i \in 1 .. n : ~(OpAt(w, v, i) /\ (i = 1 \/ v[i-1]))
  BY DEF Nameless
<1>3. ASSUME NEW i \in 1 .. n + 1, OpAt(w, v, i), i = 1 \/ v[i-1]
      PROVE  OpAt(w, v, n + 1) /\ (n = 0 \/ v[n])
  <2>1. i = n + 1
    BY <1>1, <1>2, <1>3
  <2> QED
    BY <1>1, <1>3, <2>1
<1>4. ASSUME OpAt(w, v, n + 1), n = 0 \/ v[n]
      PROVE  n + 1 \in Nameless(w, v, n + 1)
  <2>1. n + 1 = 1 \/ v[(n + 1) - 1]
    BY <1>1, <1>4
  <2> QED
    BY <1>1, <1>4, <2>1 DEF Nameless
<1> QED
  BY <1>3, <1>4 DEF Nameless

\* Which words are versions.
AreIts(v, w) ==
  /\ v[0] = FALSE
  /\ \A i \in 1 .. Len(w) : v[i] = (i > 1 /\ ~v[i-1] /\ w[i-1] \in Operator)
  /\ \A i \in 0 .. Len(w) : v[i] \in BOOLEAN

\* What a spec is does not change with a word that is not its operator or version.
LEMMA SameSpec ==
  ASSUME NEW w, NEW n \in Nat, NEW i \in 1 .. n,
         i = n => w[n+1] \notin Operator, i = n - 1 => w[n] \notin Operator
  PROVE  SpecAt(w, i, n + 1) = SpecAt(w, i, n)
<1>1. CASE i = n
  <2>1. ~(i + 1 <= n) /\ i + 1 = n + 1
    BY <1>1
  <2> QED
    BY <1>1, <2>1 DEF SpecAt
<1>2. CASE i = n - 1
  <2>1. i + 1 = n /\ w[i+1] \notin Operator
    BY <1>2
  <2> QED
    BY <2>1 DEF SpecAt
<1>3. CASE i < n - 1
  <2>1. i + 1 <= n /\ i + 1 <= n + 1 /\ i + 2 <= n /\ i + 2 <= n + 1
    BY <1>3
  <2> QED
    BY <2>1 DEF SpecAt
<1> QED
  BY <1>1, <1>2, <1>3

\* Behind a version, or at the start, a name is expected.
LEMMA FirstTaken ==
  ASSUME NEW w, Len(w) \in Nat, NEW v, AreIts(v, w), NEW n \in 0 .. Len(w) - 1,
         NEW t, TakenAre(t, w, v, n), ~t.bad, n = 0 \/ v[n]
  PROVE  TakenAre(TakeToken(t, w[n+1]), w, v, n + 1)
<1> DEFINE tok == w[n+1]
           u == TakeToken(t, tok)
<1>1. n \in Nat /\ n + 1 \in 1 .. Len(w) /\ (n + 1) - 1 = n /\ n + 1 > 0 /\ n + 1 # 0
  OBVIOUS
<1>2. t.pending = "nothing" /\ Nameless(w, v, n) = {}
  BY DEF TakenAre, PendingAt
<1>3. ~v[n+1]
  <2>1. v[n+1] = (n + 1 > 1 /\ ~v[(n+1)-1] /\ w[(n+1)-1] \in Operator)
    BY <1>1, Zenon DEF AreIts
  <2>2. ~(n + 1 > 1 /\ ~v[n])
    BY <1>1
  <2> QED
    BY <1>1, <2>1, <2>2
<1>4. CASE tok \in Operator
  <2>1. u = [t EXCEPT !.bad = TRUE]
    BY <1>2, <1>4 DEF TakeToken
  <2>2. DOMAIN u = {"specs", "pending", "bad"} /\ u.bad = TRUE
    BY <2>1 DEF TakenAre
  <2>3. OpAt(w, v, n + 1)
    BY <1>3, <1>4 DEF OpAt
  <2>4. Nameless(w, v, n + 1) # {}
    BY <1>1, <1>2, <2>3, NamelessSteps
  <2> HIDE DEF u
  <2>5. TakenAre(u, w, v, n + 1)
    BY <2>2, <2>4 DEF TakenAre
  <2> QED
    BY <2>5 DEF u
<1>5. CASE tok \notin Operator
  <2>1. u = [t EXCEPT !.specs = <<newpkgspec(tok)>> \o @, !.pending = "operator"]
    BY <1>2, <1>5 DEF TakeToken
  <2> DEFINE more == <<newpkgspec(tok)>> \o t.specs
  <2>2. /\ DOMAIN u = {"specs", "pending", "bad"} /\ u.bad = FALSE
        /\ u.pending = "operator" /\ u.specs = more
    BY <2>1 DEF TakenAre
  <2>3. NameAt(w, v, n + 1) /\ ~OpAt(w, v, n + 1)
    BY <1>3, <1>5 DEF NameAt, OpAt
  <2>4. Nameless(w, v, n + 1) = {}
    BY <1>1, <1>2, <2>3, NamelessSteps
  <2>5. PICK at : SpecsAre(t.specs, at, w, v, n)
    BY DEF TakenAre
  <2>6. ASSUME NEW i \in 1 .. n, NameAt(w, v, i) PROVE SpecAt(w, i, n + 1) = SpecAt(w, i, n)
    <3>1. v[n]
      BY <2>6
    <3>2. n \in 1 .. Len(w)
      BY <1>1, <2>6
    <3>3. v[n] = (n > 1 /\ ~v[n-1] /\ w[n-1] \in Operator)
      BY <3>2, Zenon DEF AreIts
    <3>4. i # n /\ i # n - 1
      BY <2>6, <3>1, <3>3 DEF NameAt
    <3> QED
      BY <1>1, <3>4, SameSpec
  <2>7. SpecsAre(more, <<n + 1>> \o at, w, v, n + 1)
    BY <1>1, <2>3, <2>5, <2>6, NameTaken
  <2>8. PendingAt(w, v, n + 1) = "operator"
    BY <1>1, <1>3, <1>5 DEF PendingAt
  <2> HIDE DEF u, more
  <2>9. TakenAre(u, w, v, n + 1)
    BY <2>2, <2>4, <2>7, <2>8 DEF TakenAre
  <2> QED
    BY <2>9 DEF u
<1> QED
  BY <1>4, <1>5

\* Behind a name, an operator or another name is expected.
LEMMA NextTaken ==
  ASSUME NEW w, Len(w) \in Nat, NEW v, AreIts(v, w), NEW n \in 1 .. Len(w) - 1,
         NEW t, TakenAre(t, w, v, n), ~t.bad, NameAt(w, v, n)
  PROVE  TakenAre(TakeToken(t, w[n+1]), w, v, n + 1)
<1> DEFINE tok == w[n+1]
           u == TakeToken(t, tok)
<1>1. n \in Nat /\ n + 1 \in 1 .. Len(w) /\ (n + 1) - 1 = n /\ n + 1 > 0 /\ n + 1 # 0 /\ n # 0
      /\ n \in 1 .. n
  OBVIOUS
<1>2. t.pending = "operator" /\ Nameless(w, v, n) = {} /\ ~v[n] /\ w[n] \notin Operator
  BY <1>1 DEF TakenAre, PendingAt, NameAt
<1>3. ~v[n+1]
  <2>1. v[n+1] = (n + 1 > 1 /\ ~v[(n+1)-1] /\ w[(n+1)-1] \in Operator)
    BY <1>1, Zenon DEF AreIts
  <2> QED
    BY <1>1, <1>2, <2>1
<1>4. Nameless(w, v, n + 1) = {}
  BY <1>1, <1>2, NamelessSteps
<1>5. PICK at : SpecsAre(t.specs, at, w, v, n)
  BY DEF TakenAre
<1>6. CASE tok \in Operator
  <2>1. u = [t EXCEPT !.specs[1].op = tok, !.pending = "version"]
    BY <1>2, <1>6 DEF TakeToken
  <2> DEFINE more == [t.specs EXCEPT ![1].op = tok]
  <2>2. /\ DOMAIN u = {"specs", "pending", "bad"} /\ u.bad = FALSE
        /\ u.pending = "version" /\ u.specs = more
    BY <2>1 DEF TakenAre
  <2>3. ~NameAt(w, v, n + 1)
    BY <1>6 DEF NameAt
  <2>4. 1 \in 1 .. Len(at) /\ at[1] = n /\ \A k \in 2 .. Len(at) : at[k] < n
    <3>1. \A j \in n + 1 .. n : FALSE
      OBVIOUS
    <3> QED
      BY <1>1, <1>5, <3>1, LastName
  <2>5. t.specs = [k \in 1 .. Len(at) |-> SpecAt(w, at[k], n)] /\ Len(at) \in Nat
        /\ \A k \in 1 .. Len(at) : at[k] \in 1 .. n
    BY <1>5 DEF SpecsAre
  <2>6. DOMAIN more = DOMAIN t.specs /\ more = [k \in DOMAIN more |-> more[k]]
    BY <2>5
  <2>7. more[1] = SpecAt(w, at[1], n + 1)
    <3>1. t.specs[1] = SpecAt(w, n, n)
      BY <2>4, <2>5
    <3>2. more[1] = [t.specs[1] EXCEPT !.op = tok]
      BY <2>4, <2>5
    <3>3. ~(n + 1 <= n) /\ n + 1 <= n + 1 /\ ~(n + 2 <= n + 1)
      BY <1>1
    <3>4. SpecAt(w, n, n) = [name |-> w[n], op |-> "none", version |-> <<>>]
      BY <3>3 DEF SpecAt
    <3>5. SpecAt(w, n, n + 1) = [name |-> w[n], op |-> tok, version |-> <<>>]
      BY <1>6, <3>3 DEF SpecAt
    <3>6. more[1] = [name |-> w[n], op |-> tok, version |-> <<>>]
      BY <3>1, <3>2, <3>4
    <3> QED
      BY <2>4, <3>5, <3>6
  <2>8. ASSUME NEW k \in 2 .. Len(at)
        PROVE  more[k] = t.specs[k] /\ SpecAt(w, at[k], n + 1) = SpecAt(w, at[k], n)
    <3>1. k \in 1 .. Len(at) /\ k # 1
      BY <2>5
    <3>2. at[k] \in 1 .. n /\ at[k] # n
      BY <2>4, <2>5, <3>1
    <3>3. SpecAt(w, at[k], n + 1) = SpecAt(w, at[k], n)
      BY <1>1, <1>2, <3>2, SameSpec
    <3>4. more[k] = t.specs[k]
      BY <2>5, <3>1
    <3> QED
      BY <3>3, <3>4
  <2> HIDE DEF more, u
  <2>9. SpecsAre(more, at, w, v, n + 1)
    BY <1>1, <1>5, <2>3, <2>4, <2>6, <2>7, <2>8, FirstSpecTaken
  <2>10. PendingAt(w, v, n + 1) = "version"
    BY <1>1, <1>3, <1>6 DEF PendingAt
  <2>11. TakenAre(u, w, v, n + 1)
    BY <1>4, <2>2, <2>9, <2>10 DEF TakenAre
  <2> QED
    BY <2>11 DEF u
<1>7. CASE tok \notin Operator
  <2>1. u = [t EXCEPT !.specs = <<newpkgspec(tok)>> \o @]
    BY <1>2, <1>7 DEF TakeToken
  <2> DEFINE more == <<newpkgspec(tok)>> \o t.specs
  <2>2. /\ DOMAIN u = {"specs", "pending", "bad"} /\ u.bad = FALSE
        /\ u.pending = "operator" /\ u.specs = more
    BY <1>2, <2>1 DEF TakenAre
  <2>3. NameAt(w, v, n + 1)
    BY <1>3, <1>7 DEF NameAt
  <2>4. ASSUME NEW i \in 1 .. n, NameAt(w, v, i) PROVE SpecAt(w, i, n + 1) = SpecAt(w, i, n)
    BY <1>1, <1>2, <1>7, SameSpec
  <2>5. SpecsAre(more, <<n + 1>> \o at, w, v, n + 1)
    BY <1>1, <1>5, <2>3, <2>4, NameTaken
  <2>6. PendingAt(w, v, n + 1) = "operator"
    BY <1>1, <1>3, <1>7 DEF PendingAt
  <2> HIDE DEF u, more
  <2>7. TakenAre(u, w, v, n + 1)
    BY <1>4, <2>2, <2>5, <2>6 DEF TakenAre
  <2> QED
    BY <2>7 DEF u
<1> QED
  BY <1>6, <1>7

\* Behind an operator, a version is expected, whatever it is.
LEMMA VersionTaken ==
  ASSUME NEW w, Len(w) \in Nat, NEW v, AreIts(v, w), NEW n \in 1 .. Len(w) - 1,
         NEW t, TakenAre(t, w, v, n), ~t.bad, OpAt(w, v, n)
  PROVE  TakenAre(TakeToken(t, w[n+1]), w, v, n + 1)
<1> DEFINE tok == w[n+1]
           u == TakeToken(t, tok)
<1>1. n \in Nat /\ n + 1 \in 1 .. Len(w) /\ (n + 1) - 1 = n /\ n + 1 > 1 /\ n + 1 # 0 /\ n # 0
      /\ n \in 1 .. n /\ n \in 1 .. Len(w)
  OBVIOUS
<1>2. t.pending = "version" /\ Nameless(w, v, n) = {} /\ ~v[n] /\ w[n] \in Operator
  BY <1>1 DEF TakenAre, PendingAt, OpAt
<1>3. v[n+1]
  <2>1. v[n+1] = (n + 1 > 1 /\ ~v[(n+1)-1] /\ w[(n+1)-1] \in Operator)
    BY <1>1, Zenon DEF AreIts
  <2> QED
    BY <1>1, <1>2, <2>1
<1>4. Nameless(w, v, n + 1) = {}
  BY <1>1, <1>2, <1>3, NamelessSteps DEF OpAt
\* The word before the operator is a name.
<1>5. n - 1 \in 1 .. n /\ NameAt(w, v, n - 1)
  <2>1. n # 1 /\ ~v[n-1]
    BY <1>1, <1>2 DEF Nameless
  <2>2. v[n] = (n > 1 /\ ~v[n-1] /\ w[n-1] \in Operator)
    BY <1>1, Zenon DEF AreIts
  <2>3. n > 1 /\ n - 1 \in 1 .. n
    BY <1>1, <2>1
  <2> QED
    BY <1>2, <2>1, <2>2, <2>3 DEF NameAt
<1>6. PICK at : SpecsAre(t.specs, at, w, v, n)
  BY DEF TakenAre
<1>7. u = [t EXCEPT !.specs[1].version = Text(tok), !.pending = "nothing"]
  BY <1>2 DEF TakeToken
<1> DEFINE more == [t.specs EXCEPT ![1].version = Text(tok)]
<1>8. /\ DOMAIN u = {"specs", "pending", "bad"} /\ u.bad = FALSE
      /\ u.pending = "nothing" /\ u.specs = more
  BY <1>7 DEF TakenAre
<1>9. ~NameAt(w, v, n + 1)
  BY <1>3 DEF NameAt
<1>10. 1 \in 1 .. Len(at) /\ at[1] = n - 1 /\ \A k \in 2 .. Len(at) : at[k] < n - 1
  <2>1. \A j \in (n - 1) + 1 .. n : j = n
    BY <1>1
  <2>2. ~NameAt(w, v, n)
    BY <1>2 DEF NameAt
  <2>3. \A j \in (n - 1) + 1 .. n : ~NameAt(w, v, j)
    BY <2>1, <2>2
  <2> QED
    BY <1>1, <1>5, <1>6, <2>3, LastName
<1>11. t.specs = [k \in 1 .. Len(at) |-> SpecAt(w, at[k], n)] /\ Len(at) \in Nat
       /\ \A k \in 1 .. Len(at) : at[k] \in 1 .. n
  BY <1>6 DEF SpecsAre
<1>12. DOMAIN more = DOMAIN t.specs /\ more = [k \in DOMAIN more |-> more[k]]
  BY <1>11
<1>13. more[1] = SpecAt(w, at[1], n + 1)
  <2>1. t.specs[1] = SpecAt(w, n - 1, n)
    BY <1>10, <1>11
  <2>2. more[1] = [t.specs[1] EXCEPT !.version = Text(tok)]
    BY <1>10, <1>11
  <2>3. /\ (n - 1) + 1 = n /\ (n - 1) + 2 = n + 1 /\ n <= n /\ n <= n + 1 /\ n + 1 <= n + 1
        /\ ~(n + 1 <= n)
    BY <1>1
  <2>4. SpecAt(w, n - 1, n) = [name |-> w[n-1], op |-> w[n], version |-> <<>>]
    BY <1>2, <2>3 DEF SpecAt
  <2>5. SpecAt(w, n - 1, n + 1) = [name |-> w[n-1], op |-> w[n], version |-> Text(tok)]
    BY <1>2, <2>3 DEF SpecAt
  <2>6. more[1] = [name |-> w[n-1], op |-> w[n], version |-> Text(tok)]
    BY <2>1, <2>2, <2>4
  <2> QED
    BY <1>10, <2>5, <2>6
<1>14. ASSUME NEW k \in 2 .. Len(at)
       PROVE  more[k] = t.specs[k] /\ SpecAt(w, at[k], n + 1) = SpecAt(w, at[k], n)
  <2>1. k \in 1 .. Len(at) /\ k # 1
    BY <1>11
  <2>2. at[k] \in 1 .. n /\ at[k] # n /\ at[k] # n - 1
    BY <1>1, <1>10, <1>11, <2>1
  <2>3. SpecAt(w, at[k], n + 1) = SpecAt(w, at[k], n)
    BY <1>1, <2>2, SameSpec
  <2>4. more[k] = t.specs[k]
    BY <1>11, <2>1
  <2> QED
    BY <2>3, <2>4
<1> HIDE DEF more, u
<1>15. SpecsAre(more, at, w, v, n + 1)
  BY <1>1, <1>6, <1>9, <1>10, <1>12, <1>13, <1>14, FirstSpecTaken
<1>16. PendingAt(w, v, n + 1) = "nothing"
  BY <1>3 DEF PendingAt
<1>17. TakenAre(u, w, v, n + 1)
  BY <1>4, <1>8, <1>15, <1>16 DEF TakenAre
<1> QED
  BY <1>17 DEF u

\* In the end, what was taken is what the words say.
LEMMA AllTaken ==
  ASSUME NEW w, Len(w) \in Nat
  PROVE  TakenAre(TakenOf(w)[Len(w)], w, VersionsOf(w), Len(w))
<1> DEFINE f == TakenOf(w)
           v == VersionsOf(w)
           M == Len(w)
           S == {n \in 0 .. M : TakenAre(f[n], w, v, n)}
<1>1. f[0] = Start /\ \A i \in 1 .. M : f[i] = TakeToken(f[i-1], w[i])
  BY TakenSteps
<1>2. AreIts(v, w)
  BY VersionSteps, Zenon DEF AreIts
<1> HIDE DEF f, v
<1>3. 0 \in S
  <2>1. SpecsAre(<<>>, <<>>, w, v, 0)
    BY DEF SpecsAre
  <2>2. Nameless(w, v, 0) = {}
    BY DEF Nameless
  <2>3. TakenAre(Start, w, v, 0)
    BY <2>1, <2>2 DEF TakenAre, Start, PendingAt
  <2> QED
    BY <1>1, <2>3
<1>4. ASSUME NEW n \in 0 .. M - 1, n \in S PROVE n + 1 \in S
  <2>1. n + 1 \in 1 .. M /\ n + 1 \in 0 .. M /\ (n + 1) - 1 = n /\ n \in Nat
    OBVIOUS
  <2>2. f[n + 1] = TakeToken(f[n], w[n + 1])
    BY <1>1, <2>1
  <2>3. TakenAre(f[n], w, v, n)
    BY <1>4
  <2>4. TakenAre(TakeToken(f[n], w[n + 1]), w, v, n + 1)
    <3>1. CASE f[n].bad
      BY <2>1, <2>3, <3>1, BadStaysBad
    <3>2. CASE ~f[n].bad /\ (n = 0 \/ v[n])
      BY <1>2, <2>3, <3>2, FirstTaken
    <3>3. CASE ~f[n].bad /\ n # 0 /\ ~v[n]
      <4>1. n \in 1 .. M - 1
        BY <3>3
      <4>2. NameAt(w, v, n) \/ OpAt(w, v, n)
        BY <3>3 DEF NameAt, OpAt
      <4> QED
        BY <1>2, <2>3, <3>3, <4>1, <4>2, NextTaken, VersionTaken
    <3> QED
      BY <3>1, <3>2, <3>3
  <2> QED
    BY <2>1, <2>2, <2>4
<1>5. M \in S
  <2>1. \A n \in 0 .. M : n \in S
    <3> HIDE DEF S, M
    <3> QED
      BY <1>3, <1>4, UpTo DEF M
  <2>2. M \in 0 .. M
    OBVIOUS
  <2> QED
    BY <2>1, <2>2
<1> QED
  BY <1>5 DEF f, v

\* The operators in the words, and the names.
OpsIn(w)   == {i \in 1 .. Len(w) : OpAt(w, VersionsOf(w), i)}
NamesIn(w) == {i \in 1 .. Len(w) : NameAt(w, VersionsOf(w), i)}

Constrained(w, i) == [name |-> w[i-1], op |-> w[i], version |-> Text(w[i+1])]

\* The words parse if every operator is between a name and a version.
LEMMA WordsParse ==
  ASSUME NEW w, Len(w) \in Nat
  PROVE  parsespecs(w).ok <=>
           \A i \in OpsIn(w) : 1 < i /\ i < Len(w) /\ ~VersionsOf(w)[i-1]
<1> DEFINE t == TakenOf(w)[Len(w)]
           v == VersionsOf(w)
           M == Len(w)
<1>1. TakenAre(t, w, v, M)
  BY AllTaken
<1>2. parsespecs(w).ok = (~t.bad /\ t.pending # "version")
  BY ParsedIs, Zenon
<1> HIDE DEF t
<1>3. t.bad \in BOOLEAN /\ (t.bad <=> Nameless(w, v, M) # {})
      /\ (~t.bad => t.pending = PendingAt(w, v, M))
  BY <1>1 DEF TakenAre
<1>4. ASSUME ~t.bad, t.pending # "version", NEW i \in OpsIn(w)
      PROVE  1 < i /\ i < M /\ ~v[i-1]
  <2>1. i \in 1 .. M /\ OpAt(w, v, i)
    BY <1>4 DEF OpsIn
  <2>2. i # 1 /\ ~v[i-1]
    BY <1>3, <1>4, <2>1 DEF Nameless
  <2>3. i # M
    <3> SUFFICES ASSUME i = M PROVE FALSE
      OBVIOUS
    <3>1. M # 0 /\ ~v[M] /\ w[M] \in Operator
      BY <2>1 DEF OpAt
    <3> QED
      BY <1>3, <1>4, <3>1 DEF PendingAt
  <2> QED
    BY <2>1, <2>2, <2>3
<1>5. ASSUME \A i \in OpsIn(w) : 1 < i /\ i < M /\ ~v[i-1]
      PROVE  ~t.bad /\ t.pending # "version"
  <2>1. Nameless(w, v, M) = {}
    <3> SUFFICES ASSUME NEW i \in 1 .. M, OpAt(w, v, i), i = 1 \/ v[i-1] PROVE FALSE
      BY DEF Nameless
    <3>1. i \in OpsIn(w)
      BY DEF OpsIn
    <3> QED
      BY <1>5, <3>1
  <2>2. ASSUME PendingAt(w, v, M) = "version" PROVE FALSE
    <3>1. M # 0 /\ ~v[M] /\ w[M] \in Operator
      BY <2>2 DEF PendingAt
    <3>2. M \in OpsIn(w)
      BY <3>1 DEF OpsIn, OpAt
    <3> QED
      BY <1>5, <3>2
  <2> QED
    BY <1>3, <2>1, <2>2
<1> QED
  BY <1>2, <1>4, <1>5, Zenon

\* If they do, the specs are those of the names, and have the operators and versions given.
LEMMA SpecsSay ==
  ASSUME NEW w, Len(w) \in Nat, parsespecs(w).ok
  PROVE  LET specs == parsespecs(w).specs
         IN  /\ {specs[k].name : k \in DOMAIN specs} = {w[i] : i \in NamesIn(w)}
             /\ \A k \in DOMAIN specs : specs[k].op # "none" =>
                  \E i \in OpsIn(w) : specs[k] = Constrained(w, i)
             /\ \A i \in OpsIn(w) : \E k \in DOMAIN specs : specs[k] = Constrained(w, i)
<1> DEFINE t == TakenOf(w)[Len(w)]
           v == VersionsOf(w)
           M == Len(w)
           specs == parsespecs(w).specs
<1>1. TakenAre(t, w, v, M)
  BY AllTaken
<1>2. parsespecs(w).ok = (~t.bad /\ t.pending # "version") /\ specs = t.specs
  BY ParsedIs, Zenon
<1> HIDE DEF t
<1>3. PICK at : SpecsAre(specs, at, w, v, M)
  BY <1>1, <1>2 DEF TakenAre
<1>4. /\ DOMAIN specs = 1 .. Len(at) /\ \A k \in 1 .. Len(at) : specs[k] = SpecAt(w, at[k], M)
      /\ \A i \in 1 .. M : NameAt(w, v, i) <=> \E k \in 1 .. Len(at) : at[k] = i
      /\ \A k \in 1 .. Len(at) : at[k] \in 1 .. M
  BY <1>3 DEF SpecsAre
<1>5. \A i \in OpsIn(w) : 1 < i /\ i < M /\ ~v[i-1]
  BY WordsParse
<1>6. AreIts(v, w)
  BY VersionSteps, Zenon DEF AreIts
<1> HIDE DEF v, specs
<1>7. \A i : SpecAt(w, i, M).name = w[i]
  BY DEF SpecAt
<1>8. {specs[k].name : k \in DOMAIN specs} = {w[i] : i \in NamesIn(w)}
  <2>1. ASSUME NEW k \in DOMAIN specs PROVE \E i \in NamesIn(w) : specs[k].name = w[i]
    <3>1. at[k] \in 1 .. M /\ NameAt(w, v, at[k]) /\ specs[k].name = w[at[k]]
      BY <1>4, <1>7
    <3> QED
      BY <3>1 DEF NamesIn, v
  <2>2. ASSUME NEW i \in NamesIn(w) PROVE \E k \in DOMAIN specs : specs[k].name = w[i]
    <3>1. i \in 1 .. M /\ NameAt(w, v, i)
      BY DEF NamesIn, v
    <3>2. PICK k \in 1 .. Len(at) : at[k] = i
      BY <1>4, <3>1
    <3> QED
      BY <1>4, <1>7, <3>2
  <2> QED
    BY <2>1, <2>2
<1>9. ASSUME NEW i, i \in 1 .. M, i + 1 \in OpsIn(w) PROVE SpecAt(w, i, M) = Constrained(w, i + 1)
  <2>1. i + 1 < M /\ i + 1 <= M /\ i + 2 <= M /\ (i + 1) - 1 = i /\ (i + 1) + 1 = i + 2
    BY <1>5, <1>9
  <2>2. w[i+1] \in Operator
    BY <1>9 DEF OpsIn, OpAt
  <2> QED
    BY <2>1, <2>2 DEF SpecAt, Constrained
<1>10. ASSUME NEW k \in DOMAIN specs, specs[k].op # "none"
       PROVE  \E i \in OpsIn(w) : specs[k] = Constrained(w, i)
  <2> DEFINE i == at[k]
  <2>1. i \in 1 .. M /\ NameAt(w, v, i) /\ specs[k] = SpecAt(w, i, M)
    BY <1>4
  <2> HIDE DEF i
  <2>2. i + 1 <= M /\ w[i+1] \in Operator
    BY <1>10, <2>1 DEF SpecAt
  <2>3. i + 1 \in 1 .. M /\ (i + 1) - 1 = i
    BY <2>1, <2>2
  <2>4. ~v[i+1]
    <3>1. v[i+1] = (i + 1 > 1 /\ ~v[(i+1)-1] /\ w[(i+1)-1] \in Operator)
      BY <1>6, <2>3, Zenon DEF AreIts
    <3> QED
      BY <2>1, <2>3, <3>1 DEF NameAt
  <2>5. i + 1 \in OpsIn(w)
    BY <2>2, <2>3, <2>4 DEF OpsIn, OpAt, v
  <2> QED
    BY <1>9, <2>1, <2>5
<1>11. ASSUME NEW i \in OpsIn(w) PROVE \E k \in DOMAIN specs : specs[k] = Constrained(w, i)
  <2>1. 1 < i /\ i < M /\ ~v[i-1] /\ i \in 1 .. M /\ ~v[i]
    BY <1>5 DEF OpsIn, OpAt, v
  <2>2. i - 1 \in 1 .. M /\ (i - 1) + 1 = i
    BY <2>1
  <2>3. NameAt(w, v, i - 1)
    <3>1. v[i] = (i > 1 /\ ~v[i-1] /\ w[i-1] \in Operator)
      BY <1>6, <2>1, Zenon DEF AreIts
    <3> QED
      BY <2>1, <3>1 DEF NameAt
  <2>4. PICK k \in 1 .. Len(at) : at[k] = i - 1
    BY <1>4, <2>2, <2>3
  <2>5. specs[k] = SpecAt(w, i - 1, M)
    BY <1>4, <2>4
  <2>6. SpecAt(w, i - 1, M) = Constrained(w, i)
    BY <1>9, <2>2
  <2> QED
    BY <1>4, <2>5, <2>6
<1> QED
  BY <1>8, <1>10, <1>11 DEF specs

-----------------------------------------------------------------------------
(***************************************************************************)
(* What each argument is, from what the one before it is.                  *)
(***************************************************************************)
RoleBehind(line, before, i) ==
  IF before \in {"dashes", "rest"} THEN "rest"
  ELSE IF before = "option" /\ line[i-1] \in Valued THEN "value"
  ELSE IF line[i] = "--" THEN "dashes"
  ELSE IF LooksLikeOption(line[i]) THEN "option" ELSE "word"

AreRoles(r, line, n) ==
  r = [i \in 0 .. n |-> IF i = 0 THEN "program" ELSE RoleBehind(line, r[i-1], i)]

RolesOf(line) == CHOOSE r : AreRoles(r, line, Len(line))

\* Role is the function that gives every argument its role.
LEMMA RoleIs == Role = RolesOf(args)
BY DEF Role, RolesOf, AreRoles, RoleBehind

\* There is such a function for every command line, one argument longer at a time.
LEMMA RolesExist ==
  ASSUME NEW line
  PROVE  \A n \in Nat : \E r : AreRoles(r, line, n)
<1> DEFINE S == {n \in Nat : \E r : AreRoles(r, line, n)}
<1>1. 0 \in S
  <2> DEFINE r == [i \in 0 .. 0 |-> "program"]
  <2>1. r = [i \in 0 .. 0 |-> IF i = 0 THEN "program" ELSE RoleBehind(line, r[i-1], i)]
    <3>1. \A i \in 0 .. 0 : i = 0
      OBVIOUS
    <3> HIDE DEF RoleBehind
    <3> QED
      BY <3>1
  <2> QED
    BY <2>1 DEF AreRoles
<1>2. ASSUME NEW n \in Nat, n \in S PROVE n + 1 \in S
  <2>1. PICK r : AreRoles(r, line, n)
    BY <1>2
  <2> DEFINE next == RoleBehind(line, r[n], n + 1)
             t == [i \in 0 .. n + 1 |-> IF i = n + 1 THEN next ELSE r[i]]
  <2> HIDE DEF next
  <2>2. /\ t[n + 1] = next
        /\ \A i \in 0 .. n :
             t[i] = r[i] /\ r[i] = IF i = 0 THEN "program" ELSE RoleBehind(line, r[i-1], i)
        /\ \A i \in 1 .. n + 1 : t[i-1] = r[i-1]
        /\ \A i \in 0 .. n + 1 : i \in 0 .. n \/ i = n + 1
        /\ \A i \in 1 .. n : i \in 0 .. n + 1
        /\ n + 1 # 0 /\ (n + 1) - 1 = n
    BY <2>1 DEF AreRoles
  <2>3. t = [i \in 0 .. n + 1 |-> t[i]]
    OBVIOUS
  <2> HIDE DEF t
  <2>4. ASSUME NEW i \in 0 .. n + 1
        PROVE  t[i] = IF i = 0 THEN "program" ELSE RoleBehind(line, t[i-1], i)
    <3>1. CASE i = n + 1
      <4>1. t[i-1] = r[n]
        BY <2>2, <3>1
      <4> QED
        BY <2>2, <3>1, <4>1, Zenon DEF next
    <3>2. CASE i \in 0 .. n /\ i # 0
      <4>1. t[i-1] = r[i-1]
        BY <2>2, <3>2
      <4> QED
        BY <2>2, <3>2, <4>1, Zenon
    <3>3. CASE i = 0
      <4>1. 0 \in 0 .. n
        OBVIOUS
      <4> QED
        BY <2>2, <3>3, <4>1, Zenon
    <3> QED
      BY <2>2, <3>1, <3>2, <3>3, Zenon
  <2>5. AreRoles(t, line, n + 1)
    BY <2>3, <2>4, Zenon DEF AreRoles
  <2> QED
    BY <2>5
<1>3. Nat \subseteq S
  <2> HIDE DEF S
  <2> QED
    BY <1>1, <1>2, NaturalsFrom0
<1> QED
  BY <1>3

\* The role of an argument follows from the one before it.
LEMMA RoleSteps ==
  ASSUME args \in Seq(STRING)
  PROVE  /\ Role[0] = "program"
         /\ \A i \in 1 .. Len(args) : Role[i] = RoleBehind(args, Role[i-1], i)
<1> DEFINE r == RolesOf(args)
<1>1. Len(args) \in Nat
  OBVIOUS
<1>2. AreRoles(r, args, Len(args))
  BY <1>1, RolesExist, Zenon DEF RolesOf
<1> HIDE DEF r
<1>3. r[0] = "program"
  BY <1>1, <1>2 DEF AreRoles
<1>4. ASSUME NEW i \in 1 .. Len(args) PROVE r[i] = RoleBehind(args, r[i-1], i)
  <2>1. i \in 0 .. Len(args) /\ i # 0
    OBVIOUS
  <2> QED
    BY <1>2, <2>1, Zenon DEF AreRoles
<1> QED
  BY <1>3, <1>4, RoleIs DEF r

\* A word more, or none.
AreGiven(g, role, line) ==
  g = [i \in 0 .. Len(line) |->
         IF i = 0 THEN <<>>
         ELSE IF role[i] \in {"word", "rest"} THEN Append(g[i-1], line[i]) ELSE g[i-1]]

GivenIn(role, line) == CHOOSE g : AreGiven(g, role, line)

\* WordsGiven are the words of the whole line.
LEMMA GivenIs == WordsGiven = GivenIn(Role, args)[Len(args)]
BY DEF WordsGiven, GivenIn, AreGiven

\* The words, one argument after the other.
LEMMA WordSteps ==
  ASSUME args \in Seq(STRING)
  PROVE  LET g == GivenIn(Role, args)
         IN  /\ g[0] = <<>>
             /\ \A i \in 1 .. Len(args) :
                  g[i] = IF Role[i] \in {"word", "rest"} THEN Append(g[i-1], args[i]) ELSE g[i-1]
             /\ \A i \in 0 .. Len(args) : g[i] \in Seq({args[j] : j \in 1 .. Len(args)})
<1> DEFINE M == Len(args)
           R == {args[j] : j \in 1 .. Len(args)}
           X == Seq(R)
           r == Role
           step == [p \in X \X (1 .. M) |->
                      IF r[p[2]] \in {"word", "rest"} THEN Append(p[1], args[p[2]]) ELSE p[1]]
<1>1. M \in Nat /\ <<>> \in X /\ \A j \in 1 .. M : args[j] \in R
  OBVIOUS
<1> HIDE DEF R, r
<1>2. step \in [X \X (1 .. M) -> X]
  BY <1>1
<1>3. PICK f \in [0 .. M -> X] : Follows(f, <<>>, step, M)
  <2> HIDE DEF step, X
  <2> QED
    BY <1>1, <1>2, FollowsExist
<1>4. ASSUME NEW i \in 0 .. M
      PROVE  f[i] = IF i = 0 THEN <<>>
                    ELSE IF r[i] \in {"word", "rest"} THEN Append(f[i-1], args[i]) ELSE f[i-1]
  <2>1. f[i] = IF i = 0 THEN <<>> ELSE step[<<f[i-1], i>>]
    BY <1>3 DEF Follows
  <2>2. CASE i = 0
    BY <2>1, <2>2
  <2>3. CASE i # 0
    <3>1. f[i-1] \in X /\ i \in 1 .. M
      BY <1>1, <1>3, <2>3
    <3>2. <<f[i-1], i>> \in X \X (1 .. M)
      BY <3>1
    <3>3. step[<<f[i-1], i>>] =
            IF r[i] \in {"word", "rest"} THEN Append(f[i-1], args[i]) ELSE f[i-1]
      BY <3>2
    <3> QED
      BY <2>1, <2>3, <3>3
  <2> QED
    BY <2>2, <2>3
<1>5. AreGiven(f, r, args)
  <2>1. f = [i \in 0 .. M |-> f[i]]
    BY <1>3
  <2> QED
    BY <1>4, <2>1, Zenon DEF AreGiven
<1> DEFINE g == GivenIn(r, args)
<1>6. AreGiven(g, r, args)
  BY <1>5, Zenon DEF GivenIn
<1> HIDE DEF g
<1>7. \A i \in 0 .. M : g[i] = IF i = 0 THEN <<>>
                    ELSE IF r[i] \in {"word", "rest"} THEN Append(g[i-1], args[i]) ELSE g[i-1]
  BY <1>6, Zenon DEF AreGiven
<1>8. 0 \in 0 .. M /\ \A i \in 1 .. M : i \in 0 .. M /\ i # 0
  BY <1>1
<1>9. \A i \in 0 .. M : g[i] \in X
  <2> DEFINE S == {i \in 0 .. M : g[i] \in X}
  <2>1. 0 \in S
    BY <1>1, <1>7, <1>8
  <2>2. ASSUME NEW n \in 0 .. M - 1, n \in S PROVE n + 1 \in S
    <3>1. n + 1 \in 0 .. M /\ n + 1 \in 1 .. M /\ n + 1 # 0 /\ (n + 1) - 1 = n
      BY <1>1
    <3>2. g[n+1] = IF r[n+1] \in {"word", "rest"} THEN Append(g[n], args[n+1]) ELSE g[n]
      BY <1>7, <3>1
    <3>3. args[n+1] \in R /\ g[n] \in Seq(R)
      BY <1>1, <2>2, <3>1
    <3>4. Append(g[n], args[n+1]) \in Seq(R)
      BY <3>3
    <3> QED
      BY <3>1, <3>2, <3>3, <3>4
  <2> HIDE DEF S, M
  <2>3. \A n \in 0 .. M : n \in S
    BY <1>1, <2>1, <2>2, UpTo
  <2> QED
    BY <2>3 DEF S
<1>10. g[0] = <<>>
  BY <1>7, <1>8, Zenon
<1>11. \A i \in 1 .. M :
         g[i] = IF r[i] \in {"word", "rest"} THEN Append(g[i-1], args[i]) ELSE g[i-1]
  BY <1>7, <1>8, Zenon
<1> QED
  BY <1>9, <1>10, <1>11, Zenon DEF g, r, R

-----------------------------------------------------------------------------
(***************************************************************************)
(* The packages that are needed.                                           *)
(***************************************************************************)
Reached(names, edges, M) ==
  CHOOSE f : f = [k \in 0 .. M |-> IF k = 0 THEN names
                                   ELSE f[k-1] \cup UNION {edges[n] : n \in f[k-1]}]

\* Closure is what is reached in the end.
LEMMA ClosureIs ==
  ASSUME NEW names, NEW edges
  PROVE  Closure(names, edges) =
           Reached(names, edges, Cardinality(DOMAIN Repo))[Cardinality(DOMAIN Repo)]
BY DEF Closure, Reached

\* What is reached, one edge after the other.
LEMMA ReachedSteps ==
  ASSUME NEW names, NEW edges, names \subseteq DOMAIN Repo,
         edges \in [DOMAIN Repo -> SUBSET DOMAIN Repo]
  PROVE  LET M == Cardinality(DOMAIN Repo)
             g == Reached(names, edges, M)
         IN  /\ M \in Nat /\ g[0] = names
             /\ \A i \in 1 .. M : g[i] = g[i-1] \cup UNION {edges[n] : n \in g[i-1]}
<1> DEFINE N == DOMAIN Repo
           M == Cardinality(N)
           X == SUBSET N
           step == [p \in X \X (1 .. M) |-> p[1] \cup UNION {edges[n] : n \in p[1]}]
<1>1. M \in Nat
  BY RepoAssumption, FS_CardinalityType
<1> HIDE DEF M, N
<1>2. step \in [X \X (1 .. M) -> X] /\ names \in X
  BY DEF N
<1>3. PICK f \in [0 .. M -> X] : Follows(f, names, step, M)
  <2> HIDE DEF step, X
  <2> QED
    BY <1>1, <1>2, FollowsExist
<1>4. ASSUME NEW i \in 0 .. M
      PROVE  f[i] = IF i = 0 THEN names ELSE f[i-1] \cup UNION {edges[n] : n \in f[i-1]}
  <2>1. f[i] = IF i = 0 THEN names ELSE step[<<f[i-1], i>>]
    BY <1>3 DEF Follows
  <2>2. CASE i = 0
    BY <2>1, <2>2
  <2>3. CASE i # 0
    <3>1. f[i-1] \in X /\ i \in 1 .. M
      BY <1>1, <1>3, <2>3
    <3>2. <<f[i-1], i>> \in X \X (1 .. M)
      BY <3>1
    <3>3. step[<<f[i-1], i>>] = f[i-1] \cup UNION {edges[n] : n \in f[i-1]}
      BY <3>2
    <3> QED
      BY <2>1, <2>3, <3>3
  <2> QED
    BY <2>2, <2>3
<1>5. f = [k \in 0 .. M |-> IF k = 0 THEN names
                            ELSE f[k-1] \cup UNION {edges[n] : n \in f[k-1]}]
  <2>1. f = [k \in 0 .. M |-> f[k]]
    BY <1>3
  <2> QED
    BY <1>4, <2>1, Zenon
<1> DEFINE g == Reached(names, edges, M)
<1>6. g = [k \in 0 .. M |-> IF k = 0 THEN names
                            ELSE g[k-1] \cup UNION {edges[n] : n \in g[k-1]}]
  BY <1>5, Zenon DEF Reached
<1> HIDE DEF g
<1>7. /\ 0 \in 0 .. M
      /\ \A i \in 1 .. M : i \in 0 .. M /\ i # 0
  BY <1>1
<1>8. g[0] = names
  BY <1>6, <1>7, Zenon
<1>9. \A i \in 1 .. M : g[i] = g[i-1] \cup UNION {edges[n] : n \in g[i-1]}
  BY <1>6, <1>7, Zenon
<1> QED
  BY <1>1, <1>8, <1>9 DEF g, M, N

\* What packages need are packages.
LEMMA ClosureIn ==
  ASSUME NEW names, NEW edges, names \subseteq DOMAIN Repo,
         edges \in [DOMAIN Repo -> SUBSET DOMAIN Repo]
  PROVE  Closure(names, edges) \subseteq DOMAIN Repo
<1> DEFINE M == Cardinality(DOMAIN Repo)
           g == Reached(names, edges, M)
           S == {i \in 0 .. M : g[i] \subseteq DOMAIN Repo}
<1>1. M \in Nat
  BY RepoAssumption, FS_CardinalityType
<1>2. /\ g[0] = names
      /\ \A i \in 1 .. M : g[i] = g[i-1] \cup UNION {edges[n] : n \in g[i-1]}
  BY ReachedSteps
<1> HIDE DEF M, g
<1>3. 0 \in S
  BY <1>1, <1>2
<1>4. ASSUME NEW n \in 0 .. M - 1, n \in S PROVE n + 1 \in S
  <2>1. n + 1 \in 0 .. M /\ n + 1 \in 1 .. M /\ (n + 1) - 1 = n
    BY <1>1
  <2>2. g[n+1] = g[n] \cup UNION {edges[m] : m \in g[n]}
    BY <1>2, <2>1
  <2>3. \A m \in g[n] : edges[m] \subseteq DOMAIN Repo
    BY <1>4
  <2> QED
    BY <1>4, <2>1, <2>2, <2>3
<1>5. M \in S
  <2>1. M \in 0 .. M
    BY <1>1
  <2> HIDE DEF S
  <2> QED
    BY <1>1, <1>3, <1>4, <2>1, UpTo
<1> QED
  BY <1>5, ClosureIs DEF g, M

\* More edges reach as much, and maybe more.
LEMMA ClosureGrows ==
  ASSUME NEW names, NEW few, NEW more, names \subseteq DOMAIN Repo,
         few \in [DOMAIN Repo -> SUBSET DOMAIN Repo], more \in [DOMAIN Repo -> SUBSET DOMAIN Repo],
         \A n \in DOMAIN Repo : few[n] \subseteq more[n]
  PROVE  Closure(names, few) \subseteq Closure(names, more)
<1> DEFINE M == Cardinality(DOMAIN Repo)
           f == Reached(names, few, M)
           g == Reached(names, more, M)
           S == {i \in 0 .. M : f[i] \subseteq g[i] /\ f[i] \subseteq DOMAIN Repo}
<1>1. M \in Nat
  BY RepoAssumption, FS_CardinalityType
<1>2. /\ f[0] = names /\ g[0] = names
      /\ \A i \in 1 .. M : f[i] = f[i-1] \cup UNION {few[n] : n \in f[i-1]}
      /\ \A i \in 1 .. M : g[i] = g[i-1] \cup UNION {more[n] : n \in g[i-1]}
  BY ReachedSteps
<1> HIDE DEF M, f, g
<1>3. 0 \in S
  BY <1>1, <1>2
<1>4. ASSUME NEW n \in 0 .. M - 1, n \in S PROVE n + 1 \in S
  <2>1. n + 1 \in 0 .. M /\ n + 1 \in 1 .. M /\ (n + 1) - 1 = n
    BY <1>1
  <2>2. /\ f[n+1] = f[n] \cup UNION {few[m] : m \in f[n]}
        /\ g[n+1] = g[n] \cup UNION {more[m] : m \in g[n]}
    BY <1>2, <2>1
  <2>3. f[n] \subseteq g[n] /\ f[n] \subseteq DOMAIN Repo
    BY <1>4
  <2>4. \A m \in f[n] : few[m] \subseteq more[m] /\ few[m] \subseteq DOMAIN Repo
    BY <2>3
  <2>5. f[n+1] \subseteq g[n+1] /\ f[n+1] \subseteq DOMAIN Repo
    BY <2>2, <2>3, <2>4
  <2> QED
    BY <2>1, <2>5
<1>5. M \in S
  <2>1. M \in 0 .. M
    BY <1>1
  <2> HIDE DEF S
  <2> QED
    BY <1>1, <1>3, <1>4, <2>1, UpTo
<1> QED
  BY <1>5, ClosureIs DEF f, g, M

\* An order of some packages has all of them, and no others.
LEMMA OrderHasAll ==
  ASSUME NEW names \in SUBSET DOMAIN Repo, NEW list \in Orders(names)
  PROVE  list \in Seq(names) /\ {list[i] : i \in DOMAIN list} = names
<1> DEFINE n == Cardinality(names)
           D == 1 .. n
<1>1. IsFiniteSet(names) /\ n \in Nat
  BY RepoAssumption, FS_Subset, FS_CardinalityType
<1>2. list \in [D -> names] /\ \A i, j \in D : i # j => list[i] # list[j]
  BY DEF Orders, SetToSeqs
<1>3. list \in Injection(D, names)
  BY <1>2 DEF Injection, IsInjective
<1>4. Cardinality(D) = n
  <2>1. Cardinality(1 .. n) = IF 1 > n THEN 0 ELSE n - 1 + 1
    BY <1>1, FS_Interval
  <2> HIDE DEF n
  <2> QED
    BY <1>1, <2>1
<1>5. list \in Surjection(D, names)
  BY <1>1, <1>3, <1>4, FS_Injection
<1>6. \A x \in names : \E i \in D : list[i] = x
  BY <1>5 DEF Surjection
<1>7. list \in Seq(names)
  <2> HIDE DEF n
  <2> QED
    BY <1>1, <1>2
<1>8. DOMAIN list = D
  BY <1>2
<1> HIDE DEF D
<1> QED
  BY <1>2, <1>6, <1>7, <1>8

-----------------------------------------------------------------------------
(***************************************************************************)
(* While options are read, the settings are those of the options read, of  *)
(* which the last one counts if there are several, and none of these has   *)
(* ended the reading; the words are those that were passed.  Afterwards    *)
(* all this is about the whole command line, and messages go where the     *)
(* options have asked for.                                                 *)
(***************************************************************************)
Loud    == {"--errors-to-stdout"}
Shallow == VersionOptions \cup {"--modversion", "--validate"}

\* An option of some kind is before n; the last one is at i.
SoFar(S, n)     == \E i \in Given(S) : i < n
LastAt(S, n, i) == i \in Given(S) /\ i < n /\ \A j \in Given(S) : j < n => j <= i

\* What options ask for.
OpOf(o) ==
  IF o = "--atleast-version" THEN ">=" ELSE IF o = "--exact-version" THEN "=" ELSE "<="

FilterOf(o) ==
  IF o \in {"--cflags", "--libs"} THEN "any"
  ELSE IF o = "--cflags-only-I" THEN "I"
  ELSE IF o = "--cflags-only-other" THEN "otherc"
  ELSE IF o = "--libs-only-L" THEN "L"
  ELSE IF o = "--libs-only-l" THEN "l" ELSE "otherl"

Switched(n) ==
  /\ set.silent <=> SoFar(Silencing, n)
  /\ set.tostdout <=> SoFar(Loud, n)
  /\ ~set.recursive <=> SoFar(Shallow, n)
  /\ set.ignore_versions <=> SoFar(VersionOptions, n)
  /\ set.static <=> SoFar({"--static"}, n)
  /\ set.listing <=> SoFar({"--list-all"}, n)

Filtered(n) ==
  /\ set.cflags # "off" <=> SoFar(CflagsOptions, n)
  /\ \A i \in DOMAIN args : LastAt(CflagsOptions, n, i) => set.cflags = FilterOf(OptionOf(args[i]))
  /\ set.libs # "off" <=> SoFar(LibsOptions, n)
  /\ \A i \in DOMAIN args : LastAt(LibsOptions, n, i) => set.libs = FilterOf(OptionOf(args[i]))

Versioned(n) ==
  /\ set.op # "none" <=> SoFar(VersionOptions, n)
  /\ \A i \in DOMAIN args : LastAt(VersionOptions, n, i) =>
              set.op = OpOf(OptionOf(args[i])) /\ set.version = Text(ValueAt(i))

Chosen(n) ==
  /\ ~SoFar({"--variable"}, n) => set.variable = "none"
  /\ \A i \in DOMAIN args : LastAt({"--variable"}, n, i) => set.variable = ValueAt(i)
  /\ set.defined <=> SoFar({"--define-variable"}, n)

Settled(n) == Switched(n) /\ Filtered(n) /\ Versioned(n) /\ Chosen(n)

ReadSoFar ==
  /\ index \in 1 .. Len(args) + 1
  /\ Role[index - 1] = "option" => args[index - 1] \notin Valued
  /\ dashdash <=> Role[index - 1] \in {"dashes", "rest"}
  /\ \A i \in 1 .. index - 1 : i \notin Bad /\ i \notin Returning
  /\ Settled(index)
  /\ words = GivenIn(Role, args)[index - 1]
  /\ out = <<>>

AllRead ==
  /\ Bad = {} /\ Returning = {}
  /\ Settled(Len(args) + 1)
  /\ words = WordsGiven
  /\ phase = "route" => out = <<>>
  /\ phase # "route" => err = Routed /\ ~Asked({"--list-all"})

\* What has been found out about the packages when the results are printed.
PackagesFound ==
  /\ WordsMakeSense
  /\ pkgs \in Seq(Needed) /\ {pkgs[i] : i \in DOMAIN pkgs} = Needed
  /\ direct = Named
  /\ public = NeededPublicly

CflagsMakeSense ==
  Asked(CflagsOptions) =>
    \A n \in Needed : Repo[n].cflags.ok /\ (Static => Repo[n].cflagsprivate.ok)

LibsMakeSense ==
  Asked(LibsOptions) =>
    /\ \A n \in IF Static THEN Needed ELSE NeededPublicly : Repo[n].libs.ok
    /\ Static => \A n \in Needed : Repo[n].libsprivate.ok

Results == {"override", "modversion", "variable", "cflags", "libs", "newline"}

FoundSoFar ==
  /\ phase \in Results => PackagesFound
  /\ phase \in Results \ {"override"} => VersionsMakeSense
  /\ phase \in {"cflags", "libs", "newline"} => VariableMakesSense
  /\ phase \in {"libs", "newline"} => CflagsMakeSense
  /\ phase = "newline" => LibsMakeSense

DriverInv ==
  /\ args \in Inputs
  /\ DOMAIN set = DOMAIN NoSettings
  /\ phase # "fail" => message = "none"
  /\ phase = "options" => ReadSoFar
  /\ phase \notin {"options", "ok", "fail"} => AllRead
  /\ FoundSoFar
  /\ MessageRouted
  /\ ExitsRightly

\* The options there are.
LEMMA Kinds ==
  /\ \A arg : LooksLikeOption(arg) /\ arg # "--" =>
       OptionOf(arg) \in Valued \cup Simple \cup Printing \cup {"--unknown"}
  /\ \A arg \in DOMAIN Attached : OptionOf(arg) \in Valued /\ arg \notin Valued
  /\ \A arg : arg \notin DOMAIN Attached => OptionOf(arg) = arg
  /\ Valued \cap (Simple \cup Printing \cup {"--unknown", "--"}) = {}
  /\ Simple \cap (Printing \cup {"--unknown", "--"}) = {}
<1> DEFINE A == DOMAIN Attached
<1>1. A = {"--variable=v", "--atleast-version=1.10", "--max-version=1.9", "--define-variable=v=1",
           "--define-variable=v", "--atleast-pkgconfig-version=9"}
  BY DEF Attached
<1>2. /\ Attached["--variable=v"][1] = "--variable"
      /\ Attached["--atleast-version=1.10"][1] = "--atleast-version"
      /\ Attached["--max-version=1.9"][1] = "--max-version"
      /\ Attached["--define-variable=v=1"][1] = "--define-variable"
      /\ Attached["--define-variable=v"][1] = "--define-variable"
      /\ Attached["--atleast-pkgconfig-version=9"][1] = "--atleast-pkgconfig-version"
  BY DEF Attached
<1>3. ASSUME NEW arg \in A PROVE OptionOf(arg) \in Valued /\ arg \notin Valued
  <2>1. OptionOf(arg) = Attached[arg][1]
    BY DEF OptionOf
  <2> HIDE DEF A
  <2> QED
    BY <1>1, <1>2, <2>1 DEF Valued
<1>4. \A arg : arg \notin A => OptionOf(arg) = arg
  BY DEF OptionOf
<1>5. \A arg : LooksLikeOption(arg) =>
        arg \in A \cup Valued \cup Simple \cup Printing \cup {"--", "--unknown"}
  BY DEF LooksLikeOption
<1> HIDE DEF A
<1>6. \A arg : LooksLikeOption(arg) /\ arg # "--" =>
         OptionOf(arg) \in Valued \cup Simple \cup Printing \cup {"--unknown"}
  BY <1>3, <1>4, <1>5
<1>7. Valued \cap (Simple \cup Printing \cup {"--unknown", "--"}) = {}
      /\ Simple \cap (Printing \cup {"--unknown", "--"}) = {}
  BY DEF Valued, Simple, Printing
<1> QED
  BY <1>3, <1>4, <1>6, <1>7 DEF A

\* What the properties say of a command line does not change.
LEMMA SameLine ==
  ASSUME args' = args
  PROVE  /\ Role' = Role /\ Bad' = Bad /\ Returning' = Returning
         /\ \A S : (Given(S))' = Given(S)
         /\ \A S : (Asked(S))' <=> Asked(S)
         /\ \A i : (ValueAt(i))' = ValueAt(i)
<1>1. Role' = Role
  <2>1. RolesOf(args') = RolesOf(args)
    BY Zenon
  <2>2. Role' = RolesOf(args')
    BY DEF Role, RolesOf, AreRoles, RoleBehind
  <2> QED
    BY <2>1, <2>2, RoleIs, Zenon
<1>2. \A S : (Given(S))' = Given(S)
  BY <1>1 DEF Given
<1>3. Bad' = Bad /\ Returning' = Returning
  BY <1>1, <1>2 DEF Bad, Returning, Lacks, ValueAt
<1>4. \A S : (Asked(S))' <=> Asked(S)
  BY <1>2 DEF Asked
<1>5. \A i : (ValueAt(i))' = ValueAt(i)
  BY DEF ValueAt
<1> QED
  BY <1>1, <1>2, <1>3, <1>4, <1>5

\* Neither does what they say of its words, and of the packages these need.
LEMMA SameWords ==
  ASSUME args' = args
  PROVE  /\ GivenIn(Role, args)' = GivenIn(Role, args) /\ WordsGiven' = WordsGiven
         /\ WordsMakeSense' <=> WordsMakeSense
         /\ Named' = Named /\ Needed' = Needed /\ NeededPublicly' = NeededPublicly
         /\ Static' <=> Static
         /\ VersionsMakeSense' <=> VersionsMakeSense
         /\ CflagsMakeSense' <=> CflagsMakeSense
         /\ LibsMakeSense' <=> LibsMakeSense
         /\ FieldsMakeSense' <=> FieldsMakeSense
         /\ VariableMakesSense' <=> VariableMakesSense
         /\ ResultsMakeSense' <=> ResultsMakeSense
         /\ ListMakesSense' <=> ListMakesSense
<1>1. Role' = Role
  BY SameLine
<1>2. GivenIn(Role', args') = GivenIn(Role, args)
  BY <1>1, Zenon
<1>3. GivenIn(Role, args)' = GivenIn(Role, args)
  <2>1. GivenIn(Role, args)' = GivenIn(Role', args')
    BY DEF GivenIn, AreGiven
  <2> QED
    BY <1>2, <2>1, Zenon
<1>4. WordsGiven' = WordsGiven
  <2>1. WordsGiven' = GivenIn(Role', args')[Len(args')]
    BY DEF WordsGiven, GivenIn, AreGiven
  <2> QED
    BY <1>2, <2>1, GivenIs
<1>5. IsVersion' = IsVersion
  <2>1. VersionsOf(WordsGiven') = VersionsOf(WordsGiven)
    BY <1>4, Zenon
  <2>2. IsVersion' = VersionsOf(WordsGiven')
    BY DEF IsVersion, VersionsOf, AreVersions
  <2> QED
    BY <2>1, <2>2, IsVersionIs, Zenon
<1>6. OpsGiven' = OpsGiven
  BY <1>4, <1>5 DEF OpsGiven
<1>7. Named' = Named
  BY <1>4, <1>5, <1>6 DEF Named
<1>8. \A S : (Asked(S))' <=> Asked(S)
  BY SameLine
<1>9. WordsMakeSense' <=> WordsMakeSense
  BY <1>4, <1>5, <1>6, <1>7, <1>8 DEF WordsMakeSense
<1>10. (Deep' <=> Deep) /\ (Static' <=> Static)
  BY <1>8 DEF Deep, Static
<1>11. Needed' = Needed /\ NeededPublicly' = NeededPublicly
  BY <1>7, <1>10 DEF Needed, NeededPublicly
<1>12. (LastOf(VersionOptions))' = LastOf(VersionOptions)
  BY SameLine DEF LastOf
<1>13. \A i : (ValueAt(i))' = ValueAt(i)
  BY SameLine
<1>14. VersionsMakeSense' <=> VersionsMakeSense
  BY <1>8, <1>11, <1>12, <1>13 DEF VersionsMakeSense
<1>15. (CflagsMakeSense' <=> CflagsMakeSense) /\ (LibsMakeSense' <=> LibsMakeSense)
       /\ (FieldsMakeSense' <=> FieldsMakeSense)
  BY <1>8, <1>10, <1>11 DEF CflagsMakeSense, LibsMakeSense, FieldsMakeSense
<1>16. (LastOf({"--variable"}))' = LastOf({"--variable"})
  BY SameLine DEF LastOf
<1>17. VariableMakesSense' <=> VariableMakesSense
  BY <1>7, <1>8, <1>13, <1>16 DEF VariableMakesSense
<1>18. (ResultsMakeSense' <=> ResultsMakeSense) /\ (ListMakesSense' <=> ListMakesSense)
  BY <1>8, <1>9, <1>14, <1>15, <1>17 DEF ResultsMakeSense, ListMakesSense
<1> QED
  BY <1>3, <1>4, <1>7, <1>9, <1>10, <1>11, <1>14, <1>15, <1>17, <1>18

\* The end of the options looks like an option.
LEMMA LooksDashes == LooksLikeOption("--")
BY DEF LooksLikeOption

\* A command line is a sequence of strings.
LEMMA LineIs == ASSUME args \in Inputs PROVE args \in Seq(STRING) /\ Len(args) \in Nat
<1>1. args \in Seq(STRING)
  BY InputsAssumption
<1> QED
  BY <1>1

\* What the argument that is read next is.
LEMMA NextRole ==
  ASSUME DriverInv, Reading
  PROVE  /\ index \in 1 .. Len(args) /\ index \in DOMAIN args
         /\ IsOption => Role[index] = "option"
         /\ IsWord => Role[index] = IF dashdash THEN "rest" ELSE "word"
         /\ ~dashdash /\ Arg = "--" => Role[index] = "dashes"
<1>1. ReadSoFar /\ index <= Len(args) /\ args \in Seq(STRING)
  BY LineIs DEF DriverInv, Reading
<1>2. index \in 1 .. Len(args) /\ index \in DOMAIN args
  BY <1>1 DEF ReadSoFar
<1>3. Role[index] = RoleBehind(args, Role[index - 1], index)
  BY <1>1, <1>2, RoleSteps
<1>4. /\ dashdash <=> Role[index - 1] \in {"dashes", "rest"}
      /\ Role[index - 1] = "option" => args[index - 1] \notin Valued
  BY <1>1 DEF ReadSoFar
<1> DEFINE before == Role[index - 1]
           this == Role[index]
<1>5. this = IF dashdash THEN "rest" ELSE IF Arg = "--" THEN "dashes"
             ELSE IF LooksLikeOption(Arg) THEN "option" ELSE "word"
  <2> HIDE DEF before, this
  <2>1. this = RoleBehind(args, before, index)
    BY <1>3, Zenon DEF before, this
  <2>2. /\ dashdash <=> before \in {"dashes", "rest"}
        /\ before = "option" => args[index - 1] \notin Valued
    BY <1>4, Zenon DEF before
  <2> QED
    BY <2>1, <2>2, Zenon DEF RoleBehind, Arg
<1>6. IsOption => this = "option"
  BY <1>5, Zenon DEF IsOption
<1>7. IsWord => this = IF dashdash THEN "rest" ELSE "word"
  BY <1>5, LooksDashes, Zenon DEF IsWord
<1>8. ~dashdash /\ Arg = "--" => this = "dashes"
  BY <1>5, Zenon
<1> HIDE DEF this
<1> QED
  BY <1>2, <1>6, <1>7, <1>8, Zenon DEF this

\* Only an option can be one that the properties speak of.
LEMMA NotGiven ==
  ASSUME NEW i, Role[i] # "option"
  PROVE  i \notin Bad /\ i \notin Returning /\ \A S : i \notin Given(S)
BY DEF Bad, Returning, Given

\* The options read when the one at index, if it is one, has been read as well.
LEMMA MoreGiven ==
  ASSUME DriverInv, Reading, NEW last \in index .. Len(args),
         \A i \in index + 1 .. last : Role[i] # "option"
  PROVE  \A S : /\ SoFar(S, last + 1) <=> SoFar(S, index) \/ index \in Given(S)
                /\ index \in Given(S) => \A i : LastAt(S, last + 1, i) => i = index
                /\ index \notin Given(S) => \A i : LastAt(S, last + 1, i) => LastAt(S, index, i)
<1> TAKE S
<1>1. args \in Seq(STRING) /\ Len(args) \in Nat
  BY LineIs DEF DriverInv
<1>2. index \in 1 .. Len(args) /\ last \in index .. Len(args) /\ last \in Int
  BY <1>1, NextRole
<1> DEFINE M == Len(args)
           G == Given(S)
<1>3. G \subseteq 1 .. M /\ \A i \in G : Role[i] = "option"
  BY <1>1 DEF Given
<1> HIDE DEF M, G
<1>4. \A i \in G : i \in Int /\ i \notin index + 1 .. last
  BY <1>3
<1>5. \A i \in G : i < last + 1 <=> i < index \/ i = index
  BY <1>2, <1>4 DEF M
<1>6. SoFar(S, last + 1) <=> SoFar(S, index) \/ index \in G
  BY <1>5 DEF SoFar, G
<1>7. ASSUME index \in G, NEW i, LastAt(S, last + 1, i) PROVE i = index
  <2>1. i \in G /\ index <= i /\ (i < index \/ i = index)
    BY <1>5, <1>7 DEF LastAt, G
  <2> QED
    BY <1>2, <1>4, <2>1
<1>8. ASSUME index \notin G, NEW i, LastAt(S, last + 1, i) PROVE LastAt(S, index, i)
  BY <1>5, <1>8 DEF LastAt, G
<1> QED
  BY <1>6, <1>7, <1>8 DEF G

\* What an option with its value does to the settings.
Sets(o, v) ==
  /\ DOMAIN set' = DOMAIN set
  /\ set'.silent <=> set.silent \/ o \in Silencing
  /\ set'.tostdout <=> set.tostdout \/ o \in Loud
  /\ ~set'.recursive <=> ~set.recursive \/ o \in Shallow
  /\ set'.ignore_versions <=> set.ignore_versions \/ o \in VersionOptions
  /\ set'.static <=> set.static \/ o \in {"--static"}
  /\ set'.listing <=> set.listing \/ o \in {"--list-all"}
  /\ set'.cflags = IF o \in CflagsOptions THEN FilterOf(o) ELSE set.cflags
  /\ set'.libs = IF o \in LibsOptions THEN FilterOf(o) ELSE set.libs
  /\ set'.op = IF o \in VersionOptions THEN OpOf(o) ELSE set.op
  /\ set'.version = IF o \in VersionOptions THEN Text(v) ELSE set.version
  /\ set'.variable = IF o \in {"--variable"} THEN v ELSE set.variable
  /\ set'.defined <=> set.defined \/ o \in {"--define-variable"}

\* The settings are those of the options read when one more has been read.
LEMMA MoreSettled ==
  ASSUME DriverInv, Reading, args' = args, NEW last \in index .. Len(args), index' = last + 1,
         \A i \in index + 1 .. last : Role[i] # "option",
         NEW o, \A S : index \in Given(S) <=> o \in S,
         index \in Given({o}) => o = OptionOf(args[index]),
         Sets(o, ValueAt(index))
  PROVE  Settled(index)'
<1>1. Settled(index) /\ \A S : (Given(S))' = Given(S)
  BY SameLine DEF DriverInv, ReadSoFar, Reading
<1>2. \A S : /\ SoFar(S, last + 1) <=> SoFar(S, index) \/ index \in Given(S)
             /\ index \in Given(S) => \A i : LastAt(S, last + 1, i) => i = index
             /\ index \notin Given(S) => \A i : LastAt(S, last + 1, i) => LastAt(S, index, i)
  BY MoreGiven
<1>3. \A S : SoFar(S, last + 1) <=> SoFar(S, index) \/ o \in S
  BY <1>2
<1>4. \A S : SoFar(S, index)' <=> SoFar(S, last + 1)
  BY <1>1 DEF SoFar
<1>5. \A S, i : LastAt(S, index, i)' <=> LastAt(S, last + 1, i)
  BY <1>1 DEF LastAt
<1>6. ASSUME NEW S, NEW i, LastAt(S, last + 1, i)
      PROVE  IF o \in S THEN i = index /\ o = OptionOf(args[i]) ELSE LastAt(S, index, i)
  <2>1. o \in S <=> index \in Given(S)
    OBVIOUS
  <2>2. index \in Given({o})
    OBVIOUS
  <2> QED
    BY <1>2, <1>6, <2>1, <2>2
<1>7. Switched(index)'
  <2>1. Switched(index)
    BY <1>1 DEF Settled
  <2>2. \A S : SoFar(S, index)' <=> SoFar(S, index) \/ o \in S
    BY <1>3, <1>4
  <2> QED
    BY <2>1, <2>2, Zenon DEF Switched, Sets
<1>8. Filtered(index)'
  <2>1. Filtered(index)
    BY <1>1 DEF Settled
  <2>2. \A p : FilterOf(p) # "off"
    BY DEF FilterOf
  <2>3. set'.cflags # "off" <=> SoFar(CflagsOptions, index)'
    BY <1>3, <1>4, <2>1, <2>2 DEF Filtered, Sets
  <2>4. set'.libs # "off" <=> SoFar(LibsOptions, index)'
    BY <1>3, <1>4, <2>1, <2>2 DEF Filtered, Sets
  <2>5. ASSUME NEW i \in DOMAIN args, LastAt(CflagsOptions, last + 1, i)
        PROVE  set'.cflags = FilterOf(OptionOf(args[i]))
    BY <1>6, <2>1, <2>5, Zenon DEF Filtered, Sets
  <2>6. ASSUME NEW i \in DOMAIN args, LastAt(LibsOptions, last + 1, i)
        PROVE  set'.libs = FilterOf(OptionOf(args[i]))
    BY <1>6, <2>1, <2>6, Zenon DEF Filtered, Sets
  <2> QED
    BY <1>5, <2>3, <2>4, <2>5, <2>6, Zenon DEF Filtered
<1>9. Versioned(index)'
  <2>1. Versioned(index)
    BY <1>1 DEF Settled
  <2>2. \A p : OpOf(p) # "none"
    BY DEF OpOf
  <2>3. set'.op # "none" <=> SoFar(VersionOptions, index)'
    BY <1>3, <1>4, <2>1, <2>2 DEF Versioned, Sets
  <2>4. ASSUME NEW i \in DOMAIN args, LastAt(VersionOptions, last + 1, i)
        PROVE  set'.op = OpOf(OptionOf(args[i])) /\ set'.version = Text(ValueAt(i))
    BY <1>6, <2>1, <2>4, Zenon DEF Versioned, Sets
  <2>5. \A i : (ValueAt(i))' = ValueAt(i)
    BY SameLine
  <2> QED
    BY <1>5, <2>3, <2>4, <2>5, Zenon DEF Versioned
<1>10. Chosen(index)'
  <2>1. Chosen(index)
    BY <1>1 DEF Settled
  <2>2. ~SoFar({"--variable"}, index)' => set'.variable = "none"
    BY <1>3, <1>4, <2>1 DEF Chosen, Sets
  <2>3. ASSUME NEW i \in DOMAIN args, LastAt({"--variable"}, last + 1, i)
        PROVE  set'.variable = ValueAt(i)
    BY <1>6, <2>1, <2>3, Zenon DEF Chosen, Sets
  <2>4. set'.defined <=> SoFar({"--define-variable"}, index)'
    BY <1>3, <1>4, <2>1, Zenon DEF Chosen, Sets
  <2>5. \A i : (ValueAt(i))' = ValueAt(i)
    BY SameLine
  <2> QED
    BY <1>5, <2>2, <2>3, <2>4, <2>5, Zenon DEF Chosen
<1> QED
  BY <1>7, <1>8, <1>9, <1>10 DEF Settled

\* A step that reads up to last, and an option at index if there is one there, goes on reading.
LEMMA OneMore ==
  ASSUME DriverInv, Reading, args' = args, out' = out,
         NEW last \in index .. Len(args), index' = last + 1,
         \A i \in index .. last : i \notin Bad /\ i \notin Returning,
         Settled(index)', words' = GivenIn(Role, args)[last],
         Role[last] = "option" => args[last] \notin Valued,
         dashdash' <=> Role[last] \in {"dashes", "rest"}
  PROVE  ReadSoFar'
<1>1. ReadSoFar /\ args \in Seq(STRING)
  BY LineIs DEF DriverInv, Reading
<1>2. /\ Len(args) \in Nat /\ index \in 1 .. Len(args) /\ last \in index .. Len(args)
      /\ last \in Int /\ index' - 1 = last /\ index' \in 1 .. Len(args) + 1
  BY <1>1, NextRole
<1>3. Role' = Role /\ Bad' = Bad /\ Returning' = Returning
  BY SameLine
<1>4. ASSUME NEW i \in 1 .. index' - 1 PROVE i \notin Bad /\ i \notin Returning
  <2>1. i \in 1 .. index - 1 \/ i \in index .. last
    BY <1>2
  <2> QED
    BY <1>1, <2>1 DEF ReadSoFar
<1>5. words' = GivenIn(Role, args)'[index' - 1]
  BY <1>2, SameWords
<1>6. out' = <<>>
  BY <1>1 DEF ReadSoFar
<1>7. /\ Role'[index' - 1] = "option" => args'[index' - 1] \notin Valued
      /\ dashdash' <=> Role'[index' - 1] \in {"dashes", "rest"}
  BY <1>2, <1>3
<1>8. index' \in 1 .. Len(args') + 1
  BY <1>2
<1>9. \A i \in 1 .. index' - 1 : i \notin Bad' /\ i \notin Returning'
  BY <1>3, <1>4
<1> QED
  BY <1>5, <1>6, <1>7, <1>8, <1>9 DEF ReadSoFar

\* A step that goes on reading has only to keep what is known of the reading.
LEMMA StillReading ==
  ASSUME DriverInv, phase = "options", phase' = "options", args' = args, message' = message,
         DOMAIN set' = DOMAIN set, ReadSoFar'
  PROVE  DriverInv'
<1>1. FoundSoFar'
  BY DEF FoundSoFar, Results
<1> QED
  BY <1>1 DEF DriverInv, MessageRouted, ExitsRightly

\* The words after one more argument.
LEMMA MoreWords ==
  ASSUME DriverInv, Reading
  PROVE  GivenIn(Role, args)[index] =
           IF Role[index] \in {"word", "rest"} THEN Append(words, args[index]) ELSE words
<1>1. args \in Seq(STRING) /\ words = GivenIn(Role, args)[index - 1]
  BY LineIs DEF DriverInv, Reading, ReadSoFar
<1>2. index \in 1 .. Len(args)
  BY NextRole
<1> QED
  BY <1>1, <1>2, WordSteps

\* What is no option leaves the settings as they are.
LEMMA NothingSet ==
  ASSUME DriverInv, Reading, args' = args, set' = set, index' = index + 1, Role[index] # "option"
  PROVE  Settled(index)'
<1>1. index \in 1 .. Len(args) /\ Settled(index)
  BY NextRole DEF DriverInv, ReadSoFar, Reading
<1>2. index \in index .. Len(args) /\ \A i \in index + 1 .. index : FALSE
  BY <1>1
<1>3. \A S : index \notin Given(S)
  BY NotGiven
<1>4. \A S : (Given(S))' = Given(S)
  BY SameLine
<1>5. \A S : /\ SoFar(S, index + 1) <=> SoFar(S, index) \/ index \in Given(S)
             /\ index \notin Given(S) => \A i : LastAt(S, index + 1, i) => LastAt(S, index, i)
  BY <1>2, MoreGiven
<1>6. \A S : SoFar(S, index)' <=> SoFar(S, index)
  <2>1. \A S : SoFar(S, index)' <=> SoFar(S, index + 1)
    BY <1>4 DEF SoFar
  <2> QED
    BY <1>3, <1>5, <2>1
<1>7. \A S, i : LastAt(S, index, i)' => LastAt(S, index, i)
  <2>1. \A S, i : LastAt(S, index, i)' <=> LastAt(S, index + 1, i)
    BY <1>4 DEF LastAt
  <2> QED
    BY <1>3, <1>5, <2>1
<1>8. \A i : (ValueAt(i))' = ValueAt(i)
  BY SameLine
<1>9. Switched(index)'
  BY <1>1, <1>6, Zenon DEF Settled, Switched
<1>10. Filtered(index)'
  BY <1>1, <1>6, <1>7, Zenon DEF Settled, Filtered
<1>11. Versioned(index)'
  BY <1>1, <1>6, <1>7, <1>8, Zenon DEF Settled, Versioned
<1>12. Chosen(index)'
  BY <1>1, <1>6, <1>7, <1>8, Zenon DEF Settled, Chosen
<1> QED
  BY <1>9, <1>10, <1>11, <1>12 DEF Settled

\* Each step of the reading, and each that ends it, keeps the invariant.
LEMMA WordKept == ASSUME DriverInv, Word PROVE DriverInv'
<1>1. /\ IsWord /\ Reading /\ phase = "options" /\ phase' = phase /\ index' = index + 1
      /\ args' = args /\ out' = out /\ set' = set /\ dashdash' = dashdash /\ message' = message
      /\ words' = Append(words, args[index])
  BY DEF Word, IsWord, Reading, Arg
<1>2. index \in 1 .. Len(args) /\ Role[index] = IF dashdash THEN "rest" ELSE "word"
  BY <1>1, NextRole
<1>3. index \in index .. Len(args) /\ \A i \in index .. index : i = index
  BY <1>2
<1>4. Role[index] # "option"
  BY <1>2
<1>5. index \notin Bad /\ index \notin Returning
  BY <1>4, NotGiven
<1>6. words' = GivenIn(Role, args)[index]
  BY <1>1, <1>2, MoreWords
<1>7. dashdash' <=> Role[index] \in {"dashes", "rest"}
  BY <1>1, <1>2
<1>8. Settled(index)'
  BY <1>1, <1>4, NothingSet
<1>9. ReadSoFar'
  BY <1>1, <1>3, <1>4, <1>5, <1>6, <1>7, <1>8, OneMore
<1> QED
  BY <1>1, <1>9, StillReading

\* The end of the options is one of them.
LEMMA DashDashKept == ASSUME DriverInv, DashDash PROVE DriverInv'
<1>1. /\ Reading /\ phase = "options" /\ phase' = phase /\ index' = index + 1
      /\ args' = args /\ out' = out /\ set' = set /\ dashdash' = TRUE /\ message' = message
      /\ ~dashdash /\ Arg = "--" /\ words' = words
  BY DEF DashDash, Reading
<1>2. index \in 1 .. Len(args) /\ Role[index] = "dashes"
  BY <1>1, NextRole
<1>3. index \in index .. Len(args) /\ \A i \in index .. index : i = index
  BY <1>2
<1>4. Role[index] # "option"
  BY <1>2
<1>5. index \notin Bad /\ index \notin Returning
  BY <1>4, NotGiven
<1>6. words' = GivenIn(Role, args)[index]
  BY <1>1, <1>2, MoreWords
<1>7. dashdash' <=> Role[index] \in {"dashes", "rest"}
  BY <1>1, <1>2
<1>8. Settled(index)'
  BY <1>1, <1>4, NothingSet
<1>9. ReadSoFar'
  BY <1>1, <1>3, <1>4, <1>5, <1>6, <1>7, <1>8, OneMore
<1> QED
  BY <1>1, <1>9, StillReading

\* Which options an option is one of.
LEMMA OptionGiven ==
  ASSUME DriverInv, IsOption
  PROVE  /\ index \in 1 .. Len(args) /\ Role[index] = "option"
         /\ \A S : index \in Given(S) <=> Option \in S
         /\ Option = OptionOf(args[index])
         /\ Lacks(index) <=> Option \in Valued /\ ~HasValue
         /\ HasValue => ValueAt(index) = Value
         /\ Option \in Valued \cup Simple \cup Printing \cup {"--unknown"}
         /\ Option \notin Valued => args[index] \notin Valued
         /\ ~dashdash /\ Reading
<1>1. /\ Reading /\ ~dashdash /\ LooksLikeOption(Arg) /\ Arg # "--"
      /\ Arg = args[index] /\ Option = OptionOf(Arg)
  BY DEF IsOption, Arg, Option
<1>2. index \in 1 .. Len(args) /\ index \in DOMAIN args /\ Role[index] = "option"
  BY <1>1, NextRole
<1>3. \A S : index \in Given(S) <=> Option \in S
  BY <1>1, <1>2 DEF Given
<1>4. Option \in Valued \cup Simple \cup Printing \cup {"--unknown"}
  BY <1>1, Kinds
<1>5. /\ Arg \in DOMAIN Attached => Arg \notin Valued
      /\ Arg \notin DOMAIN Attached => Option = Arg
  BY <1>1, Kinds
<1>6. HasValue <=> Arg \in DOMAIN Attached \/ index # Len(args)
  BY <1>2 DEF HasValue
<1>7. Lacks(index) <=> Option \in Valued /\ ~HasValue
  BY <1>1, <1>5, <1>6 DEF Lacks
<1>8. HasValue => ValueAt(index) = Value
  BY <1>1 DEF ValueAt, Value
<1>9. Option \notin Valued => args[index] \notin Valued
  BY <1>1, <1>5, Kinds
<1> QED
  BY <1>1, <1>2, <1>3, <1>4, <1>7, <1>8, <1>9

\* What simple options do to the settings.
LEMMA SimpleSets ==
  ASSUME SimpleOption, DOMAIN set = DOMAIN NoSettings, NEW v
  PROVE  Sets(Option, v)
<1>1. {"modversion", "recursive", "ignore_versions", "cflags", "libs", "static", "op", "version",
       "silent", "tostdout", "listing", "variable", "defined"} \subseteq DOMAIN set
  BY DEF NoSettings
<1>2. Option \in Simple
  BY DEF SimpleOption
<1> DEFINE o == Option
<1>3. /\ o \in Silencing <=> o \in {"--exists", "--silence-errors", "--validate"}
      /\ o \in Loud <=> o = "--errors-to-stdout"
      /\ o \in Shallow <=> o \in {"--modversion", "--validate"}
      /\ o \notin VersionOptions /\ o \notin {"--variable"} /\ o \notin {"--define-variable"}
  BY <1>2 DEF Simple, Silencing, Loud, Shallow, VersionOptions
<1>4. set' =
       CASE o = "--modversion"        -> [set EXCEPT !.modversion = TRUE, !.recursive = FALSE]
         [] o = "--cflags"            -> [set EXCEPT !.cflags = "any"]
         [] o = "--cflags-only-I"     -> [set EXCEPT !.cflags = "I"]
         [] o = "--cflags-only-other" -> [set EXCEPT !.cflags = "otherc"]
         [] o = "--libs"              -> [set EXCEPT !.libs = "any"]
         [] o = "--libs-only-L"       -> [set EXCEPT !.libs = "L"]
         [] o = "--libs-only-l"       -> [set EXCEPT !.libs = "l"]
         [] o = "--libs-only-other"   -> [set EXCEPT !.libs = "otherl"]
         [] o = "--static"            -> [set EXCEPT !.static = TRUE]
         [] o \in {"--exists", "--silence-errors"} -> [set EXCEPT !.silent = TRUE]
         [] o = "--errors-to-stdout"  -> [set EXCEPT !.tostdout = TRUE]
         [] o = "--print-errors"      -> set
         [] o = "--validate"          -> [set EXCEPT !.silent = TRUE, !.recursive = FALSE]
         [] o = "--list-all"          -> [set EXCEPT !.listing = TRUE]
  BY DEF SimpleOption
<1> HIDE DEF o
<1>5. DOMAIN set' = DOMAIN set
  BY <1>1, <1>2, <1>4 DEF o, Simple
<1>6. set'.silent <=> set.silent \/ o \in {"--exists", "--silence-errors", "--validate"}
  BY <1>1, <1>2, <1>4 DEF o, Simple
<1>7. set'.tostdout <=> set.tostdout \/ o = "--errors-to-stdout"
  BY <1>1, <1>2, <1>4 DEF o, Simple
<1>8. ~set'.recursive <=> ~set.recursive \/ o \in {"--modversion", "--validate"}
  BY <1>1, <1>2, <1>4 DEF o, Simple
<1>9. (set'.ignore_versions <=> set.ignore_versions) /\ set'.op = set.op
      /\ set'.version = set.version
      /\ set'.variable = set.variable /\ (set'.defined <=> set.defined)
  BY <1>1, <1>2, <1>4 DEF o, Simple
<1>10. set'.static <=> set.static \/ o \in {"--static"}
  BY <1>1, <1>2, <1>4 DEF o, Simple
<1>11. set'.listing <=> set.listing \/ o \in {"--list-all"}
  BY <1>1, <1>2, <1>4 DEF o, Simple
<1>12. set'.cflags = IF o \in CflagsOptions THEN FilterOf(o) ELSE set.cflags
  BY <1>1, <1>2, <1>4 DEF o, Simple, CflagsOptions, FilterOf
<1>13. set'.libs = IF o \in LibsOptions THEN FilterOf(o) ELSE set.libs
  BY <1>1, <1>2, <1>4 DEF o, Simple, LibsOptions, FilterOf
<1>14. o = Option
  BY DEF o
<1>15. Sets(o, v)
  BY <1>3, <1>5, <1>6, <1>7, <1>8, <1>9, <1>10, <1>11, <1>12, <1>13, <1>14 DEF Sets
<1> QED
  BY <1>14, <1>15, Zenon

\* An option without a value changes the settings.
LEMMA SimpleOptionKept == ASSUME DriverInv, SimpleOption PROVE DriverInv'
<1>1. /\ IsOption /\ Option \in Simple /\ phase' = phase /\ index' = index + 1 /\ phase = "options"
      /\ args' = args /\ out' = out /\ dashdash' = dashdash /\ message' = message /\ words' = words
  BY DEF SimpleOption, IsOption, Reading
<1>2. /\ index \in 1 .. Len(args) /\ Role[index] = "option"
      /\ \A S : index \in Given(S) <=> Option \in S
      /\ Option = OptionOf(args[index])
      /\ Option \notin Valued => args[index] \notin Valued
      /\ ~dashdash /\ Reading
  BY <1>1, OptionGiven
<1>3. Option \notin Valued /\ Option \notin Printing /\ Option # "--unknown"
  BY <1>1, Kinds
<1>4. /\ index \in index .. Len(args) /\ \A i \in index .. index : i = index
      /\ \A i \in index + 1 .. index : Role[i] # "option"
  BY <1>2
<1>5. index \notin Bad /\ index \notin Returning
  <2>1. "--define-variable" \in Valued /\ "--atleast-pkgconfig-version" \in Valued
    BY DEF Valued
  <2> QED
    BY <1>2, <1>3, <2>1 DEF Bad, Returning
<1>6. words' = GivenIn(Role, args)[index]
  BY <1>1, <1>2, MoreWords
<1>7. dashdash' <=> Role[index] \in {"dashes", "rest"}
  BY <1>1, <1>2
<1>8. Sets(Option, ValueAt(index)) /\ DOMAIN set' = DOMAIN set
  BY SimpleSets DEF DriverInv, Sets
<1>9. Settled(index)'
  BY <1>1, <1>2, <1>4, <1>8, MoreSettled
<1>10. ReadSoFar'
  BY <1>1, <1>2, <1>3, <1>4, <1>5, <1>6, <1>7, <1>9, OneMore
<1> QED
  BY <1>1, <1>8, <1>10, StillReading

\* What options with values do to the settings.
LEMMA ValuedSets ==
  ASSUME ValuedOption, DOMAIN set = DOMAIN NoSettings
  PROVE  Sets(Option, Value)
<1>1. {"recursive", "ignore_versions", "cflags", "libs", "static", "op", "version",
       "silent", "tostdout", "listing", "variable", "defined"} \subseteq DOMAIN set
  BY DEF NoSettings
<1> DEFINE o == Option
           v == Value
           V == {"--variable", "--define-variable", "--atleast-version", "--exact-version",
                 "--max-version"}
<1>2. o \in V
  BY DEF ValuedOption, Valued
<1>3. /\ o \in Silencing <=> o \in VersionOptions
      /\ o \notin Loud /\ o \notin {"--static"} /\ o \notin {"--list-all"}
      /\ o \in Shallow <=> o \in VersionOptions
      /\ o \notin CflagsOptions /\ o \notin LibsOptions
  BY <1>2 DEF Silencing, Loud, Shallow, VersionOptions, CflagsOptions, LibsOptions
<1>4. set' =
       CASE o = "--variable"        -> [set EXCEPT !.variable = v]
         [] o = "--define-variable" -> [set EXCEPT !.defined = TRUE]
         [] o = "--atleast-version" -> [Narrowed(set, ">=") EXCEPT !.version = Text(v)]
         [] o = "--exact-version"   -> [Narrowed(set, "=") EXCEPT !.version = Text(v)]
         [] o = "--max-version"     -> [Narrowed(set, "<=") EXCEPT !.version = Text(v)]
  BY DEF ValuedOption
<1> HIDE DEF o, v
<1>5. DOMAIN set' = DOMAIN set
  BY <1>1, <1>2, <1>4 DEF Narrowed
<1>6. /\ set'.silent <=> set.silent \/ o \in VersionOptions
      /\ ~set'.recursive <=> ~set.recursive \/ o \in VersionOptions
      /\ set'.ignore_versions <=> set.ignore_versions \/ o \in VersionOptions
  BY <1>1, <1>2, <1>4 DEF VersionOptions, Narrowed
<1>7. /\ set'.tostdout <=> set.tostdout
      /\ set'.static <=> set.static
      /\ set'.listing <=> set.listing
      /\ set'.cflags = set.cflags /\ set'.libs = set.libs
  BY <1>1, <1>2, <1>4 DEF Narrowed
<1>8. /\ set'.op = IF o \in VersionOptions THEN OpOf(o) ELSE set.op
      /\ set'.version = IF o \in VersionOptions THEN Text(v) ELSE set.version
  BY <1>1, <1>2, <1>4 DEF VersionOptions, Narrowed, OpOf
<1>9. o = Option /\ v = Value
  BY DEF o, v
<1>11. /\ set'.variable = IF o \in {"--variable"} THEN v ELSE set.variable
       /\ set'.defined <=> set.defined \/ o \in {"--define-variable"}
  BY <1>1, <1>2, <1>4 DEF Narrowed
<1>10. Sets(o, v)
  BY <1>3, <1>5, <1>6, <1>7, <1>8, <1>11 DEF Sets
<1> QED
  BY <1>9, <1>10, Zenon

\* An option with a value does, and its value is no option.
LEMMA ValuedOptionKept == ASSUME DriverInv, ValuedOption PROVE DriverInv'
<1>1. /\ IsOption /\ phase' = phase /\ index' = AfterOpt /\ phase = "options" /\ words' = words
      /\ args' = args /\ out' = out /\ dashdash' = dashdash /\ message' = message
      /\ Option \in Valued \ {"--atleast-pkgconfig-version"} /\ HasValue
      /\ Option = "--define-variable" => Value = "v=1"
  BY DEF ValuedOption, IsOption, Reading
<1>2. /\ index \in 1 .. Len(args) /\ Role[index] = "option"
      /\ \A S : index \in Given(S) <=> Option \in S
      /\ Option = OptionOf(args[index])
      /\ Lacks(index) <=> Option \in Valued /\ ~HasValue
      /\ HasValue => ValueAt(index) = Value
      /\ ~dashdash /\ Reading
  BY <1>1, OptionGiven
<1>3. Option \notin Printing /\ Option # "--unknown" /\ Option \notin Simple
  BY <1>1, Kinds
<1>4. index \notin Bad /\ index \notin Returning
  BY <1>1, <1>2, <1>3 DEF Bad, Returning
<1>5. words = GivenIn(Role, args)[index]
  BY <1>2, MoreWords
<1>6. Sets(Option, ValueAt(index)) /\ DOMAIN set' = DOMAIN set
  BY <1>1, <1>2, ValuedSets DEF DriverInv, Sets
<1>7. CASE Arg \in DOMAIN Attached
  <2>1. index' = index + 1 /\ args[index] \notin Valued
    BY <1>1, <1>7, Kinds DEF AfterOpt, Arg
  <2>2. index \in index .. Len(args) /\ (\A i \in index .. index : i = index)
        /\ \A i \in index + 1 .. index : Role[i] # "option"
    BY <1>2
  <2>3. dashdash' <=> Role[index] \in {"dashes", "rest"}
    BY <1>1, <1>2
  <2>4. Settled(index)'
    BY <1>1, <1>2, <1>6, <2>1, <2>2, MoreSettled
  <2>5. ReadSoFar'
    BY <1>1, <1>2, <1>4, <1>5, <2>1, <2>2, <2>3, <2>4, OneMore
  <2> QED
    BY <1>1, <1>6, <2>5, StillReading
<1>8. CASE Arg \notin DOMAIN Attached
  <2>1. index' = index + 2 /\ args[index] \in Valued /\ index < Len(args)
    BY <1>1, <1>8, Kinds DEF AfterOpt, HasValue, Option, Arg
  <2>2. /\ index + 1 \in index .. Len(args) /\ index + 1 \in 1 .. Len(args)
        /\ \A i \in index .. index + 1 : i = index \/ i = index + 1
        /\ \A i \in index + 1 .. index + 1 : i = index + 1
        /\ (index + 1) - 1 = index /\ index' = (index + 1) + 1
    BY <1>2, <2>1
  <2>3. args \in Seq(STRING)
    BY LineIs DEF DriverInv
  <2>4. Role[index + 1] = "value"
    <3>1. Role[index + 1] = RoleBehind(args, Role[(index + 1) - 1], index + 1)
      BY <2>2, <2>3, RoleSteps
    <3> QED
      BY <1>2, <2>1, <2>2, <3>1 DEF RoleBehind
  <2>5. index + 1 \notin Bad /\ index + 1 \notin Returning
    BY <2>4, NotGiven
  <2>6. dashdash' <=> Role[index + 1] \in {"dashes", "rest"}
    BY <1>1, <1>2, <2>4
  <2>7. /\ \A i \in index .. index + 1 : i \notin Bad /\ i \notin Returning
        /\ \A i \in index + 1 .. index + 1 : Role[i] # "option"
    BY <1>4, <2>2, <2>4, <2>5
  <2>8. words' = GivenIn(Role, args)[index + 1]
    BY <1>1, <1>5, <2>2, <2>3, <2>4, WordSteps
  <2>9. Settled(index)'
    BY <1>1, <1>2, <1>6, <2>2, <2>7, MoreSettled
  <2>10. ReadSoFar'
    BY <1>1, <1>2, <2>2, <2>4, <2>6, <2>7, <2>8, <2>9, OneMore
  <2> QED
    BY <1>1, <1>6, <2>10, StillReading
<1> QED
  BY <1>7, <1>8

\* No option ends the reading both ways.
LEMMA BadOrReturning == Bad \cap Returning = {}
<1> SUFFICES ASSUME NEW i \in Bad, i \in Returning PROVE FALSE
  OBVIOUS
<1> DEFINE o == OptionOf(args[i])
<1>1. \A S : i \in Given(S) => o \in S
  BY DEF Given
<1>2. o \in Printing \/ (o = "--atleast-pkgconfig-version" /\ ~Lacks(i))
  BY <1>1 DEF Returning
<1>3. o = "--unknown" \/ (o \in Valued /\ Lacks(i)) \/ o = "--define-variable"
  BY <1>1 DEF Bad
<1> HIDE DEF o
<1> QED
  BY <1>2, <1>3 DEF Printing, Valued

\* Which exit status is right.
LEMMA RightExits ==
  /\ ~(First(Bad, Returning) /\ First(Returning, Bad))
  /\ First(Bad, Returning) => (ExitsRightly <=> phase # "ok")
  /\ First(Returning, Bad) => (ExitsRightly <=> phase # "fail")
  /\ Bad = {} /\ Returning = {} =>
       (ExitsRightly <=>
          (phase \in {"ok", "fail"} =>
             (phase = "ok" <=>
                IF Asked({"--list-all"}) THEN ListMakesSense ELSE ResultsMakeSense)))
<1>1. Bad \cup Returning = Returning \cup Bad
  OBVIOUS
<1>2. ~(First(Bad, Returning) /\ First(Returning, Bad))
  BY <1>1, BadOrReturning DEF First
<1>3. ASSUME First(Bad, Returning) PROVE ExitsRightly <=> phase # "ok"
  BY <1>2, <1>3 DEF ExitsRightly
<1>4. ASSUME First(Returning, Bad) PROVE ExitsRightly <=> phase # "fail"
  BY <1>2, <1>4 DEF ExitsRightly
<1>5. ASSUME Bad = {}, Returning = {}
      PROVE  ExitsRightly <=>
               (phase \in {"ok", "fail"} =>
                  (phase = "ok" <=>
                     IF Asked({"--list-all"}) THEN ListMakesSense ELSE ResultsMakeSense))
  <2>1. ~First(Bad, Returning) /\ ~First(Returning, Bad)
    BY <1>5 DEF First
  <2> QED
    BY <2>1 DEF ExitsRightly
<1> QED
  BY <1>2, <1>3, <1>4, <1>5

\* The option that ends the reading is the first that does.
LEMMA EndsReading ==
  ASSUME DriverInv, phase = "options", index \in 1 .. Len(args), index \in Bad \cup Returning
  PROVE  Min(Bad \cup Returning) = index
<1>1. /\ args \in Seq(STRING)
      /\ \A i \in 1 .. index - 1 : i \notin Bad /\ i \notin Returning
  BY LineIs DEF DriverInv, ReadSoFar
<1> DEFINE all == Bad \cup Returning
<1>2. all \subseteq 1 .. Len(args)
  BY <1>1 DEF Bad, Returning, Given
<1>3. index \in all /\ \A i \in all : index <= i
  BY <1>1, <1>2
<1> HIDE DEF all
<1>4. \A i \in all : i \in Int
  BY <1>2
<1>5. \A i \in all : (\A j \in all : i <= j) => i = index
  BY <1>3, <1>4
<1>6. Min(all) = index
  BY <1>3, <1>5 DEF Min
<1> QED
  BY <1>6 DEF all

\* The invariant when all is over.
LEMMA Over ==
  ASSUME DriverInv, args' = args, DOMAIN set' = DOMAIN set, phase' \in {"ok", "fail"},
         phase' = "ok" => message' = message /\ message = "none",
         MessageRouted', ExitsRightly'
  PROVE  DriverInv'
<1>1. FoundSoFar'
  BY DEF FoundSoFar, Results
<1>2. phase' \notin {"options"} /\ ~(phase' \notin {"options", "ok", "fail"})
  OBVIOUS
<1> QED
  BY <1>1, <1>2 DEF DriverInv

\* An option that will not do is the first that ends the reading.
LEMMA BadOptionKept == ASSUME DriverInv, BadOption PROVE DriverInv'
<1>1. /\ IsOption /\ phase' = "fail" /\ message' = "stderr" /\ out' = <<>> /\ phase = "options"
      /\ args' = args /\ set' = set
  BY DEF BadOption, FailTo, FailAfter, IsOption, Reading, Parsed
<1>2. /\ index \in 1 .. Len(args)
      /\ \A S : index \in Given(S) <=> Option \in S
      /\ Lacks(index) <=> Option \in Valued /\ ~HasValue
      /\ HasValue => ValueAt(index) = Value
      /\ Option \in Valued \cup Simple \cup Printing \cup {"--unknown"}
  BY <1>1, OptionGiven
<1>3. index \in Bad
  BY <1>2 DEF BadOption, Bad
<1>4. First(Bad, Returning)
  BY <1>1, <1>2, <1>3, EndsReading DEF First
<1>5. First(Bad, Returning)'
  BY <1>1, <1>4, SameLine DEF First
<1>6. MessageRouted'
  BY <1>1, <1>5 DEF MessageRouted
<1>7. ExitsRightly'
  <2>1. (First(Bad, Returning) => (ExitsRightly <=> phase # "ok"))'
    BY RightExits, PTL
  <2> QED
    BY <1>1, <1>5, <2>1
<1> QED
  BY <1>1, <1>6, <1>7, Over

\* So is one that returns at once.
LEMMA ReturnOptionKept == ASSUME DriverInv, ReturnOption PROVE DriverInv'
<1>1. /\ phase' = "ok" /\ message' = message /\ phase = "options" /\ args' = args /\ set' = set
      /\ IsOption
  BY DEF ReturnOption, Proceed, IsOption, Reading, Parsed
<1>2. message = "none"
  BY <1>1 DEF DriverInv
<1>3. /\ index \in 1 .. Len(args)
      /\ \A S : index \in Given(S) <=> Option \in S
      /\ Lacks(index) <=> Option \in Valued /\ ~HasValue
  BY <1>1, OptionGiven
<1>4. index \in Returning
  BY <1>3 DEF ReturnOption, Returning
<1>5. Min(Bad \cup Returning) = index /\ Bad \cup Returning = Returning \cup Bad
  BY <1>1, <1>3, <1>4, EndsReading
<1>6. First(Returning, Bad)
  BY <1>4, <1>5 DEF First
<1>7. First(Returning, Bad)'
  BY <1>1, <1>6, SameLine DEF First
<1>8. MessageRouted'
  BY <1>1, <1>2 DEF MessageRouted
<1>9. ExitsRightly'
  <2>1. (First(Returning, Bad) => (ExitsRightly <=> phase # "fail"))'
    BY RightExits, PTL
  <2> QED
    BY <1>1, <1>7, <2>1
<1> QED
  BY <1>1, <1>2, <1>8, <1>9, Over

\* The settings are those of the whole command line.
LEMMA AllGiven ==
  ASSUME args \in Seq(STRING)
  PROVE  \A S : /\ Given(S) \subseteq 1 .. Len(args)
                /\ SoFar(S, Len(args) + 1) <=> Asked(S)
                /\ \A i : LastAt(S, Len(args) + 1, i) <=>
                            i \in Given(S) /\ \A j \in Given(S) : j <= i
<1> TAKE S
<1>1. Given(S) \subseteq 1 .. Len(args)
  BY DEF Given
<1> DEFINE M == Len(args)
<1>2. M \in Nat
  OBVIOUS
<1> HIDE DEF M
<1>3. \A i \in Given(S) : i < M + 1
  BY <1>1, <1>2 DEF M
<1>4. SoFar(S, M + 1) <=> Asked(S)
  BY <1>3 DEF SoFar, Asked
<1>5. \A i : LastAt(S, M + 1, i) <=> i \in Given(S) /\ \A j \in Given(S) : j <= i
  BY <1>3 DEF LastAt
<1> QED
  BY <1>1, <1>4, <1>5 DEF M

\* What the settings are does not change with them and the command line.
LEMMA SettledKept ==
  ASSUME args' = args, set' = set
  PROVE  Settled(Len(args) + 1) => Settled(Len(args) + 1)'
<1> SUFFICES ASSUME Settled(Len(args) + 1) PROVE Settled(Len(args) + 1)'
  OBVIOUS
<1>1. \A S : (Given(S))' = Given(S)
  BY SameLine
<1>2. \A i : (ValueAt(i))' = ValueAt(i)
  BY SameLine
<1>3. \A S : SoFar(S, Len(args) + 1)' <=> SoFar(S, Len(args) + 1)
  BY <1>1 DEF SoFar
<1>4. \A S, i : LastAt(S, Len(args) + 1, i)' <=> LastAt(S, Len(args) + 1, i)
  BY <1>1 DEF LastAt
<1>5. Switched(Len(args) + 1)'
  BY <1>3, Zenon DEF Settled, Switched
<1>6. Filtered(Len(args) + 1)'
  BY <1>3, <1>4, Zenon DEF Settled, Filtered
<1>7. Versioned(Len(args) + 1)'
  BY <1>2, <1>3, <1>4, Zenon DEF Settled, Versioned
<1>8. Chosen(Len(args) + 1)'
  BY <1>2, <1>3, <1>4, Zenon DEF Settled, Chosen
<1> QED
  BY <1>5, <1>6, <1>7, <1>8 DEF Settled

\* When all are read, none of them was bad and the settings are those of the whole line.
LEMMA EndOfOptionsKept == ASSUME DriverInv, EndOfOptions PROVE DriverInv'
<1>1. /\ phase' = "route" /\ message' = message /\ phase = "options" /\ args' = args /\ set' = set
      /\ out' = out /\ index > Len(args) /\ words' = words
  BY DEF EndOfOptions, Proceed, Parsed
<1>2. ReadSoFar /\ args \in Seq(STRING) /\ message = "none"
  BY <1>1, LineIs DEF DriverInv
<1>3. index \in 1 .. Len(args) + 1 /\ Len(args) \in Nat /\ ~(index <= Len(args))
  BY <1>1, <1>2 DEF ReadSoFar
<1>4. index - 1 = Len(args) /\ index = Len(args) + 1
  BY <1>3
<1>5. \A S : Given(S) \subseteq 1 .. Len(args)
  BY <1>2 DEF Given
<1>6. Bad = {} /\ Returning = {}
  <2>1. Bad \subseteq 1 .. Len(args) /\ Returning \subseteq 1 .. Len(args)
    BY <1>5 DEF Bad, Returning
  <2> QED
    BY <1>2, <1>4, <2>1 DEF ReadSoFar
<1>7. Settled(Len(args) + 1)'
  <2>1. Settled(Len(args) + 1)
    BY <1>2, <1>4 DEF ReadSoFar
  <2> QED
    BY <1>1, <2>1, SettledKept
<1>8. words' = WordsGiven'
  BY <1>1, <1>2, <1>4, GivenIs, SameWords DEF ReadSoFar
<1>9. Bad' = {} /\ Returning' = {} /\ out' = <<>>
  BY <1>1, <1>2, <1>6, SameLine DEF ReadSoFar
<1>10. AllRead'
  BY <1>1, <1>7, <1>8, <1>9 DEF AllRead
<1>11. MessageRouted' /\ ExitsRightly' /\ FoundSoFar'
  BY <1>1 DEF MessageRouted, ExitsRightly, FoundSoFar, Results
<1> QED
  BY <1>1, <1>2, <1>10, <1>11 DEF DriverInv

\* What comes after the options leaves the command line and the settings alone.
LEMMA AllReadKept ==
  ASSUME AllRead, args' = args, set' = set, words' = words, phase' # "route",
         err' = Routed, ~Asked({"--list-all"})
  PROVE  AllRead'
<1>1. Routed' = Routed
  BY DEF Routed
<1>2. Settled(Len(args) + 1)'
  BY SettledKept DEF AllRead
<1>3. words' = WordsGiven'
  BY SameWords DEF AllRead
<1>4. Bad' = {} /\ Returning' = {} /\ ~Asked({"--list-all"})'
  BY SameLine DEF AllRead
<1> QED
  BY <1>1, <1>2, <1>3, <1>4 DEF AllRead

\* A failure behind the options has its message where they ask for it.
LEMMA FailsWhereAsked ==
  ASSUME AllRead, args \in Seq(STRING), args' = args, NEW printed, FailAfter(printed, Routed)
  PROVE  phase' = "fail" /\ MessageRouted'
<1>1. phase' = "fail" /\ message' = Routed /\ out' = IF Routed = "stdout" THEN printed ELSE <<>>
  BY DEF FailAfter
<1>2. \A S : SoFar(S, Len(args) + 1) <=> Asked(S)
  BY AllGiven
<1>3. Routed = IF Asked(Silencing) THEN "null" ELSE IF Asked(Loud) THEN "stdout" ELSE "stderr"
  BY <1>2 DEF Routed, AllRead, Settled, Switched
<1>4. /\ Asked(Silencing)' <=> Asked(Silencing)
      /\ Asked(Loud)' <=> Asked(Loud)
      /\ Bad' = {}
  BY SameLine DEF AllRead
<1>5. ~First(Bad, Returning)'
  BY <1>4 DEF First
<1>6. MessageRouted'
  BY <1>1, <1>3, <1>4, <1>5 DEF MessageRouted, Loud
<1> QED
  BY <1>1, <1>6

\* Every description that is listed expands if they make sense.
LEMMA ListsRightly ==
  ASSUME AllRead, args \in Seq(STRING)
  PROVE  (\A n \in DOMAIN Repo : Describes(n)) <=> ListMakesSense
<1>1. set.defined <=> Asked({"--define-variable"})
  BY AllGiven DEF AllRead, Settled, Chosen
<1> QED
  BY <1>1, Zenon DEF Describes, ListMakesSense

\* Where messages go is settled from what the whole command line asks for.
LEMMA RouteKept == ASSUME DriverInv, Route PROVE DriverInv'
<1>1. /\ phase = "route" /\ err' = Routed /\ args' = args /\ set' = set /\ words' = words
  BY DEF Route, Parsed
<1>2. AllRead /\ message = "none" /\ args \in Seq(STRING)
  BY <1>1, LineIs DEF DriverInv
<1>3. set.listing <=> Asked({"--list-all"})
  BY <1>2, AllGiven DEF AllRead, Settled, Switched
<1>4. (\A n \in DOMAIN Repo : Describes(n)) <=> ListMakesSense
  BY <1>2, ListsRightly
<1>5. ASSUME Asked({"--list-all"}), phase' \in {"ok", "fail"}, phase' = "ok" <=> ListMakesSense
      PROVE  ExitsRightly'
  <2>1. Asked({"--list-all"})' /\ Bad' = {} /\ Returning' = {}
    BY <1>1, <1>2, <1>5, SameLine DEF AllRead
  <2>2. (Bad = {} /\ Returning = {} =>
          (ExitsRightly <=>
          (phase \in {"ok", "fail"} =>
             (phase = "ok" <=>
                IF Asked({"--list-all"}) THEN ListMakesSense ELSE ResultsMakeSense))))'
    BY RightExits, PTL
  <2>3. ListMakesSense' <=> ListMakesSense
    BY <1>1, SameWords
  <2> QED
    BY <1>5, <2>1, <2>2, <2>3
<1>6. CASE set.listing /\ ListMakesSense
  <2>1. phase' = "ok" /\ message' = message
    BY <1>4, <1>6 DEF Route, Proceed
  <2>2. MessageRouted'
    BY <1>2, <2>1 DEF MessageRouted
  <2>3. ExitsRightly'
    BY <1>3, <1>5, <1>6, <2>1
  <2> QED
    BY <1>1, <1>2, <2>1, <2>2, <2>3, Over
<1>7. CASE set.listing /\ ~ListMakesSense
  <2>1. FailAfter(<<Token("text", "list")>>, Routed)
    BY <1>4, <1>7 DEF Route
  <2>2. phase' = "fail" /\ MessageRouted'
    BY <1>1, <1>2, <2>1, FailsWhereAsked
  <2>3. ExitsRightly'
    BY <1>3, <1>5, <1>7, <2>2
  <2> QED
    BY <1>1, <2>2, <2>3, Over
<1>8. CASE ~set.listing
  <2>1. phase' = "resolve" /\ message' = message
    BY <1>8 DEF Route, Proceed
  <2>2. AllRead'
    BY <1>1, <1>2, <1>3, <1>8, <2>1, AllReadKept
  <2>3. MessageRouted' /\ ExitsRightly' /\ FoundSoFar'
    BY <2>1 DEF MessageRouted, ExitsRightly, FoundSoFar, Results
  <2> QED
    BY <1>1, <1>2, <2>1, <2>2, <2>3 DEF DriverInv
<1> QED
  BY <1>6, <1>7, <1>8

\* What follows routing goes on to what is next, or fails where messages go.
Going == {"resolve", "override", "modversion", "variable", "cflags", "libs", "newline"}

\* What is known when a phase of this kind begins.
LEMMA GoingKnows ==
  ASSUME DriverInv, phase \in Going
  PROVE  /\ AllRead /\ message = "none" /\ args \in Seq(STRING) /\ err = Routed
         /\ ~Asked({"--list-all"}) /\ FoundSoFar
         /\ \A S : SoFar(S, Len(args) + 1) <=> Asked(S)
<1>1. phase \notin {"options", "ok", "fail", "route"}
  BY DEF Going
<1>2. AllRead /\ message = "none" /\ args \in Seq(STRING) /\ FoundSoFar
  BY <1>1, LineIs DEF DriverInv
<1>3. err = Routed /\ ~Asked({"--list-all"})
  BY <1>1, <1>2 DEF AllRead
<1>4. \A S : SoFar(S, Len(args) + 1) <=> Asked(S)
  BY <1>2, AllGiven
<1> QED
  BY <1>2, <1>3, <1>4

\* A step to the next phase keeps what is known if it finds out what is known there.
LEMMA GoesOn ==
  ASSUME DriverInv, phase \in Going, args' = args, set' = set, words' = words, err' = err,
         message' = message, phase' \in Going, FoundSoFar'
  PROVE  DriverInv'
<1>1. phase' \notin {"options", "ok", "fail", "route"}
  BY DEF Going
<1>2. AllRead /\ err = Routed /\ ~Asked({"--list-all"}) /\ message = "none"
  BY GoingKnows
<1>3. AllRead'
  BY <1>1, <1>2, AllReadKept
<1>4. MessageRouted' /\ ExitsRightly'
  BY <1>1 DEF MessageRouted, ExitsRightly
<1> QED
  BY <1>1, <1>2, <1>3, <1>4 DEF DriverInv

\* Which exit status is right behind the options.
LEMMA RightEnds ==
  ASSUME DriverInv, phase \in Going, args' = args
  PROVE  ExitsRightly' <=>
           (phase' \in {"ok", "fail"} =>
              (phase' = "ok" <=> ResultsMakeSense))
<1>1. (Bad = {} /\ Returning = {} =>
        (ExitsRightly <=>
        (phase \in {"ok", "fail"} =>
           (phase = "ok" <=>
              IF Asked({"--list-all"}) THEN ListMakesSense ELSE ResultsMakeSense))))'
  BY RightExits, PTL
<1>2. AllRead /\ ~Asked({"--list-all"})
  BY GoingKnows
<1>3. Bad' = {} /\ Returning' = {} /\ ~Asked({"--list-all"})'
  BY <1>2, SameLine DEF AllRead
<1>4. ResultsMakeSense' <=> ResultsMakeSense
  BY SameWords
<1> QED
  BY <1>1, <1>3, <1>4

\* A failure is right if something makes no sense.
LEMMA FailsRightly ==
  ASSUME DriverInv, phase \in Going, args' = args, set' = set,
         NEW printed, FailAfter(printed, err), ~ResultsMakeSense
  PROVE  DriverInv'
<1>1. AllRead /\ args \in Seq(STRING) /\ err = Routed
  BY GoingKnows
<1>2. phase' = "fail" /\ MessageRouted'
  BY <1>1, FailsWhereAsked
<1>3. ExitsRightly'
  BY <1>2, RightEnds
<1> QED
  BY <1>2, <1>3, Over

\* Fields make sense if those of both kinds do.
LEMMA FieldsAre == FieldsMakeSense <=> CflagsMakeSense /\ LibsMakeSense
BY DEF FieldsMakeSense, CflagsMakeSense, LibsMakeSense

\* What has been found out about the packages stays true.
LEMMA FoundKept ==
  ASSUME args' = args, pkgs' = pkgs, direct' = direct, public' = public
  PROVE  /\ PackagesFound' <=> PackagesFound
         /\ VersionsMakeSense' <=> VersionsMakeSense
         /\ VariableMakesSense' <=> VariableMakesSense
         /\ CflagsMakeSense' <=> CflagsMakeSense
         /\ LibsMakeSense' <=> LibsMakeSense
<1>1. /\ WordsMakeSense' <=> WordsMakeSense
      /\ Named' = Named /\ Needed' = Needed /\ NeededPublicly' = NeededPublicly
  BY SameWords
<1>2. PackagesFound' <=> PackagesFound
  BY <1>1 DEF PackagesFound
<1> QED
  BY <1>2, SameWords

-----------------------------------------------------------------------------
(***************************************************************************)
(* Versions are compared in the order Before.                              *)
(***************************************************************************)
LEMMA ComparesHold ==
  ASSUME NEW v \in Seq(Byte), NEW w \in Seq(Byte), NEW o \in Operator
  PROVE  validcompare(o, compareversions(v, w)) <=> Holds(o, v, w)
<1> DEFINE c == compareversions(v, w)
<1>1. /\ c \in {-1, 0, 1}
      /\ c = 0 <=> v = w
      /\ c = -1 <=> Before(v, w)
      /\ c = 1 <=> Before(w, v)
  BY VersionOrderCorrect
<1> HIDE DEF c
<1>2. CASE o = "<"
  <2>1. validcompare(o, c) <=> c = -1
    BY <1>1, <1>2 DEF validcompare
  <2>2. Holds(o, v, w) <=> Before(v, w)
    BY <1>2 DEF Holds
  <2> QED
    BY <1>1, <2>1, <2>2 DEF c
<1>3. CASE o = "<="
  <2>1. validcompare(o, c) <=> c = -1 \/ c = 0
    BY <1>1, <1>3 DEF validcompare
  <2>2. Holds(o, v, w) <=> Before(v, w) \/ v = w
    BY <1>3 DEF Holds
  <2> QED
    BY <1>1, <2>1, <2>2 DEF c
<1>4. CASE o = "="
  <2>1. validcompare(o, c) <=> c = 0
    BY <1>1, <1>4 DEF validcompare
  <2>2. Holds(o, v, w) <=> v = w
    BY <1>4 DEF Holds
  <2> QED
    BY <1>1, <2>1, <2>2 DEF c
<1>5. CASE o = ">="
  <2>1. validcompare(o, c) <=> c = 0 \/ c = 1
    BY <1>1, <1>5 DEF validcompare
  <2>2. Holds(o, v, w) <=> v = w \/ Before(w, v)
    BY <1>5 DEF Holds
  <2> QED
    BY <1>1, <2>1, <2>2 DEF c
<1>6. CASE o = ">"
  <2>1. validcompare(o, c) <=> c = 1
    BY <1>1, <1>6 DEF validcompare
  <2>2. Holds(o, v, w) <=> Before(w, v)
    BY <1>6 DEF Holds
  <2> QED
    BY <1>1, <2>1, <2>2 DEF c
<1> QED
  BY <1>2, <1>3, <1>4, <1>5, <1>6 DEF Operator

\* The texts that are compared are sequences of bytes.
LEMMA TextsAre ==
  /\ \A line \in Inputs : \A i \in DOMAIN line : Text(line[i]) \in Seq(Byte)
  /\ \A o \in DOMAIN Attached : Text(Attached[o][2]) \in Seq(Byte)
  /\ \A n \in DOMAIN Repo : Repo[n].version \in Seq(Byte)
<1>1. \A n \in DOMAIN Repo : Repo[n].version \in Seq(0 .. 255)
  BY RepoAssumption DEF Package
<1> QED
  BY <1>1, TextAssumption, Zenon DEF Byte

\* The packages that are needed are all there, those needed publicly among them.
LEMMA NeededIs ==
  ASSUME Named \subseteq DOMAIN Repo
  PROVE  Needed \subseteq DOMAIN Repo /\ NeededPublicly \subseteq Needed
<1>1. /\ Requires \in [DOMAIN Repo -> SUBSET DOMAIN Repo]
      /\ AllNeeds \in [DOMAIN Repo -> SUBSET DOMAIN Repo]
      /\ \A n \in DOMAIN Repo : Requires[n] \subseteq AllNeeds[n]
  BY RepoAssumption DEF Package, Requires, AllNeeds
<1>2. Closure(Named, AllNeeds) \subseteq DOMAIN Repo
  BY <1>1, ClosureIn
<1>3. Closure(Named, Requires) \subseteq Closure(Named, AllNeeds)
  BY <1>1, ClosureGrows
<1> QED
  BY <1>2, <1>3 DEF Needed, NeededPublicly

-----------------------------------------------------------------------------
(***************************************************************************)
(* Resolution succeeds for the words that make sense.                      *)
(***************************************************************************)
\* What Resolve asks of the words.
Resolvable(w, ignore) ==
  LET specs == parsespecs(w).specs
      named == {specs[i].name : i \in DOMAIN specs}
  IN  /\ parsespecs(w).ok
      /\ named # {}
      /\ named \subseteq DOMAIN Repo
      /\ \A i \in DOMAIN specs :
           specs[i].op = "none" \/ ignore
             \/ validcompare(specs[i].op,
                             compareversions(Repo[specs[i].name].version, specs[i].version))

\* The words that are operators, names and versions.
LEMMA WordsAre ==
  ASSUME args \in Inputs
  PROVE  /\ Len(WordsGiven) \in Nat /\ DOMAIN WordsGiven = 1 .. Len(WordsGiven)
         /\ IsVersion = VersionsOf(WordsGiven)
         /\ OpsGiven = OpsIn(WordsGiven)
         /\ Named = {WordsGiven[i] : i \in NamesIn(WordsGiven)}
         /\ \A i \in DOMAIN WordsGiven : Text(WordsGiven[i]) \in Seq(Byte)
<1> DEFINE w == WordsGiven
           R == {args[j] : j \in 1 .. Len(args)}
<1>1. args \in Seq(STRING) /\ Len(args) \in 0 .. Len(args)
  BY LineIs
<1>2. w \in Seq(R)
  BY <1>1, GivenIs, WordSteps
<1>3. \A t \in R : Text(t) \in Seq(Byte)
  BY <1>1, TextsAre
<1> HIDE DEF R, w
<1>4. Len(w) \in Nat /\ DOMAIN w = 1 .. Len(w) /\ \A i \in DOMAIN w : w[i] \in R
  BY <1>2
<1>5. IsVersion = VersionsOf(w)
  BY IsVersionIs DEF w
<1>6. OpsGiven = OpsIn(w)
  BY <1>4, <1>5 DEF OpsGiven, OpsIn, OpAt, w
<1>7. {j \in DOMAIN w : ~IsVersion[j]} \ OpsGiven = NamesIn(w)
  BY <1>4, <1>5 DEF OpsGiven, NamesIn, NameAt, w
<1>8. Named = {w[i] : i \in NamesIn(w)}
  BY <1>7 DEF Named, w
<1> QED
  BY <1>3, <1>4, <1>5, <1>6, <1>8 DEF w

\* An operator between a name and a version stands behind a name.
LEMMA NameBefore ==
  ASSUME NEW w, Len(w) \in Nat, NEW i \in OpsIn(w), 1 < i, ~VersionsOf(w)[i-1]
  PROVE  i - 1 \in NamesIn(w) /\ w[i] \in Operator
<1> DEFINE v == VersionsOf(w)
<1>1. i \in 1 .. Len(w) /\ ~v[i] /\ w[i] \in Operator
  BY DEF OpsIn, OpAt
<1>2. v[i] = (i > 1 /\ ~v[i-1] /\ w[i-1] \in Operator)
  BY <1>1, VersionSteps
<1> HIDE DEF v
<1>3. ~v[i-1]
  BY DEF v
<1>4. w[i-1] \notin Operator
  BY <1>1, <1>2, <1>3
<1>5. i - 1 \in 1 .. Len(w)
  BY <1>1
<1> QED
  BY <1>1, <1>3, <1>4, <1>5 DEF NamesIn, NameAt, v

\* Words resolve if they make sense, versions by their order.
LEMMA ResolvesRightly ==
  ASSUME args \in Inputs, NEW ignore, ignore <=> Asked(VersionOptions)
  PROVE  Resolvable(WordsGiven, ignore) <=> WordsMakeSense
<1> DEFINE w == WordsGiven
           specs == parsespecs(w).specs
           named == {specs[i].name : i \in DOMAIN specs}
<1>1. /\ Len(w) \in Nat /\ DOMAIN w = 1 .. Len(w)
      /\ IsVersion = VersionsOf(w) /\ OpsGiven = OpsIn(w)
      /\ Named = {w[i] : i \in NamesIn(w)}
      /\ \A i \in DOMAIN w : Text(w[i]) \in Seq(Byte)
  BY WordsAre
<1>2. parsespecs(w).ok <=> \A i \in OpsGiven : 1 < i /\ i < Len(w) /\ ~IsVersion[i-1]
  BY <1>1, WordsParse
<1>3. ASSUME parsespecs(w).ok
      PROVE  /\ named = Named
             /\ \A k \in DOMAIN specs : specs[k].op # "none" =>
                  \E i \in OpsIn(w) : specs[k] = Constrained(w, i)
             /\ \A i \in OpsIn(w) : \E k \in DOMAIN specs : specs[k] = Constrained(w, i)
  BY <1>1, <1>3, SpecsSay
<1> DEFINE checks == \A i \in DOMAIN specs :
             specs[i].op = "none" \/ ignore
             \/ validcompare(specs[i].op,
                             compareversions(Repo[specs[i].name].version, specs[i].version))
           meant == Asked(VersionOptions) \/
             \A i \in OpsGiven : Holds(w[i], Repo[w[i-1]].version, Text(w[i+1]))
<1> HIDE DEF w, specs
<1>4. ASSUME parsespecs(w).ok, Named \subseteq DOMAIN Repo
      PROVE  checks <=> meant
  <2>1. ASSUME NEW i \in OpsGiven
        PROVE  /\ Constrained(w, i).name = w[i-1] /\ Constrained(w, i).op = w[i]
               /\ Constrained(w, i).version = Text(w[i+1]) /\ w[i] # "none"
               /\ validcompare(w[i], compareversions(Repo[w[i-1]].version, Text(w[i+1]))) <=>
                    Holds(w[i], Repo[w[i-1]].version, Text(w[i+1]))
    <3>1. 1 < i /\ i < Len(w) /\ ~VersionsOf(w)[i-1] /\ i \in OpsIn(w) /\ i \in 1 .. Len(w)
      BY <1>1, <1>2, <1>4 DEF OpsIn
    <3>2. i - 1 \in NamesIn(w) /\ w[i] \in Operator
      BY <1>1, <3>1, NameBefore
    <3>3. w[i-1] \in DOMAIN Repo
      BY <1>1, <1>4, <3>2
    <3>4. Repo[w[i-1]].version \in Seq(Byte)
      BY <3>3, TextsAre
    <3>5. i + 1 \in DOMAIN w
      BY <1>1, <3>1
    <3>6. Text(w[i+1]) \in Seq(Byte)
      BY <1>1, <3>5
    <3>7. w[i] # "none"
      BY <3>2 DEF Operator
    <3>8. validcompare(w[i], compareversions(Repo[w[i-1]].version, Text(w[i+1]))) <=>
            Holds(w[i], Repo[w[i-1]].version, Text(w[i+1]))
      BY <3>2, <3>4, <3>6, ComparesHold
    <3> QED
      BY <3>7, <3>8 DEF Constrained
  <2>2. ASSUME checks, ~ignore, NEW i \in OpsGiven
        PROVE  Holds(w[i], Repo[w[i-1]].version, Text(w[i+1]))
    <3>1. PICK k \in DOMAIN specs : specs[k] = Constrained(w, i)
      BY <1>1, <1>3, <1>4
    <3>2. /\ specs[k].name = w[i-1] /\ specs[k].op = w[i] /\ specs[k].version = Text(w[i+1])
          /\ specs[k].op # "none"
      BY <2>1, <3>1
    <3>3. validcompare(specs[k].op,
                       compareversions(Repo[specs[k].name].version, specs[k].version))
      BY <2>2, <3>2
    <3>4. validcompare(w[i], compareversions(Repo[w[i-1]].version, Text(w[i+1])))
      BY <3>2, <3>3
    <3> QED
      BY <2>1, <3>4
  <2>3. ASSUME meant, ~ignore, NEW k \in DOMAIN specs, specs[k].op # "none"
        PROVE  validcompare(specs[k].op,
                            compareversions(Repo[specs[k].name].version, specs[k].version))
    <3>1. PICK i \in OpsGiven : specs[k] = Constrained(w, i)
      BY <1>1, <1>3, <1>4, <2>3
    <3>2. specs[k].name = w[i-1] /\ specs[k].op = w[i] /\ specs[k].version = Text(w[i+1])
      BY <2>1, <3>1
    <3>3. Holds(w[i], Repo[w[i-1]].version, Text(w[i+1]))
      BY <2>3
    <3>4. validcompare(w[i], compareversions(Repo[w[i-1]].version, Text(w[i+1])))
      BY <2>1, <3>3
    <3> QED
      BY <3>2, <3>4
  <2> QED
    BY <2>2, <2>3
<1>5. Resolvable(w, ignore) <=>
        parsespecs(w).ok /\ named # {} /\ named \subseteq DOMAIN Repo /\ checks
  BY DEF Resolvable, specs
<1>6. WordsMakeSense <=>
        /\ \A i \in OpsGiven : 1 < i /\ i < Len(w) /\ ~IsVersion[i-1]
        /\ Named # {} /\ Named \subseteq DOMAIN Repo /\ meant
  BY DEF WordsMakeSense, w
<1> HIDE DEF named, checks, meant
<1>7. Resolvable(w, ignore) <=> WordsMakeSense
  BY <1>2, <1>3, <1>4, <1>5, <1>6
<1> QED
  BY <1>7 DEF w

\* Resolution finds the packages needed, or fails rightly.
LEMMA ResolveKept == ASSUME DriverInv, Resolve PROVE DriverInv'
<1> DEFINE w == WordsGiven
           specs == parsespecs(w).specs
           named == {specs[i].name : i \in DOMAIN specs}
<1>1. phase = "resolve" /\ args' = args /\ set' = set /\ words' = words /\ err' = err
  BY DEF Resolve, Parsed
<1>2. phase \in Going /\ "override" \in Going
  BY <1>1 DEF Going
<1>3. /\ AllRead /\ \A S : SoFar(S, Len(args) + 1) <=> Asked(S)
      /\ args \in Inputs
  BY <1>2, GoingKnows DEF DriverInv
<1>4. words = w /\ Settled(Len(args) + 1)
  BY <1>3 DEF AllRead
<1>5. set.ignore_versions <=> Asked(VersionOptions)
  BY <1>3, <1>4 DEF Settled, Switched
<1>6. Resolvable(w, set.ignore_versions) <=> WordsMakeSense
  BY <1>3, <1>5, ResolvesRightly
<1>7. CASE Resolvable(w, set.ignore_versions)
  <2>1. /\ pkgs' \in Orders(IF set.recursive THEN Closure(named, AllNeeds) ELSE named)
        /\ public' = IF set.recursive THEN Closure(named, Requires) ELSE named
        /\ direct' = named
        /\ phase' = "override" /\ message' = message
    BY <1>4, <1>7 DEF Resolve, Resolvable, Proceed
  <2>2. named = Named
    <3>1. Named = {w[i] : i \in NamesIn(w)} /\ Len(w) \in Nat
      BY <1>3, WordsAre
    <3> QED
      BY <1>7, <3>1, SpecsSay DEF Resolvable
  <2>3. set.recursive <=> Deep
    <3>1. Shallow = VersionOptions \cup {"--modversion", "--validate"}
      BY DEF Shallow
    <3>2. ~set.recursive <=> Asked(Shallow)
      BY <1>3, <1>4 DEF Settled, Switched
    <3> QED
      BY <3>1, <3>2 DEF Deep
  <2> HIDE DEF named
  <2>4. pkgs' \in Orders(Needed) /\ public' = NeededPublicly /\ direct' = Named
    BY <2>1, <2>2, <2>3 DEF Needed, NeededPublicly
  <2>5. WordsMakeSense /\ Needed \subseteq DOMAIN Repo
    BY <1>6, <1>7, NeededIs DEF WordsMakeSense
  <2>6. pkgs' \in Seq(Needed) /\ {pkgs'[i] : i \in DOMAIN pkgs'} = Needed
    BY <2>4, <2>5, OrderHasAll
  <2>7. PackagesFound'
    <3>1. (WordsMakeSense' <=> WordsMakeSense) /\ Named' = Named /\ Needed' = Needed
          /\ NeededPublicly' = NeededPublicly
      BY <1>1, SameWords
    <3> QED
      BY <2>4, <2>5, <2>6, <3>1 DEF PackagesFound
  <2>8. FoundSoFar'
    BY <2>1, <2>7 DEF FoundSoFar, Results
  <2> QED
    BY <1>1, <1>2, <2>1, <2>8, GoesOn
<1>8. CASE ~Resolvable(w, set.ignore_versions)
  <2>1. FailAfter(out, err)
    BY <1>4, <1>8 DEF Resolve, Resolvable, FailTo
  <2> QED
    BY <1>1, <1>2, <1>6, <1>8, <2>1, FailsRightly DEF ResultsMakeSense
<1> QED
  BY <1>7, <1>8

\* A set of some numbers up to another has a greatest one.
LEMMA MaxIs ==
  ASSUME NEW M \in Nat, NEW S, S \subseteq 1 .. M, S # {}
  PROVE  Max(S) \in S /\ \A i \in S : i <= Max(S)
<1> DEFINE T == {k \in Nat : \A i \in S : i <= k}
<1>1. T \subseteq Nat /\ M \in T
  OBVIOUS
<1> HIDE DEF T
<1>2. PICK m \in T : \A k \in T : m <= k
  BY <1>1, LeastNatural
<1>3. m \in Nat /\ \A i \in S : i <= m
  BY <1>2 DEF T
<1>4. m \in S
  <2> SUFFICES ASSUME m \notin S PROVE FALSE
    OBVIOUS
  <2>1. \A i \in S : i \in Int /\ i # m /\ i > 0
    OBVIOUS
  <2>2. \A i \in S : i <= m - 1
    BY <1>3, <2>1
  <2>3. m - 1 \in Nat
    <3>1. PICK i \in S : TRUE
      OBVIOUS
    <3>2. i \in Int /\ i # m /\ i > 0 /\ i <= m
      BY <1>3, <2>1, <3>1
    <3> QED
      BY <1>3, <3>2
  <2>4. m - 1 \in T
    BY <2>2, <2>3 DEF T
  <2> QED
    BY <1>2, <1>3, <2>4
<1>5. \E x \in S : \A y \in S : x >= y
  BY <1>3, <1>4
<1>6. Max(S) \in S /\ \A y \in S : Max(S) >= y
  BY <1>5 DEF Max
<1> QED
  BY <1>6

\* The version that is asked for last is the one to compare with.
LEMMA OverrideSettles ==
  ASSUME args \in Inputs, AllRead, Asked(VersionOptions)
  PROVE  LET last == LastOf(VersionOptions)
         IN  /\ set.op = OpOf(OptionOf(args[last])) /\ set.version = Text(ValueAt(last))
             /\ set.op \in Operator /\ set.version \in Seq(Byte)
             /\ OptionOf(args[last]) \in VersionOptions
<1> DEFINE last == LastOf(VersionOptions)
           M == Len(args)
<1>1. args \in Seq(STRING) /\ M \in Nat
  BY LineIs
<1>2. Given(VersionOptions) \subseteq 1 .. M /\ Given(VersionOptions) # {}
  BY <1>1, AllGiven DEF Asked
<1>3. last \in Given(VersionOptions) /\ \A j \in Given(VersionOptions) : j <= last
  BY <1>1, <1>2, MaxIs DEF LastOf
<1> HIDE DEF last
<1>4. LastAt(VersionOptions, M + 1, last)
  BY <1>1, <1>3, AllGiven
<1>5. last \in DOMAIN args /\ OptionOf(args[last]) \in VersionOptions
  BY <1>3 DEF Given
<1>6. set.op = OpOf(OptionOf(args[last])) /\ set.version = Text(ValueAt(last))
  BY <1>4, <1>5 DEF AllRead, Settled, Versioned
<1>7. set.op \in Operator
  BY <1>6 DEF OpOf, Operator
<1>8. Text(ValueAt(last)) \in Seq(Byte)
  <2>1. CASE args[last] \in DOMAIN Attached
    BY <2>1, TextsAre DEF ValueAt
  <2>2. CASE args[last] \notin DOMAIN Attached
    <3>1. args[last] \in VersionOptions /\ VersionOptions \subseteq Valued
      BY <1>5, <2>2, Kinds DEF VersionOptions, Valued
    <3>2. last \in Given(Valued)
      BY <1>3, <3>1, <1>5 DEF Given
    <3>3. last # M
      BY <3>1, <3>2 DEF AllRead, Bad, Lacks
    <3>4. last + 1 \in DOMAIN args
      BY <1>1, <1>5, <3>3
    <3> QED
      BY <2>2, <3>4, TextsAre DEF ValueAt
  <2> QED
    BY <2>1, <2>2
<1> QED
  BY <1>5, <1>6, <1>7, <1>8 DEF last

\* Override goes on if the packages have the version asked for.
LEMMA OverridesRightly ==
  ASSUME args \in Inputs, AllRead, PackagesFound
  PROVE  (set.op = "none" \/
          \A i \in DOMAIN pkgs :
            validcompare(set.op, compareversions(Repo[pkgs[i]].version, set.version)))
           <=> VersionsMakeSense
<1>1. set.op # "none" <=> Asked(VersionOptions)
  BY LineIs, AllGiven DEF AllRead, Settled, Versioned
<1>2. ASSUME Asked(VersionOptions)
      PROVE  (\A i \in DOMAIN pkgs :
               validcompare(set.op, compareversions(Repo[pkgs[i]].version, set.version)))
             <=> VersionsMakeSense
  <2> DEFINE last == LastOf(VersionOptions)
             o    == OptionOf(args[last])
  <2>1. /\ set.op = OpOf(o) /\ set.version = Text(ValueAt(last))
        /\ set.op \in Operator /\ set.version \in Seq(Byte) /\ o \in VersionOptions
    BY <1>2, OverrideSettles
  <2>2. Needed \subseteq DOMAIN Repo
    BY NeededIs DEF PackagesFound, WordsMakeSense
  <2>3. VersionsMakeSense <=>
          \A n \in Needed :
            Holds(CASE o = "--atleast-version" -> ">="
                    [] o = "--exact-version"   -> "="
                    [] o = "--max-version"     -> "<=", Repo[n].version, Text(ValueAt(last)))
    BY <1>2, Zenon DEF VersionsMakeSense
  <2> HIDE DEF o, last
  <2>4. OpOf(o) = CASE o = "--atleast-version" -> ">="
                    [] o = "--exact-version"   -> "="
                    [] o = "--max-version"     -> "<="
    BY <2>1 DEF OpOf, VersionOptions
  <2>5. VersionsMakeSense <=> \A n \in Needed : Holds(set.op, Repo[n].version, set.version)
    BY <2>1, <2>3, <2>4, Zenon
  <2>6. \A n \in Needed :
          validcompare(set.op, compareversions(Repo[n].version, set.version))
            <=> Holds(set.op, Repo[n].version, set.version)
    BY <2>1, <2>2, TextsAre, ComparesHold
  <2>7. \A n : n \in Needed <=> \E i \in DOMAIN pkgs : pkgs[i] = n
    BY DEF PackagesFound
  <2> QED
    BY <2>5, <2>6, <2>7, Zenon
<1> QED
  BY <1>1, <1>2 DEF VersionsMakeSense

\* So does the comparison with the version asked for.
LEMMA OverrideKept == ASSUME DriverInv, Override PROVE DriverInv'
<1>1. /\ phase = "override" /\ args' = args /\ set' = set /\ words' = words /\ err' = err
      /\ pkgs' = pkgs /\ direct' = direct /\ public' = public
  BY DEF Override, Parsed, Resolved
<1>2. phase \in Going /\ "modversion" \in Going
  BY <1>1 DEF Going
<1>3. AllRead /\ PackagesFound /\ args \in Inputs
  BY <1>1, <1>2, GoingKnows DEF DriverInv, FoundSoFar, Results
<1> DEFINE right == set.op = "none" \/
             \A i \in DOMAIN pkgs :
               validcompare(set.op, compareversions(Repo[pkgs[i]].version, set.version))
<1>4. right <=> VersionsMakeSense
  BY <1>3, OverridesRightly
<1>5. CASE right
  <2>1. phase' = "modversion" /\ message' = message
    BY <1>5 DEF Override, Proceed
  <2>2. PackagesFound' /\ VersionsMakeSense'
    BY <1>1, <1>3, <1>4, <1>5, FoundKept
  <2>3. FoundSoFar'
    BY <2>1, <2>2 DEF FoundSoFar, Results
  <2> QED
    BY <1>1, <1>2, <2>1, <2>3, GoesOn
<1>6. CASE ~right
  <2>1. FailAfter(out, err)
    BY <1>6 DEF Override, FailTo
  <2> QED
    BY <1>1, <1>2, <1>4, <1>6, <2>1, FailsRightly DEF ResultsMakeSense
<1> QED
  BY <1>5, <1>6

\* Printing versions finds out nothing.
LEMMA PrintVersionsKept == ASSUME DriverInv, PrintVersions PROVE DriverInv'
<1>1. /\ phase = "modversion" /\ args' = args /\ set' = set /\ words' = words /\ err' = err
      /\ pkgs' = pkgs /\ direct' = direct /\ public' = public
      /\ phase' = "variable" /\ message' = message
  BY DEF PrintVersions, Parsed, Resolved, Proceed
<1>2. phase \in Going /\ "variable" \in Going
  BY <1>1 DEF Going
<1>3. PackagesFound' /\ VersionsMakeSense'
  BY <1>1, <1>2, GoingKnows, FoundKept DEF FoundSoFar, Results
<1>4. FoundSoFar'
  BY <1>1, <1>3 DEF FoundSoFar, Results
<1> QED
  BY <1>1, <1>2, <1>4, GoesOn

\* The values expand that are printed if the variable makes sense.
LEMMA VariableRightly ==
  ASSUME args \in Inputs, AllRead, PackagesFound
  PROVE  (\A n \in direct : ~Unexpandable(n)) <=> VariableMakesSense
<1> DEFINE M == Len(args)
           last == LastOf({"--variable"})
<1>1. args \in Seq(STRING) /\ M \in Nat /\ direct = Named
  BY LineIs DEF PackagesFound
<1>2. set.defined <=> Asked({"--define-variable"})
  BY <1>1, AllGiven DEF AllRead, Settled, Chosen
<1>3. CASE ~Asked({"--variable"})
  <2>1. set.variable = "none"
    BY <1>1, <1>3, AllGiven DEF AllRead, Settled, Chosen
  <2> QED
    BY <1>3, <2>1 DEF Unexpandable, VariableMakesSense
<1>4. CASE Asked({"--variable"})
  <2>1. Given({"--variable"}) \subseteq 1 .. M /\ Given({"--variable"}) # {}
    BY <1>1, <1>4, AllGiven DEF Asked
  <2>2. last \in Given({"--variable"}) /\ \A j \in Given({"--variable"}) : j <= last
    BY <1>1, <2>1, MaxIs DEF LastOf
  <2> HIDE DEF last
  <2>3. LastAt({"--variable"}, M + 1, last) /\ last \in DOMAIN args
    BY <1>1, <2>2, AllGiven DEF Given
  <2>4. set.variable = ValueAt(last)
    BY <2>3 DEF AllRead, Settled, Chosen
  <2> QED
    BY <1>1, <1>2, <1>4, <2>4, Zenon DEF Unexpandable, VariableMakesSense, last
<1> QED
  BY <1>3, <1>4

\* The variable is printed, or the failure is right.
LEMMA PrintVariableKept == ASSUME DriverInv, PrintVariable PROVE DriverInv'
<1>1. /\ phase = "variable" /\ args' = args /\ set' = set /\ words' = words /\ err' = err
      /\ pkgs' = pkgs /\ direct' = direct /\ public' = public
  BY DEF PrintVariable, Parsed, Resolved
<1>2. phase \in Going /\ "cflags" \in Going
  BY <1>1 DEF Going
<1>3. AllRead /\ PackagesFound /\ args \in Inputs /\ VersionsMakeSense
  BY <1>1, <1>2, GoingKnows DEF DriverInv, FoundSoFar, Results
<1>4. (\A n \in direct : ~Unexpandable(n)) <=> VariableMakesSense
  BY <1>3, VariableRightly
<1>5. CASE VariableMakesSense
  <2>1. phase' = "cflags" /\ message' = message
    BY <1>4, <1>5 DEF PrintVariable, Proceed
  <2>2. PackagesFound' /\ VersionsMakeSense' /\ VariableMakesSense'
    BY <1>1, <1>3, <1>5, FoundKept
  <2>3. FoundSoFar'
    BY <2>1, <2>2 DEF FoundSoFar, Results
  <2> QED
    BY <1>1, <1>2, <2>1, <2>3, GoesOn
<1>6. CASE ~VariableMakesSense
  <2>1. \E printed : FailAfter(printed, err)
    BY <1>4, <1>6 DEF PrintVariable
  <2> QED
    BY <1>1, <1>2, <1>6, <2>1, FailsRightly DEF ResultsMakeSense
<1> QED
  BY <1>5, <1>6

\* The fields that are written are those that have to make sense.
LEMMA CflagsRightly ==
  ASSUME args \in Inputs, AllRead, PackagesFound
  PROVE  (set.cflags = "off" \/ \A i \in DOMAIN pkgs : CflagsOf(pkgs[i]).ok)
           <=> CflagsMakeSense
<1>1. /\ set.cflags # "off" <=> Asked(CflagsOptions)
      /\ set.static <=> Static
  BY LineIs, AllGiven DEF AllRead, Settled, Filtered, Switched, Static
<1>2. \A n : n \in Needed <=> \E i \in DOMAIN pkgs : pkgs[i] = n
  BY DEF PackagesFound
<1>3. \A n : CflagsOf(n).ok <=> Repo[n].cflags.ok /\ (Static => Repo[n].cflagsprivate.ok)
  BY <1>1 DEF CflagsOf, Both, NoField
<1> QED
  BY <1>1, <1>2, <1>3, Zenon DEF CflagsMakeSense

\* Without --static the libraries needed publicly have to.
LEMMA LibsRightly ==
  ASSUME args \in Inputs, AllRead, PackagesFound
  PROVE  (set.libs = "off" \/ \A i \in DOMAIN pkgs : LibsOf(pkgs[i]).ok)
           <=> LibsMakeSense
<1>1. /\ set.libs # "off" <=> Asked(LibsOptions)
      /\ set.static <=> Static
  BY LineIs, AllGiven DEF AllRead, Settled, Filtered, Switched, Static
<1>2. \A n : n \in Needed <=> \E i \in DOMAIN pkgs : pkgs[i] = n
  BY DEF PackagesFound
<1>3. public = NeededPublicly /\ NeededPublicly \subseteq Needed
  BY NeededIs DEF PackagesFound, WordsMakeSense
<1>4. \A n : LibsOf(n).ok <=> IF Static THEN Repo[n].libs.ok /\ Repo[n].libsprivate.ok
                              ELSE n \in NeededPublicly => Repo[n].libs.ok
  BY <1>1, <1>3 DEF LibsOf, Both, NoField
<1>5. (\A i \in DOMAIN pkgs : LibsOf(pkgs[i]).ok) <=>
        \A n \in Needed : IF Static THEN Repo[n].libs.ok /\ Repo[n].libsprivate.ok
                          ELSE n \in NeededPublicly => Repo[n].libs.ok
  BY <1>2, <1>4, Zenon
<1>6. CASE Static
  BY <1>1, <1>5, <1>6, Zenon DEF LibsMakeSense
<1>7. CASE ~Static
  BY <1>1, <1>3, <1>5, <1>7 DEF LibsMakeSense
<1> QED
  BY <1>6, <1>7

\* Where the writing of fields leads.
LEMMA WritesGo ==
  ASSUME NEW fields, NEW filter, NEW next, WriteFields(fields, filter, next)
  PROVE  IF \A i \in DOMAIN fields : fields[i].ok
         THEN phase' = next /\ message' = message ELSE FailAfter(out, err)
BY DEF WriteFields, Proceed, FailTo

\* The flags of the compiler are written, or the failure is right.
LEMMA CflagsKept == ASSUME DriverInv, Cflags PROVE DriverInv'
<1>1. /\ phase = "cflags" /\ args' = args /\ set' = set /\ words' = words /\ err' = err
      /\ pkgs' = pkgs /\ direct' = direct /\ public' = public
  BY DEF Cflags, Parsed, Resolved
<1>2. phase \in Going /\ "libs" \in Going
  BY <1>1 DEF Going
<1>3. /\ AllRead /\ PackagesFound /\ args \in Inputs
      /\ VersionsMakeSense /\ VariableMakesSense
  BY <1>1, <1>2, GoingKnows DEF DriverInv, FoundSoFar, Results
<1> DEFINE right == set.cflags = "off" \/ \A i \in DOMAIN pkgs : CflagsOf(pkgs[i]).ok
<1>4. right <=> CflagsMakeSense
  BY <1>3, CflagsRightly
<1>5. IF right THEN phase' = "libs" /\ message' = message ELSE FailAfter(out, err)
  <2> DEFINE fields == [i \in DOMAIN pkgs |-> CflagsOf(pkgs[i])]
  <2>1. (\A i \in DOMAIN fields : fields[i].ok) <=> \A i \in DOMAIN pkgs : CflagsOf(pkgs[i]).ok
    OBVIOUS
  <2> HIDE DEF fields
  <2>2. IF set.cflags = "off" THEN phase' = "libs" /\ message' = message
        ELSE WriteFields(fields, set.cflags, "libs")
    BY DEF Cflags, Proceed, fields
  <2> QED
    BY <2>1, <2>2, WritesGo
<1>6. CASE right
  <2>1. phase' = "libs" /\ message' = message
    BY <1>5, <1>6
  <2>2. PackagesFound' /\ VersionsMakeSense' /\ VariableMakesSense' /\ CflagsMakeSense'
    BY <1>1, <1>3, <1>4, <1>6, FoundKept
  <2>3. FoundSoFar'
    BY <2>1, <2>2 DEF FoundSoFar, Results
  <2> QED
    BY <1>1, <1>2, <2>1, <2>3, GoesOn
<1>7. CASE ~right
  <2>1. FailAfter(out, err) /\ ~ResultsMakeSense
    BY <1>4, <1>5, <1>7, FieldsAre DEF ResultsMakeSense
  <2> QED
    BY <1>1, <1>2, <2>1, FailsRightly
<1> QED
  BY <1>6, <1>7

\* So are those of the linker.
LEMMA LibsKept == ASSUME DriverInv, Libs PROVE DriverInv'
<1>1. /\ phase = "libs" /\ args' = args /\ set' = set /\ words' = words /\ err' = err
      /\ pkgs' = pkgs /\ direct' = direct /\ public' = public
  BY DEF Libs, Parsed, Resolved
<1>2. phase \in Going /\ "newline" \in Going
  BY <1>1 DEF Going
<1>3. /\ AllRead /\ PackagesFound /\ args \in Inputs
      /\ VersionsMakeSense /\ VariableMakesSense /\ CflagsMakeSense
  BY <1>1, <1>2, GoingKnows DEF DriverInv, FoundSoFar, Results
<1> DEFINE right == set.libs = "off" \/ \A i \in DOMAIN pkgs : LibsOf(pkgs[i]).ok
<1>4. right <=> LibsMakeSense
  BY <1>3, LibsRightly
<1>5. IF right THEN phase' = "newline" /\ message' = message ELSE FailAfter(out, err)
  <2> DEFINE fields == [i \in DOMAIN pkgs |-> LibsOf(pkgs[i])]
  <2>1. (\A i \in DOMAIN fields : fields[i].ok) <=> \A i \in DOMAIN pkgs : LibsOf(pkgs[i]).ok
    OBVIOUS
  <2> HIDE DEF fields
  <2>2. IF set.libs = "off" THEN phase' = "newline" /\ message' = message
        ELSE WriteFields(fields, set.libs, "newline")
    BY DEF Libs, Proceed, fields
  <2> QED
    BY <2>1, <2>2, WritesGo
<1>6. CASE right
  <2>1. phase' = "newline" /\ message' = message
    BY <1>5, <1>6
  <2>2. /\ PackagesFound' /\ VersionsMakeSense' /\ VariableMakesSense'
        /\ CflagsMakeSense' /\ LibsMakeSense'
    BY <1>1, <1>3, <1>4, <1>6, FoundKept
  <2>3. FoundSoFar'
    BY <2>1, <2>2 DEF FoundSoFar, Results
  <2> QED
    BY <1>1, <1>2, <2>1, <2>3, GoesOn
<1>7. CASE ~right
  <2>1. FailAfter(out, err) /\ ~ResultsMakeSense
    BY <1>4, <1>5, <1>7, FieldsAre DEF ResultsMakeSense
  <2> QED
    BY <1>1, <1>2, <2>1, FailsRightly
<1> QED
  BY <1>6, <1>7

\* The end is reached when all has been found to make sense.
LEMMA EndOfOutputKept == ASSUME DriverInv, EndOfOutput PROVE DriverInv'
<1>1. /\ phase = "newline" /\ args' = args /\ set' = set /\ phase' = "ok" /\ message' = message
  BY DEF EndOfOutput, Parsed, Proceed
<1>2. phase \in Going
  BY <1>1 DEF Going
<1>3. ResultsMakeSense /\ message = "none"
  BY <1>1, <1>2, GoingKnows, FieldsAre
     DEF FoundSoFar, PackagesFound, Results, ResultsMakeSense
<1>4. ExitsRightly'
  BY <1>1, <1>2, <1>3, RightEnds
<1>5. MessageRouted'
  BY <1>1, <1>3 DEF MessageRouted
<1> QED
  BY <1>1, <1>3, <1>4, <1>5, Over

\* Nothing is read at the start.
LEMMA InitDriver == Init => DriverInv
<1> SUFFICES ASSUME Init PROVE DriverInv
  OBVIOUS
<1>1. /\ args \in Inputs /\ index = 1 /\ dashdash = FALSE /\ set = NoSettings
      /\ phase = "options" /\ message = "none" /\ out = <<>> /\ words = <<>>
  BY DEF Init
<1>2. args \in Seq(STRING) /\ Len(args) \in Nat
  BY <1>1, LineIs
<1>3. Role[0] = "program" /\ GivenIn(Role, args)[0] = <<>>
  BY <1>2, RoleSteps, WordSteps
<1>4. index \in 1 .. Len(args) + 1 /\ index - 1 = 0 /\ \A i \in 1 .. index - 1 : FALSE
  BY <1>1, <1>2
<1>5. \A S : ~SoFar(S, index) /\ \A i : ~LastAt(S, index, i)
  <2>1. \A S : Given(S) \subseteq 1 .. Len(args)
    BY <1>2 DEF Given
  <2> QED
    BY <1>1, <2>1 DEF SoFar, LastAt
<1>6. Settled(index)
  BY <1>1, <1>5 DEF Settled, Switched, Filtered, Versioned, Chosen, NoSettings
<1>7. ReadSoFar
  BY <1>1, <1>3, <1>4, <1>6 DEF ReadSoFar
<1>8. MessageRouted /\ ExitsRightly /\ FoundSoFar
  BY <1>1 DEF MessageRouted, ExitsRightly, FoundSoFar, Results
<1> QED
  BY <1>1, <1>7, <1>8 DEF DriverInv

\* Nothing changes when the program has stopped.
LEMMA SameKept == ASSUME DriverInv, UNCHANGED vars PROVE DriverInv'
<1>1. /\ args' = args /\ index' = index /\ dashdash' = dashdash /\ set' = set /\ err' = err
      /\ words' = words /\ pkgs' = pkgs /\ direct' = direct /\ public' = public
      /\ out' = out /\ message' = message /\ phase' = phase
  BY DEF vars
<1>2. /\ Role' = Role /\ Bad' = Bad /\ Returning' = Returning
      /\ \A S : (Given(S))' = Given(S)
      /\ \A S : (Asked(S))' <=> Asked(S)
      /\ \A i : (ValueAt(i))' = ValueAt(i)
  BY <1>1, SameLine
<1>3. GivenIn(Role, args)' = GivenIn(Role, args) /\ WordsGiven' = WordsGiven
      /\ (ListMakesSense' <=> ListMakesSense) /\ (ResultsMakeSense' <=> ResultsMakeSense)
  BY <1>1, SameWords
<1>4. ReadSoFar => ReadSoFar'
  <2> SUFFICES ASSUME ReadSoFar PROVE ReadSoFar'
    OBVIOUS
  <2>1. \A S : SoFar(S, index)' <=> SoFar(S, index)
    BY <1>1, <1>2 DEF SoFar
  <2>2. \A S, i : LastAt(S, index, i)' <=> LastAt(S, index, i)
    BY <1>1, <1>2 DEF LastAt
  <2>3. Settled(index)
    BY DEF ReadSoFar
  <2>4. Switched(index)'
    BY <1>1, <2>1, <2>3, Zenon DEF Settled, Switched
  <2>5. Filtered(index)'
    BY <1>1, <2>1, <2>2, <2>3, Zenon DEF Settled, Filtered
  <2>6. Versioned(index)'
    BY <1>1, <1>2, <2>1, <2>2, <2>3, Zenon DEF Settled, Versioned
  <2>8. Chosen(index)'
    BY <1>1, <1>2, <2>1, <2>2, <2>3, Zenon DEF Settled, Chosen
  <2>7. Settled(index)'
    BY <2>4, <2>5, <2>6, <2>8 DEF Settled
  <2> QED
    BY <1>1, <1>2, <1>3, <2>7 DEF ReadSoFar
<1>5. AllRead => AllRead'
  <2>1. Settled(Len(args) + 1) => Settled(Len(args) + 1)'
    BY <1>1, SettledKept
  <2> QED
    BY <1>1, <1>2, <1>3, <2>1 DEF AllRead, Routed
<1>6. FoundSoFar'
  BY <1>1, FoundKept DEF DriverInv, FoundSoFar
<1>7. First(Bad, Returning)' <=> First(Bad, Returning)
  BY <1>2 DEF First
<1>8. First(Returning, Bad)' <=> First(Returning, Bad)
  BY <1>2 DEF First
<1>9. MessageRouted'
  BY <1>1, <1>2, <1>7 DEF DriverInv, MessageRouted
<1>10. ExitsRightly'
  BY <1>1, <1>2, <1>3, <1>7, <1>8 DEF DriverInv, ExitsRightly
<1> QED
  BY <1>1, <1>4, <1>5, <1>6, <1>9, <1>10 DEF DriverInv

\* Every step keeps the invariant.
LEMMA NextDriver == DriverInv /\ [Next]_vars => DriverInv'
<1> SUFFICES ASSUME DriverInv, [Next]_vars PROVE DriverInv'
  OBVIOUS
<1>1. CASE UNCHANGED vars
  BY <1>1, SameKept
<1>2. CASE Stopped
  BY <1>1, <1>2 DEF Stopped
<1> QED
  BY <1>1, <1>2, WordKept, DashDashKept, SimpleOptionKept, ValuedOptionKept, BadOptionKept,
     ReturnOptionKept, EndOfOptionsKept, RouteKept, ResolveKept, OverrideKept, PrintVersionsKept,
     PrintVariableKept, CflagsKept, LibsKept, EndOfOutputKept DEF Next

(***************************************************************************)
(* Wherever an option is on the command line, it decides where messages    *)
(* go, those of bad options excepted; there is no message in a success,    *)
(* and no output in a failure that is reported elsewhere.                  *)
(***************************************************************************)
THEOREM MessageRoutedCorrect == Spec => []MessageRouted
<1>1. DriverInv => MessageRouted
  BY DEF DriverInv
<1> QED
  BY <1>1, InitDriver, NextDriver, PTL DEF Spec

(***************************************************************************)
(* The exit status says whether the command line makes sense, the packages *)
(* and what they need are there in the versions asked for, by the order    *)
(* Before, and what is to be printed can be expanded and parsed.           *)
(***************************************************************************)
THEOREM ExitsRightlyCorrect == Spec => []ExitsRightly
<1>1. DriverInv => ExitsRightly
  BY DEF DriverInv
<1> QED
  BY <1>1, InitDriver, NextDriver, PTL DEF Spec

-----------------------------------------------------------------------------
(***************************************************************************)
(* Sequences that are joined, and what is picked from one.                 *)
(***************************************************************************)
JoinsAt(f, parts, i) == IF i = 1 THEN parts[i] ELSE f[i-1] \o parts[i]
Joins(f, parts, n)   == f = [i \in 1 .. n |-> JoinsAt(f, parts, i)]
Joined(parts)        == CHOOSE f : Joins(f, parts, Len(parts))

\* What is joined is the last of the sequences that the parts make, one after the other.
LEMMA JoinedIs ==
  ASSUME NEW parts, Len(parts) # 0
  PROVE  FlattenSeq(parts) = Joined(parts)[Len(parts)]
BY DEF FlattenSeq, Joined, Joins, JoinsAt

\* These sequences, from the one without any part on.
Flattens(f, parts) ==
  /\ f[0] = <<>> /\ f[Len(parts)] = FlattenSeq(parts)
  /\ \A i \in 1 .. Len(parts) : f[i] = f[i-1] \o parts[i]

\* There are these sequences.
LEMMA FlattenSteps ==
  ASSUME NEW X, NEW parts \in Seq(Seq(X))
  PROVE  \E f \in [0 .. Len(parts) -> Seq(X)] : Flattens(f, parts)
<1> DEFINE M == Len(parts)
           Y == Seq(X)
           step == [p \in Y \X (1 .. M) |-> p[1] \o parts[p[2]]]
<1>1. M \in Nat /\ <<>> \in Y /\ \A i \in 1 .. M : parts[i] \in Seq(X)
  OBVIOUS
<1>2. step \in [Y \X (1 .. M) -> Y]
  <2>1. \A p \in Y \X (1 .. M) : p[1] \in Seq(X) /\ parts[p[2]] \in Seq(X)
    BY <1>1
  <2>2. \A p \in Y \X (1 .. M) : p[1] \o parts[p[2]] \in Seq(X)
    BY <2>1
  <2> QED
    BY <2>2
<1>3. PICK f \in [0 .. M -> Y] : Follows(f, <<>>, step, M)
  <2> HIDE DEF step, Y, M
  <2> QED
    BY <1>1, <1>2, FollowsExist
<1> HIDE DEF M
<1>4. f[0] = <<>>
  BY <1>1, <1>3 DEF Follows
<1>5. ASSUME NEW i \in 1 .. M PROVE f[i] = f[i-1] \o parts[i] /\ f[i] \in Seq(X)
  <2>1. i \in 0 .. M /\ i - 1 \in 0 .. M /\ i # 0
    BY <1>1
  <2>2. f[i] = step[<<f[i-1], i>>]
    BY <1>3, <2>1 DEF Follows
  <2>3. <<f[i-1], i>> \in Y \X (1 .. M)
    BY <1>3, <2>1
  <2> QED
    BY <1>3, <2>1, <2>2, <2>3
<1>6. f[M] = FlattenSeq(parts)
  <2>1. CASE M = 0
    <3>1. parts = <<>>
      BY <2>1 DEF M
    <3> QED
      BY <1>4, <2>1, <3>1 DEF FlattenSeq
  <2>2. CASE M # 0
    <3> DEFINE h == [i \in 1 .. M |-> f[i]]
               g == Joined(parts)
    <3>1. ASSUME NEW i \in 1 .. M PROVE h[i] = JoinsAt(h, parts, i)
      <4>1. h[i] = f[i-1] \o parts[i]
        BY <1>5
      <4>2. CASE i = 1
        <5>1. f[i-1] = <<>> /\ parts[i] \in Seq(X)
          BY <1>1, <1>4, <4>2
        <5>2. <<>> \o parts[i] = parts[i]
          BY <5>1
        <5> QED
          BY <4>1, <4>2, <5>1, <5>2 DEF JoinsAt
      <4>3. CASE i # 1
        <5>1. i - 1 \in 1 .. M
          BY <1>1, <4>3
        <5>2. h[i-1] = f[i-1]
          BY <5>1
        <5> QED
          BY <4>1, <4>3, <5>2 DEF JoinsAt
      <4> QED
        BY <4>2, <4>3
    <3>2. h = [i \in 1 .. M |-> h[i]]
      OBVIOUS
    <3> HIDE DEF h
    <3>3. Joins(h, parts, M)
      BY <3>1, <3>2, Zenon DEF Joins
    <3>4. Joins(g, parts, M)
      BY <3>3, Zenon DEF Joined, M
    <3> HIDE DEF g
    <3>5. \A i \in 1 .. M : g[i] = JoinsAt(g, parts, i)
      BY <3>4, Zenon DEF Joins
    <3> DEFINE T == {i \in 0 .. M : i # 0 => g[i] = f[i]}
    <3>6. 0 \in T
      BY <1>1
    <3>7. ASSUME NEW n \in 0 .. M - 1, n \in T PROVE n + 1 \in T
      <4>1. n + 1 \in 1 .. M /\ n + 1 \in 0 .. M /\ (n + 1) - 1 = n
        BY <1>1
      <4>2. g[n+1] = JoinsAt(g, parts, n + 1) /\ f[n+1] = f[n] \o parts[n+1]
        BY <1>5, <3>5, <4>1
      <4>3. CASE n = 0
        <5>1. f[n] = <<>> /\ parts[n+1] \in Seq(X)
          BY <1>1, <1>4, <4>1, <4>3
        <5>2. <<>> \o parts[n+1] = parts[n+1]
          BY <5>1
        <5>3. n + 1 = 1
          BY <4>3
        <5>4. g[n+1] = parts[n+1]
          BY <4>2, <5>3 DEF JoinsAt
        <5> QED
          BY <4>1, <4>2, <5>1, <5>2, <5>4
      <4>4. CASE n # 0
        <5>1. g[n] = f[n] /\ n + 1 # 1
          BY <3>7, <4>4
        <5> QED
          BY <4>1, <4>2, <5>1 DEF JoinsAt
      <4> QED
        BY <4>3, <4>4
    <3> HIDE DEF T
    <3>8. \A n \in 0 .. M : n \in T
      BY <1>1, <3>6, <3>7, UpTo
    <3>9. g[M] = f[M]
      BY <1>1, <2>2, <3>8 DEF T
    <3> QED
      BY <2>2, <3>9, JoinedIs DEF g, M
  <2> QED
    BY <2>1, <2>2
<1> QED
  BY <1>3, <1>4, <1>5, <1>6 DEF Flattens, M

\* One part more is joined to the ones before it.
LEMMA FlattenAppend ==
  ASSUME NEW X, NEW parts \in Seq(Seq(X)), NEW last \in Seq(X)
  PROVE  /\ FlattenSeq(Append(parts, last)) = FlattenSeq(parts) \o last
         /\ FlattenSeq(parts) \in Seq(X) /\ FlattenSeq(<<>>) = <<>>
<1> DEFINE more == Append(parts, last)
           M == Len(parts)
<1>1. /\ M \in Nat /\ more \in Seq(Seq(X)) /\ Len(more) = M + 1
      /\ (\A i \in 1 .. M : more[i] = parts[i]) /\ more[M + 1] = last
  OBVIOUS
<1>2. PICK f \in [0 .. M -> Seq(X)] : Flattens(f, parts)
  BY FlattenSteps
<1>3. PICK h \in [0 .. Len(more) -> Seq(X)] : Flattens(h, more)
  BY <1>1, FlattenSteps
<1> HIDE DEF more, M
<1> DEFINE T == {i \in 0 .. M : f[i] = h[i]}
<1>4. 0 \in T
  BY <1>1, <1>2, <1>3 DEF Flattens
<1>5. ASSUME NEW n \in 0 .. M - 1, n \in T PROVE n + 1 \in T
  <2>1. n + 1 \in 1 .. M /\ n + 1 \in 1 .. M + 1 /\ n + 1 \in 0 .. M /\ (n + 1) - 1 = n
    BY <1>1
  <2>2. f[n+1] = f[n] \o parts[n+1]
    BY <1>2, <2>1 DEF Flattens, M
  <2>3. h[n+1] = h[n] \o more[n+1]
    BY <1>1, <1>3, <2>1 DEF Flattens
  <2> QED
    BY <1>1, <1>5, <2>1, <2>2, <2>3
<1> HIDE DEF T
<1>6. \A n \in 0 .. M : n \in T
  BY <1>1, <1>4, <1>5, UpTo
<1>7. f[M] = h[M]
  BY <1>1, <1>6 DEF T
<1>8. h[M + 1] = h[M] \o last /\ h[M + 1] = FlattenSeq(more)
  <2>1. M \in Nat
    BY <1>1
  <2>2. M + 1 \in 1 .. M + 1 /\ (M + 1) - 1 = M
    BY <2>1
  <2>3. h[M + 1] = FlattenSeq(more) /\ \A i \in 1 .. M + 1 : h[i] = h[i-1] \o more[i]
    BY <1>1, <1>3 DEF Flattens
  <2>4. h[M + 1] = h[(M + 1) - 1] \o more[M + 1]
    BY <2>2, <2>3, Zenon
  <2> QED
    BY <1>1, <2>2, <2>3, <2>4
<1>9. f[M] = FlattenSeq(parts) /\ f[M] \in Seq(X)
  <2>1. f[M] = FlattenSeq(parts)
    BY <1>2 DEF Flattens, M
  <2>2. M \in 0 .. M
    <3>1. M \in Nat
      BY <1>1
    <3> QED
      BY <3>1
  <2> QED
    BY <1>2, <2>1, <2>2
<1>10. FlattenSeq(<<>>) = <<>>
  BY DEF FlattenSeq
<1> QED
  BY <1>7, <1>8, <1>9, <1>10 DEF more

\* What is picked, one position after the other.
PickedUpTo(f, s, at) ==
  /\ f[0] = <<>> /\ f[Len(s)] = Picked(s, at)
  /\ \A i \in 1 .. Len(s) : f[i] = IF i \in at THEN Append(f[i-1], s[i]) ELSE f[i-1]

AreChosen(p, s, at) ==
  p = [i \in 0 .. Len(s) |->
         IF i = 0 THEN <<>> ELSE IF i \in at THEN Append(p[i-1], s[i]) ELSE p[i-1]]

ChosenOf(s, at) == CHOOSE p : AreChosen(p, s, at)

\* Picked is the last of these.
LEMMA PickedIs ==
  ASSUME NEW s, NEW at
  PROVE  Picked(s, at) = ChosenOf(s, at)[Len(s)]
BY DEF Picked, ChosenOf, AreChosen

\* There are these.
LEMMA PickedSteps ==
  ASSUME NEW X, NEW s \in Seq(X), NEW at
  PROVE  \E f \in [0 .. Len(s) -> Seq(X)] : PickedUpTo(f, s, at)
<1> DEFINE M == Len(s)
           Y == Seq(X)
           step == [p \in Y \X (1 .. M) |-> IF p[2] \in at THEN Append(p[1], s[p[2]]) ELSE p[1]]
<1>1. M \in Nat /\ <<>> \in Y /\ \A i \in 1 .. M : s[i] \in X
  OBVIOUS
<1>2. step \in [Y \X (1 .. M) -> Y]
  <2>1. \A p \in Y \X (1 .. M) : p[1] \in Seq(X) /\ s[p[2]] \in X
    BY <1>1
  <2>2. \A p \in Y \X (1 .. M) : Append(p[1], s[p[2]]) \in Seq(X)
    BY <2>1
  <2> QED
    BY <2>1, <2>2
<1>3. PICK f \in [0 .. M -> Y] : Follows(f, <<>>, step, M)
  <2> HIDE DEF step, Y, M
  <2> QED
    BY <1>1, <1>2, FollowsExist
<1> HIDE DEF M
<1>4. ASSUME NEW i \in 0 .. M
      PROVE  f[i] = IF i = 0 THEN <<>> ELSE IF i \in at THEN Append(f[i-1], s[i]) ELSE f[i-1]
  <2>1. f[i] = IF i = 0 THEN <<>> ELSE step[<<f[i-1], i>>]
    BY <1>3 DEF Follows
  <2>2. CASE i = 0
    BY <2>1, <2>2
  <2>3. CASE i # 0
    <3>1. i \in 1 .. M /\ i - 1 \in 0 .. M
      BY <1>1, <2>3
    <3>2. <<f[i-1], i>> \in Y \X (1 .. M)
      BY <1>3, <3>1
    <3>3. step[<<f[i-1], i>>] = IF i \in at THEN Append(f[i-1], s[i]) ELSE f[i-1]
      BY <3>2
    <3> QED
      BY <2>1, <2>3, <3>3
  <2> QED
    BY <2>2, <2>3
<1>5. AreChosen(f, s, at)
  <2>1. f = [i \in 0 .. M |-> f[i]]
    BY <1>3
  <2> QED
    BY <1>4, <2>1, Zenon DEF AreChosen, M
<1> DEFINE p == ChosenOf(s, at)
<1>6. AreChosen(p, s, at)
  BY <1>5, Zenon DEF ChosenOf
<1> HIDE DEF p
<1>7. /\ p = [i \in 0 .. M |-> p[i]]
      /\ \A i \in 0 .. M : p[i] =
           IF i = 0 THEN <<>> ELSE IF i \in at THEN Append(p[i-1], s[i]) ELSE p[i-1]
  BY <1>6 DEF AreChosen, M
<1> DEFINE T == {i \in 0 .. M : p[i] \in Seq(X)}
<1>8. 0 \in T
  <2>1. M \in Nat
    BY <1>1
  <2>2. 0 \in 0 .. M
    BY <2>1
  <2>3. p[0] = <<>>
    BY <1>7, <2>2, Zenon
  <2> QED
    BY <1>1, <2>2, <2>3
<1>9. ASSUME NEW n \in 0 .. M - 1, n \in T PROVE n + 1 \in T
  <2>1. n + 1 \in 0 .. M /\ n + 1 \in 1 .. M /\ (n + 1) - 1 = n /\ n + 1 # 0
    BY <1>1
  <2>2. p[n+1] = IF n + 1 \in at THEN Append(p[n], s[n+1]) ELSE p[n]
    BY <1>7, <2>1
  <2>3. p[n] \in Seq(X) /\ s[n+1] \in X
    BY <1>1, <1>9, <2>1
  <2>4. Append(p[n], s[n+1]) \in Seq(X)
    BY <2>3
  <2> QED
    BY <2>1, <2>2, <2>3, <2>4
<1> HIDE DEF T
<1>10. \A n \in 0 .. M : p[n] \in Seq(X)
  <2>1. \A n \in 0 .. M : n \in T
    BY <1>1, <1>8, <1>9, UpTo
  <2> QED
    BY <2>1 DEF T
<1>11. p \in [0 .. M -> Seq(X)]
  BY <1>7, <1>10
<1>12. 0 \in 0 .. M /\ \A i \in 1 .. M : i \in 0 .. M /\ i # 0
  BY <1>1
<1>13. p[0] = <<>>
  BY <1>7, <1>12, Zenon
<1>14. \A i \in 1 .. M : p[i] = IF i \in at THEN Append(p[i-1], s[i]) ELSE p[i-1]
  BY <1>7, <1>12, Zenon
<1>15. p[M] = Picked(s, at)
  BY PickedIs DEF p, M
<1>16. PickedUpTo(p, s, at)
  BY <1>13, <1>14, <1>15 DEF PickedUpTo, M
<1> QED
  BY <1>11, <1>16 DEF M

\* All of a sequence.
LEMMA PickedAll ==
  ASSUME NEW X, NEW s \in Seq(X), NEW at, 1 .. Len(s) \subseteq at
  PROVE  Picked(s, at) = s
<1> DEFINE M == Len(s)
<1>1. M \in Nat /\ s = [i \in 1 .. M |-> s[i]] /\ \A i \in 1 .. M : s[i] \in X
  OBVIOUS
<1>2. PICK f \in [0 .. M -> Seq(X)] : PickedUpTo(f, s, at)
  BY PickedSteps
<1> DEFINE T == {i \in 0 .. M : Len(f[i]) = i /\ \A j \in 1 .. i : f[i][j] = s[j]}
<1> HIDE DEF M
<1>3. 0 \in T
  <2>1. f[0] = <<>>
    BY <1>2 DEF PickedUpTo
  <2> QED
    BY <1>1, <2>1
<1>4. ASSUME NEW n \in 0 .. M - 1, n \in T PROVE n + 1 \in T
  <2>0. M \in Nat
    BY <1>1
  <2>1. n + 1 \in 0 .. M /\ n + 1 \in 1 .. M /\ (n + 1) - 1 = n /\ n \in 0 .. M
    BY <2>0
  <2>2. f[n+1] = Append(f[n], s[n+1])
    BY <1>2, <2>1 DEF PickedUpTo, M
  <2>3. f[n] \in Seq(X) /\ s[n+1] \in X /\ Len(f[n]) = n /\ \A j \in 1 .. n : f[n][j] = s[j]
    BY <1>1, <1>2, <1>4, <2>1
  <2>4. Len(f[n+1]) = n + 1 /\ f[n+1][n+1] = s[n+1] /\ \A j \in 1 .. n : f[n+1][j] = f[n][j]
    BY <2>2, <2>3
  <2>5. \A j \in 1 .. n + 1 : j = n + 1 \/ j \in 1 .. n
    BY <2>1
  <2> QED
    BY <2>1, <2>3, <2>4, <2>5
<1>5. M \in T
  <2> HIDE DEF T
  <2>0. M \in Nat
    BY <1>1
  <2>1. M \in 0 .. M
    BY <2>0
  <2> QED
    BY <1>1, <1>3, <1>4, <2>1, UpTo
<1>6. f[M] \in Seq(X) /\ Len(f[M]) = M /\ \A j \in 1 .. M : f[M][j] = s[j]
  BY <1>1, <1>2, <1>5
<1>7. f[M] = [i \in 1 .. M |-> f[M][i]]
  BY <1>6
<1>8. f[M] = s
  BY <1>1, <1>6, <1>7
<1> QED
  BY <1>2, <1>8 DEF PickedUpTo, M

\* What a function makes of one element more.
LEMMA OneMapped ==
  ASSUME NEW N, NEW Y, NEW g \in [N -> Y], NEW l \in Seq(N), NEW a \in N
  PROVE  [i \in DOMAIN Append(l, a) |-> g[Append(l, a)[i]]] =
           Append([i \in DOMAIN l |-> g[l[i]]], g[a])
<1> DEFINE k == Len(l)
           more == Append(l, a)
           to == [i \in DOMAIN l |-> g[l[i]]]
<1>1. /\ k \in Nat /\ DOMAIN l = 1 .. k /\ \A i \in 1 .. k : l[i] \in N
  OBVIOUS
<1>2. DOMAIN more = 1 .. k + 1 /\ (\A i \in 1 .. k : more[i] = l[i]) /\ more[k + 1] = a
  OBVIOUS
<1>3. to \in Seq(Y) /\ Len(to) = k /\ \A i \in 1 .. k : to[i] = g[l[i]]
  <2> HIDE DEF k
  <2>1. to \in [1 .. k -> Y]
    BY <1>1
  <2> HIDE DEF to
  <2>2. to \in Seq(Y) /\ Len(to) = k
    BY <1>1, <2>1
  <2> QED
    BY <1>1, <2>2 DEF to
<1> HIDE DEF k, more, to
<1>4. /\ Append(to, g[a]) = [i \in 1 .. k + 1 |-> Append(to, g[a])[i]]
      /\ (\A i \in 1 .. k : Append(to, g[a])[i] = to[i]) /\ Append(to, g[a])[k + 1] = g[a]
  BY <1>1, <1>3
<1>5. ASSUME NEW i \in 1 .. k + 1 PROVE g[more[i]] = Append(to, g[a])[i]
  <2>1. i \in 1 .. k \/ i = k + 1
    BY <1>1
  <2> QED
    BY <1>2, <1>3, <1>4, <2>1
<1>6. [i \in DOMAIN more |-> g[more[i]]] = Append(to, g[a])
  BY <1>2, <1>4, <1>5
<1> QED
  BY <1>6 DEF more, to

Among(s, S)    == {i \in DOMAIN s : s[i] \in S}
Each(g, s)     == [i \in DOMAIN s |-> g[s[i]]]
Only(g, s, S)  == [i \in DOMAIN s |-> IF s[i] \in S THEN g[s[i]] ELSE <<>>]

\* What is joined of those picked is what is joined of all, without the others.
LEMMA FlattenPicked ==
  ASSUME NEW s \in Seq(DOMAIN Repo), NEW S, NEW g \in [DOMAIN Repo -> Seq(Arguments)]
  PROVE  FlattenSeq(Only(g, s, S)) = FlattenSeq(Each(g, Picked(s, Among(s, S))))
<1> DEFINE N == DOMAIN Repo
           X == Arguments
           M == Len(s)
           at == {i \in DOMAIN s : s[i] \in S}
           parts == [i \in DOMAIN s |-> IF s[i] \in S THEN g[s[i]] ELSE <<>>]
           Of(l) == [i \in DOMAIN l |-> g[l[i]]]
<1>0. s \in Seq(N) /\ g \in [N -> Seq(X)]
  OBVIOUS
<1> HIDE DEF N, X
<1>1. /\ M \in Nat /\ DOMAIN s = 1 .. M /\ \A i \in 1 .. M : s[i] \in N
      /\ parts \in Seq(Seq(X)) /\ Len(parts) = M
  <2>1. M \in Nat /\ DOMAIN s = 1 .. M /\ \A i \in 1 .. M : s[i] \in N
    BY <1>0
  <2> HIDE DEF M
  <2>2. ASSUME NEW i \in 1 .. M PROVE (IF s[i] \in S THEN g[s[i]] ELSE <<>>) \in Seq(X)
    <3>1. g[s[i]] \in Seq(X)
      BY <1>0, <2>1
    <3> QED
      BY <3>1
  <2>3. parts = [i \in 1 .. M |-> IF s[i] \in S THEN g[s[i]] ELSE <<>>]
    BY <2>1
  <2> HIDE DEF parts
  <2>4. parts \in [1 .. M -> Seq(X)]
    BY <2>2, <2>3
  <2>5. parts \in Seq(Seq(X)) /\ Len(parts) = M
    BY <2>1, <2>4
  <2> QED
    BY <2>1, <2>5
<1>2. PICK f \in [0 .. M -> Seq(X)] : Flattens(f, parts)
  <2> HIDE DEF parts
  <2> QED
    BY <1>1, FlattenSteps
<1>3. PICK p \in [0 .. M -> Seq(N)] : PickedUpTo(p, s, at)
  BY <1>0, PickedSteps
<1>4. \A i \in 1 .. M : /\ i \in at <=> s[i] \in S
                        /\ parts[i] = IF s[i] \in S THEN g[s[i]] ELSE <<>>
  BY <1>1
<1> HIDE DEF M, at, parts
<1>5. \A l \in Seq(N) : Of(l) \in Seq(Seq(X)) /\ FlattenSeq(Of(l)) \in Seq(X)
  <2> TAKE l \in Seq(N)
  <2>1. Of(l) \in Seq(Seq(X))
    <3> DEFINE k == Len(l)
    <3>1. k \in Nat /\ DOMAIN l = 1 .. k /\ \A i \in 1 .. k : l[i] \in N
      OBVIOUS
    <3> HIDE DEF k
    <3>2. \A i \in 1 .. k : g[l[i]] \in Seq(X)
      BY <1>0, <3>1
    <3>3. Of(l) \in [1 .. k -> Seq(X)]
      BY <3>1, <3>2
    <3> HIDE DEF Of
    <3> QED
      BY <3>1, <3>3
  <2> HIDE DEF Of
  <2> QED
    BY <2>1, FlattenAppend
<1> DEFINE T == {i \in 0 .. M : f[i] = FlattenSeq(Of(p[i]))}
<1>6. 0 \in T
  <2>1. f[0] = <<>> /\ p[0] = <<>>
    BY <1>2, <1>3 DEF Flattens, PickedUpTo
  <2>2. Of(<<>>) = <<>>
    OBVIOUS
  <2>3. FlattenSeq(<<>>) = <<>>
    BY DEF FlattenSeq
  <2> QED
    BY <1>1, <2>1, <2>2, <2>3
<1>7. ASSUME NEW n \in 0 .. M - 1, n \in T PROVE n + 1 \in T
  <2>1. n + 1 \in 0 .. M /\ n + 1 \in 1 .. M /\ (n + 1) - 1 = n /\ n \in 0 .. M
    BY <1>1
  <2>2. /\ f[n+1] = f[n] \o parts[n+1]
        /\ p[n+1] = IF n + 1 \in at THEN Append(p[n], s[n+1]) ELSE p[n]
    <3>1. f[n+1] = f[n] \o parts[n+1]
      BY <1>1, <1>2, <2>1 DEF Flattens
    <3>2. p[n+1] = IF n + 1 \in at THEN Append(p[n], s[n+1]) ELSE p[n]
      BY <1>3, <2>1 DEF PickedUpTo, M
    <3> QED
      BY <3>1, <3>2
  <2>3. f[n] \in Seq(X) /\ p[n] \in Seq(N) /\ s[n+1] \in N /\ f[n] = FlattenSeq(Of(p[n]))
    BY <1>1, <1>2, <1>3, <1>7, <2>1
  <2>4. CASE s[n+1] \in S
    <3> DEFINE l == p[n]
               a == s[n+1]
    <3>1. f[n+1] = f[n] \o g[a] /\ p[n+1] = Append(l, a) /\ l \in Seq(N) /\ a \in N
      BY <1>4, <2>1, <2>2, <2>3, <2>4
    <3> HIDE DEF l, a
    <3>2. Of(Append(l, a)) = Append(Of(l), g[a])
      BY <3>1, OneMapped
    <3>3. Of(l) \in Seq(Seq(X)) /\ g[a] \in Seq(X)
      BY <1>0, <1>5, <3>1
    <3> HIDE DEF Of
    <3>4. FlattenSeq(Append(Of(l), g[a])) = FlattenSeq(Of(l)) \o g[a]
      BY <3>3, FlattenAppend
    <3>5. f[n] = FlattenSeq(Of(l))
      BY <2>3 DEF l
    <3> QED
      BY <2>1, <3>1, <3>2, <3>4, <3>5
  <2>5. CASE s[n+1] \notin S
    <3> HIDE DEF Of
    <3>1. f[n+1] = f[n] \o <<>> /\ p[n+1] = p[n]
      BY <1>4, <2>1, <2>2, <2>5
    <3>2. f[n] \o <<>> = f[n]
      BY <2>3
    <3> QED
      BY <2>1, <2>3, <3>1, <3>2
  <2> QED
    BY <2>4, <2>5
<1>8. M \in T
  <2> HIDE DEF T
  <2>1. M \in 0 .. M
    BY <1>1
  <2> QED
    BY <1>1, <1>6, <1>7, <2>1, UpTo
<1>9. f[M] = FlattenSeq(parts) /\ p[M] = Picked(s, at)
  BY <1>1, <1>2, <1>3 DEF Flattens, PickedUpTo, M
<1>10. FlattenSeq(parts) = FlattenSeq(Of(Picked(s, at)))
  BY <1>8, <1>9
<1> QED
  BY <1>10 DEF parts, at, Of, Only, Each, Among

-----------------------------------------------------------------------------
(***************************************************************************)
(* Lines of versions and values.                                           *)
(***************************************************************************)
Names == STRING \cup DOMAIN Repo \cup {"newline", "delim", "global"}

Printed == [class : {"version", "value", "text", "I", "L", "l", "other"}, of : Names]

\* Two sequences, one after the other.
LEMMA ConcatIs ==
  ASSUME NEW X, NEW p \in Seq(X), NEW q \in Seq(X)
  PROVE  /\ p \o q \in Seq(X) /\ Len(p \o q) = Len(p) + Len(q)
         /\ Len(p) \in Nat /\ Len(q) \in Nat
         /\ \A i \in 1 .. Len(p) : (p \o q)[i] = p[i]
         /\ \A i \in 1 .. Len(q) : (p \o q)[Len(p) + i] = q[i]
<1>1. p \o q \in Seq(X) /\ Len(p \o q) = Len(p) + Len(q) /\ Len(p) \in Nat /\ Len(q) \in Nat
  OBVIOUS
<1>2. ASSUME NEW i \in 1 .. Len(p) PROVE (p \o q)[i] = p[i]
  OBVIOUS
<1>3. ASSUME NEW i \in 1 .. Len(q) PROVE (p \o q)[Len(p) + i] = q[i]
  OBVIOUS
<1> QED
  BY <1>1, <1>2, <1>3

\* Lines after lines are lines.
LEMMA LinesMore ==
  ASSUME NEW p \in Seq(Printed), NEW q \in Seq(Printed), Lines(p), Lines(q)
  PROVE  p \o q \in Seq(Printed) /\ Lines(p \o q)
<1> DEFINE m == Len(p)
           k == Len(q)
           r == p \o q
<1>1. /\ r \in Seq(Printed) /\ Len(r) = m + k /\ m \in Nat /\ k \in Nat
      /\ \A i \in 1 .. m : r[i] = p[i]
      /\ \A i \in 1 .. k : r[m + i] = q[i]
  BY ConcatIs
<1>2. DOMAIN r = 1 .. m + k /\ DOMAIN p = 1 .. m /\ DOMAIN q = 1 .. k
  BY <1>1
<1>3. m % 2 = 0 /\ k % 2 = 0
  BY DEF Lines
<1> DEFINE Right(t, i) == IF i % 2 = 1 THEN t[i].class \in {"version", "value"}
                          ELSE t[i] = Token("text", "newline")
<1>4. (\A i \in 1 .. m : Right(p, i)) /\ (\A i \in 1 .. k : Right(q, i))
  BY <1>2 DEF Lines
<1> HIDE DEF m, k, r
<1>5. ASSUME NEW i \in 1 .. m + k PROVE Right(r, i)
  <2>1. CASE i \in 1 .. m
    BY <1>1, <1>4, <2>1
  <2>2. CASE i \notin 1 .. m
    <3> DEFINE j == i - m
    <3>0. m \in Nat /\ k \in Nat
      BY <1>1
    <3>1. j \in 1 .. k /\ i = m + j
      BY <2>2, <3>0
    <3>2. i % 2 = j % 2
      BY <1>3, <3>0, <3>1
    <3> HIDE DEF j
    <3>3. r[i] = q[j] /\ Right(q, j)
      BY <1>1, <1>4, <3>1
    <3> QED
      BY <3>2, <3>3
  <2> QED
    BY <2>1, <2>2
<1>6. Len(r) % 2 = 0
  <2>1. m \in Nat /\ k \in Nat /\ Len(r) = m + k
    BY <1>1
  <2> QED
    BY <1>3, <2>1
<1>7. Lines(r)
  BY <1>2, <1>5, <1>6 DEF Lines
<1> QED
  BY <1>1, <1>7 DEF r

\* No line and one.
LEMMA LinesAre ==
  /\ <<>> \in Seq(Printed) /\ Lines(<<>>)
  /\ \A class \in {"version", "value"}, of \in Names :
       Line(class, of) \in Seq(Printed) /\ Lines(Line(class, of))
<1>1. <<>> \in Seq(Printed) /\ Lines(<<>>)
  BY DEF Lines
<1>2. "newline" \in Names
  BY DEF Names
<1>3. ASSUME NEW class \in {"version", "value"}, NEW of \in Names
      PROVE  Line(class, of) \in Seq(Printed) /\ Lines(Line(class, of))
  <2> DEFINE a == Token(class, of)
             b == Token("text", "newline")
  <2> HIDE DEF a, b
  <2>1. a \in Printed /\ b \in Printed /\ a.class = class
    <3> DEFINE C == {"version", "value", "text", "I", "L", "l", "other"}
    <3>1. class \in C /\ "text" \in C
      OBVIOUS
    <3> HIDE DEF C
    <3>2. a = [class |-> class, of |-> of] /\ b = [class |-> "text", of |-> "newline"]
      BY DEF a, b, Token
    <3>3. a \in [class : C, of : Names] /\ b \in [class : C, of : Names]
      BY <1>2, <3>1, <3>2
    <3>4. Printed = [class : C, of : Names]
      BY DEF Printed, C
    <3> QED
      BY <3>2, <3>3, <3>4
  <2>2. <<a, b>> \in Seq(Printed)
    BY <2>1
  <2>3. Lines(<<a, b>>)
    BY <2>1 DEF Lines, b
  <2> QED
    BY <2>2, <2>3 DEF Line, a, b
<1> QED
  BY <1>1, <1>3

\* What lines join to.
LEMMA LinesJoined ==
  ASSUME NEW parts \in Seq(Seq(Printed)), \A i \in 1 .. Len(parts) : Lines(parts[i])
  PROVE  FlattenSeq(parts) \in Seq(Printed) /\ Lines(FlattenSeq(parts))
<1> DEFINE M == Len(parts)
<1>1. M \in Nat /\ \A i \in 1 .. M : parts[i] \in Seq(Printed)
  OBVIOUS
<1>2. PICK f \in [0 .. M -> Seq(Printed)] : Flattens(f, parts)
  BY FlattenSteps
<1> DEFINE T == {i \in 0 .. M : Lines(f[i])}
<1>3. \A i \in 1 .. M : Lines(parts[i])
  OBVIOUS
<1> HIDE DEF M
<1>4. 0 \in T
  BY <1>1, <1>2, LinesAre DEF Flattens
<1>5. ASSUME NEW n \in 0 .. M - 1, n \in T PROVE n + 1 \in T
  <2>0. M \in Nat
    BY <1>1
  <2>1. n + 1 \in 0 .. M /\ n + 1 \in 1 .. M /\ (n + 1) - 1 = n /\ n \in 0 .. M
    BY <2>0
  <2>2. f[n+1] = f[n] \o parts[n+1]
    BY <1>2, <2>1 DEF Flattens, M
  <2>3. f[n] \in Seq(Printed) /\ Lines(f[n])
    BY <1>2, <1>5, <2>1
  <2>4. parts[n+1] \in Seq(Printed) /\ Lines(parts[n+1])
    BY <1>1, <1>3, <2>1
  <2>5. Lines(f[n+1])
    BY <2>2, <2>3, <2>4, LinesMore
  <2> QED
    BY <2>1, <2>5
<1> HIDE DEF T
<1>6. M \in T
  <2>1. M \in Nat
    BY <1>1
  <2>2. M \in 0 .. M
    BY <2>1
  <2> QED
    BY <1>4, <1>5, <2>1, <2>2, UpTo
<1>7. Lines(f[M]) /\ f[M] \in Seq(Printed)
  BY <1>2, <1>6 DEF T
<1> QED
  BY <1>2, <1>7 DEF Flattens, M

-----------------------------------------------------------------------------
(***************************************************************************)
(* Arguments with a delimiter between any two.                             *)
(***************************************************************************)
Delim == Token("text", "delim")

Spreads(s, F) ==
  /\ Len(s) = IF Len(F) = 0 THEN 0 ELSE 2 * Len(F) - 1
  /\ \A k \in 1 .. Len(F) : s[2 * k - 1] = F[k]
  /\ \A k \in 1 .. Len(F) - 1 : s[2 * k] = Delim

\* One argument more.
LEMMA SpreadMore ==
  ASSUME NEW X, Delim \in X, NEW s \in Seq(X), NEW G \in Seq(X), NEW H \in Seq(X), NEW a \in X,
         Spreads(s, G), Len(H) = Len(G) + 1, \A k \in 1 .. Len(G) : H[k] = G[k],
         H[Len(G) + 1] = a
  PROVE  Spreads(s \o ((IF Len(G) > 0 THEN <<Delim>> ELSE <<>>) \o <<a>>), H)
<1> DEFINE g == Len(G)
           more == (IF Len(G) > 0 THEN <<Delim>> ELSE <<>>) \o <<a>>
           t == s \o more
           z == Len(s)
<1>1. g \in Nat /\ Len(H) = g + 1
  OBVIOUS
<1>2. z = IF g = 0 THEN 0 ELSE 2 * g - 1
  BY DEF Spreads
<1>3. (\A k \in 1 .. g : s[2 * k - 1] = G[k]) /\ (\A k \in 1 .. g - 1 : s[2 * k] = Delim)
  BY DEF Spreads
<1>4. more \in Seq(X) /\ IF g = 0 THEN Len(more) = 1 /\ more[1] = a
                         ELSE Len(more) = 2 /\ more[1] = Delim /\ more[2] = a
  <2>1. CASE g = 0
    BY <2>1
  <2>2. CASE g # 0
    <3>1. g > 0
      BY <1>1, <2>2
    <3>2. more = <<Delim>> \o <<a>>
      BY <3>1
    <3> HIDE DEF more
    <3>3. /\ <<Delim>> \in Seq(X) /\ Len(<<Delim>>) = 1 /\ <<Delim>>[1] = Delim
          /\ <<a>> \in Seq(X) /\ Len(<<a>>) = 1 /\ <<a>>[1] = a
      OBVIOUS
    <3>4. /\ more \in Seq(X) /\ Len(more) = 1 + 1
          /\ \A i \in 1 .. 1 : more[i] = <<Delim>>[i]
          /\ \A i \in 1 .. 1 : more[1 + i] = <<a>>[i]
      BY <3>2, <3>3, ConcatIs
    <3>5. more[1] = <<Delim>>[1] /\ more[1 + 1] = <<a>>[1]
      BY <3>4
    <3> QED
      BY <2>2, <3>3, <3>4, <3>5
  <2> QED
    BY <2>1, <2>2
<1> HIDE DEF more
<1>5. Len(more) = IF g = 0 THEN 1 ELSE 2
  BY <1>4
<1>6. /\ Len(t) = z + Len(more) /\ z \in Nat
      /\ \A i \in 1 .. z : t[i] = s[i]
      /\ \A i \in 1 .. Len(more) : t[z + i] = more[i]
  <2> HIDE DEF g
  <2>1. more \in Seq(X)
    BY <1>4
  <2> QED
    BY <2>1, ConcatIs
<1>7. \A k \in 1 .. g : H[k] = G[k]
  OBVIOUS
<1>8. H[g + 1] = a
  OBVIOUS
<1> HIDE DEF g, t, z
<1>9. CASE g = 0
  <2>1. z = 0 /\ Len(more) = 1 /\ more[1] = a /\ Len(H) = 1
    BY <1>1, <1>2, <1>4, <1>5, <1>9
  <2>2. Len(t) = 1 /\ t[1] = a
    <3>1. t[z + 1] = more[1]
      BY <1>6, <2>1
    <3> QED
      BY <1>6, <2>1, <3>1
  <2>3. H[1] = a
    BY <1>8, <1>9
  <2> QED
    BY <2>1, <2>2, <2>3 DEF Spreads, t, more
<1>10. CASE g # 0
  <2>1. z = 2 * g - 1 /\ Len(more) = 2 /\ more[1] = Delim /\ more[2] = a /\ Len(H) = g + 1
    BY <1>1, <1>2, <1>4, <1>5, <1>10
  <2>2. t[z + 1] = Delim /\ t[z + 2] = a
    BY <1>6, <2>1
  <2>3. g \in Nat \ {0}
    BY <1>1, <1>10
  <2>4. /\ z + 1 = 2 * g /\ z + 2 = 2 * (g + 1) - 1
        /\ g + 1 # 0 /\ (g + 1) - 1 = g
    BY <2>1, <2>3
  <2>5. Len(t) = 2 * (g + 1) - 1
    BY <1>6, <2>1, <2>4
  <2>6. ASSUME NEW k \in 1 .. g + 1 PROVE t[2 * k - 1] = H[k]
    <3>1. CASE k = g + 1
      BY <1>8, <2>2, <2>4, <3>1
    <3>2. CASE k # g + 1
      <4>1. k \in 1 .. g /\ 2 * k - 1 \in 1 .. z
        BY <2>1, <2>3, <3>2
      <4>2. t[2 * k - 1] = s[2 * k - 1]
        BY <1>6, <4>1
      <4> QED
        BY <1>3, <1>7, <4>1, <4>2
    <3> QED
      BY <3>1, <3>2
  <2>7. ASSUME NEW k \in 1 .. g PROVE t[2 * k] = Delim
    <3>1. CASE k = g
      BY <2>2, <2>4, <3>1
    <3>2. CASE k # g
      <4>1. k \in 1 .. g - 1 /\ 2 * k \in 1 .. z
        BY <2>1, <2>3, <3>2
      <4>2. t[2 * k] = s[2 * k]
        BY <1>6, <4>1
      <4> QED
        BY <1>3, <4>1, <4>2
    <3> QED
      BY <3>1, <3>2
  <2>8. Spreads(t, H)
    BY <2>1, <2>4, <2>5, <2>6, <2>7 DEF Spreads
  <2> QED
    BY <2>8 DEF t, more
<1> QED
  BY <1>9, <1>10

\* It does not matter which two of three are put together first.
LEMMA ConcatAssoc ==
  ASSUME NEW p \in Seq(Printed), NEW q \in Seq(Printed), NEW r \in Seq(Printed)
  PROVE  (p \o q) \o r = p \o (q \o r)
OBVIOUS

\* What writeargs() prints continues what has been printed, so that there is one delimiter
\* between any two arguments.
LEMMA DelimitedSpreads ==
  ASSUME NEW s \in Seq(Printed), NEW G \in Seq(Printed), NEW A \in Seq(Printed),
         argcount = Len(G), Spreads(s, G)
  PROVE  Delimited(A) \in Seq(Printed) /\ Spreads(s \o Delimited(A), G \o A)
<1> DEFINE M == Len(A)
           g == Len(G)
           parts == [i \in DOMAIN A |->
             (IF argcount + i > 1 THEN <<Token("text", "delim")>> ELSE <<>>) \o <<A[i]>>]
           H(n) == [k \in 1 .. g + n |-> IF k <= g THEN G[k] ELSE A[k - g]]
<1>1. /\ M \in Nat /\ g \in Nat /\ DOMAIN A = 1 .. M
      /\ (\A i \in 1 .. M : A[i] \in Printed) /\ (\A k \in 1 .. g : G[k] \in Printed)
  OBVIOUS
<1>2. Delim \in Printed
  <2>1. "delim" \in Names
    BY DEF Names
  <2> QED
    BY <2>1 DEF Delim, Token, Printed
<1>3. Delimited(A) = FlattenSeq(parts)
  BY DEF Delimited
<1>4. \A i \in 1 .. M :
        parts[i] = (IF g + i > 1 THEN <<Delim>> ELSE <<>>) \o <<A[i]>>
  BY <1>1 DEF Delim
<1>5. DOMAIN parts = 1 .. M
  BY <1>1
<1> HIDE DEF M, g, parts
<1>6. ASSUME NEW i \in 1 .. M PROVE parts[i] \in Seq(Printed)
  <2>1. A[i] \in Printed
    BY <1>1
  <2>2. <<A[i]>> \in Seq(Printed) /\ <<Delim>> \in Seq(Printed) /\ <<>> \in Seq(Printed)
    BY <1>2, <2>1
  <2> DEFINE before == IF g + i > 1 THEN <<Delim>> ELSE <<>>
             one == <<A[i]>>
  <2>3. before \in Seq(Printed) /\ one \in Seq(Printed)
    BY <2>2
  <2>4. parts[i] = before \o one
    BY <1>4
  <2> HIDE DEF before, one
  <2> QED
    BY <2>3, <2>4, ConcatIs
<1>7. parts \in Seq(Seq(Printed)) /\ Len(parts) = M
  <2>1. parts \in [1 .. M -> Seq(Printed)]
    <3>1. parts = [i \in 1 .. M |-> parts[i]]
      BY <1>5 DEF parts
    <3> QED
      BY <1>6, <3>1
  <2>2. M \in Nat
    BY <1>1
  <2> QED
    BY <2>1, <2>2
<1>8. PICK f \in [0 .. M -> Seq(Printed)] : Flattens(f, parts)
  BY <1>7, FlattenSteps
<1>9. f[0] = <<>> /\ f[M] = Delimited(A) /\ \A i \in 1 .. M : f[i] = f[i-1] \o parts[i]
  BY <1>3, <1>7, <1>8 DEF Flattens
<1>10. ASSUME NEW n \in 0 .. M
       PROVE  /\ H(n) \in Seq(Printed) /\ Len(H(n)) = g + n
              /\ \A k \in 1 .. g + n : H(n)[k] = IF k <= g THEN G[k] ELSE A[k - g]
  <2> DEFINE h == H(n)
  <2>1. g \in Nat /\ M \in Nat /\ n \in Nat /\ n <= M /\ g + n \in Nat
    BY <1>1
  <2>2. ASSUME NEW k \in 1 .. g + n
        PROVE  (IF k <= g THEN G[k] ELSE A[k - g]) \in Printed
    <3>1. CASE k <= g
      <4>1. k \in 1 .. g
        BY <2>1, <3>1
      <4> QED
        BY <1>1, <3>1, <4>1
    <3>2. CASE ~(k <= g)
      <4>1. k - g \in 1 .. M
        BY <2>1, <3>2
      <4> QED
        BY <1>1, <3>2, <4>1
    <3> QED
      BY <3>1, <3>2
  <2>3. h \in [1 .. g + n -> Printed]
    BY <2>2
  <2>4. \A k \in 1 .. g + n : h[k] = IF k <= g THEN G[k] ELSE A[k - g]
    OBVIOUS
  <2> HIDE DEF h
  <2>5. h \in Seq(Printed) /\ Len(h) = g + n
    BY <2>1, <2>3
  <2> QED
    BY <2>4, <2>5 DEF h
<1> DEFINE T == {n \in 0 .. M : Spreads(s \o f[n], H(n))}
<1>11. 0 \in T
  <2>1. g \in Nat /\ M \in Nat
    BY <1>1
  <2>2. 0 \in 0 .. M /\ g + 0 = g
    BY <2>1
  <2>3. H(0) = G
    <3>1. G = [k \in 1 .. g |-> G[k]]
      BY DEF g
    <3>2. \A k \in 1 .. g : k <= g
      OBVIOUS
    <3> QED
      BY <2>2, <3>1, <3>2
  <2> HIDE DEF H
  <2>4. s \o f[0] = s
    BY <1>9
  <2> QED
    BY <2>2, <2>3, <2>4
<1>12. ASSUME NEW n \in 0 .. M - 1, n \in T PROVE n + 1 \in T
  <2>1. g \in Nat /\ M \in Nat /\ n \in Nat
    BY <1>1
  <2>2. n + 1 \in 0 .. M /\ n + 1 \in 1 .. M /\ (n + 1) - 1 = n /\ n \in 0 .. M
        /\ g + (n + 1) = (g + n) + 1 /\ ~((g + n) + 1 <= g) /\ ((g + n) + 1) - g = n + 1
        /\ (g + n) + 1 \in 1 .. g + (n + 1)
        /\ \A k \in 1 .. g + n : k \in 1 .. g + (n + 1)
    BY <2>1
  <2>3. f[n+1] = f[n] \o parts[n+1] /\ Spreads(s \o f[n], H(n)) /\ f[n] \in Seq(Printed)
    BY <1>8, <1>9, <1>12, <2>2
  <2> DEFINE t == s \o f[n]
             a == A[n + 1]
             h == H(n)
             hh == H(n + 1)
  <2>4. /\ h \in Seq(Printed) /\ Len(h) = g + n
        /\ \A k \in 1 .. g + n : h[k] = IF k <= g THEN G[k] ELSE A[k - g]
    BY <1>10, <2>2
  <2>5. /\ hh \in Seq(Printed) /\ Len(hh) = g + (n + 1)
        /\ \A k \in 1 .. g + (n + 1) : hh[k] = IF k <= g THEN G[k] ELSE A[k - g]
    BY <1>10, <2>2
  <2> HIDE DEF h, hh, H
  <2>6. (\A k \in 1 .. Len(h) : hh[k] = h[k]) /\ hh[Len(h) + 1] = a /\ Len(hh) = Len(h) + 1
    <3>1. Len(hh) = Len(h) + 1
      BY <2>2, <2>4, <2>5
    <3>2. ASSUME NEW k \in 1 .. g + n PROVE hh[k] = h[k]
      BY <2>2, <2>4, <2>5
    <3>3. hh[(g + n) + 1] = A[((g + n) + 1) - g]
      <4>1. \A k \in 1 .. g + (n + 1) : ~(k <= g) => hh[k] = A[k - g]
        BY <2>5
      <4>2. (g + n) + 1 \in 1 .. g + (n + 1) /\ ~((g + n) + 1 <= g)
        BY <2>2
      <4> QED
        BY <4>1, <4>2, Zenon
    <3>4. hh[Len(h) + 1] = a
      BY <2>2, <2>4, <3>3
    <3> QED
      BY <2>4, <3>1, <3>2, <3>4
  <2>7. t \in Seq(Printed) /\ a \in Printed
    BY <1>1, <2>2, <2>3, ConcatIs
  <2>8. parts[n+1] = (IF Len(h) > 0 THEN <<Delim>> ELSE <<>>) \o <<a>>
    <3>1. (g + (n + 1) > 1) <=> (Len(h) > 0)
      BY <2>1, <2>4
    <3> QED
      BY <1>4, <2>2, <3>1
  <2>9. Spreads(t, h)
    BY <2>3 DEF t, h
  <2> HIDE DEF t, a
  <2>10. Spreads(t \o parts[n+1], hh)
    <3>1. h \in Seq(Printed) /\ hh \in Seq(Printed)
      BY <2>4, <2>5
    <3>2. Spreads(t \o ((IF Len(h) > 0 THEN <<Delim>> ELSE <<>>) \o <<a>>), hh)
      BY <1>2, <2>6, <2>7, <2>9, <3>1, SpreadMore
    <3> QED
      BY <2>8, <3>2
  <2>11. s \o f[n+1] = t \o parts[n+1]
    <3> DEFINE u == f[n]
               v == parts[n+1]
    <3>1. u \in Seq(Printed) /\ v \in Seq(Printed) /\ f[n+1] = u \o v /\ t = s \o u
      BY <1>6, <2>2, <2>3 DEF t
    <3> HIDE DEF u, v
    <3>2. (s \o u) \o v = s \o (u \o v)
      BY <3>1, ConcatAssoc
    <3>3. s \o f[n+1] = t \o v
      BY <3>1, <3>2
    <3> QED
      BY <3>3 DEF v
  <2> QED
    BY <2>2, <2>10, <2>11 DEF hh
<1>13. M \in Nat /\ M \in 0 .. M
  <2>1. M \in Nat
    BY <1>1
  <2> QED
    BY <2>1
<1>14. M \in T
  <2> HIDE DEF T
  <2> QED
    BY <1>11, <1>12, <1>13, UpTo
<1>15. H(M) = G \o A
  <2> DEFINE h == H(M)
             r == G \o A
  <2>1. /\ h \in Seq(Printed) /\ Len(h) = g + M
        /\ \A k \in 1 .. g + M : h[k] = IF k <= g THEN G[k] ELSE A[k - g]
    BY <1>10, <1>13
  <2>2. /\ r \in Seq(Printed) /\ Len(r) = g + M /\ g \in Nat
        /\ (\A k \in 1 .. g : r[k] = G[k]) /\ \A k \in 1 .. M : r[g + k] = A[k]
    BY ConcatIs DEF g, M
  <2> HIDE DEF h, r, H
  <2>3. ASSUME NEW k \in 1 .. g + M PROVE h[k] = r[k]
    <3>0. g \in Nat /\ M \in Nat
      BY <1>13, <2>2
    <3>1. CASE k <= g
      <4>1. k \in 1 .. g
        BY <3>0, <3>1
      <4> QED
        BY <2>1, <2>2, <3>1, <4>1
    <3>2. CASE ~(k <= g)
      <4>1. k - g \in 1 .. M /\ g + (k - g) = k
        BY <3>0, <3>2
      <4>2. r[g + (k - g)] = A[k - g]
        BY <2>2, <4>1
      <4> QED
        BY <2>1, <3>2, <4>1, <4>2
    <3> QED
      BY <3>1, <3>2
  <2>4. h = [k \in 1 .. g + M |-> h[k]] /\ r = [k \in 1 .. g + M |-> r[k]]
    BY <2>1, <2>2
  <2>5. h = r
    BY <2>3, <2>4
  <2> QED
    BY <2>5 DEF h, r
<1>16. f[M] \in Seq(Printed) /\ Spreads(s \o f[M], H(M))
  BY <1>8, <1>13, <1>14
<1> QED
  BY <1>9, <1>15, <1>16

-----------------------------------------------------------------------------
(***************************************************************************)
(* What is written are the arguments asked for.                            *)
(***************************************************************************)
\* The arguments that WriteFields writes.
Written(fields, filter) ==
  LET all == FlattenSeq([i \in DOMAIN fields |-> fields[i].args])
  IN  Picked(all, {i \in DOMAIN all : filterok(filter, all[i].class)})

\* What is picked are elements of the sequence.
LEMMA PickedIn ==
  ASSUME NEW X, NEW s \in Seq(X), NEW at
  PROVE  Picked(s, at) \in Seq(X)
<1>1. PICK f \in [0 .. Len(s) -> Seq(X)] : PickedUpTo(f, s, at)
  BY PickedSteps
<1>2. Len(s) \in 0 .. Len(s)
  <2> DEFINE M == Len(s)
  <2>1. M \in Nat
    OBVIOUS
  <2> HIDE DEF M
  <2>2. M \in 0 .. M
    BY <2>1
  <2> QED
    BY <2>2 DEF M
<1> QED
  BY <1>1, <1>2 DEF PickedUpTo

\* An option's filter lets pass what is wanted.
LEMMA FiltersAgree ==
  ASSUME NEW o \in CflagsOptions \cup LibsOptions, NEW c \in {"I", "L", "l", "other"}
  PROVE  filterok(FilterOf(o), c) <=> c \in Wanted(o)
<1>1. CASE o \in {"--cflags", "--libs"}
  <2>1. FilterOf(o) = "any" /\ Wanted(o) = {"I", "L", "l", "other"}
    BY <1>1 DEF FilterOf, Wanted
  <2> QED
    BY <2>1 DEF filterok
<1>2. CASE o = "--cflags-only-I"
  <2>1. FilterOf(o) = "I" /\ Wanted(o) = {"I"}
    BY <1>2 DEF FilterOf, Wanted
  <2> QED
    BY <2>1 DEF filterok
<1>3. CASE o = "--cflags-only-other"
  <2>1. FilterOf(o) = "otherc" /\ Wanted(o) = {"L", "l", "other"}
    BY <1>3 DEF FilterOf, Wanted
  <2> QED
    BY <2>1 DEF filterok
<1>4. CASE o = "--libs-only-L"
  <2>1. FilterOf(o) = "L" /\ Wanted(o) = {"L"}
    BY <1>4 DEF FilterOf, Wanted
  <2> QED
    BY <2>1 DEF filterok
<1>5. CASE o = "--libs-only-l"
  <2>1. FilterOf(o) = "l" /\ Wanted(o) = {"l"}
    BY <1>5 DEF FilterOf, Wanted
  <2> QED
    BY <2>1 DEF filterok
<1>6. CASE o = "--libs-only-other"
  <2>1. FilterOf(o) = "otherl" /\ Wanted(o) = {"I", "other"}
    BY <1>6 DEF FilterOf, Wanted
  <2> QED
    BY <2>1 DEF filterok
<1> QED
  BY <1>1, <1>2, <1>3, <1>4, <1>5, <1>6 DEF CflagsOptions, LibsOptions

\* The last option of a kind that none is attached to.
LEMMA LastGiven ==
  ASSUME args \in Inputs, NEW S, S \subseteq Simple, Asked(S)
  PROVE  LET last == LastOf(S)
         IN  last \in DOMAIN args /\ args[last] \in S /\ OptionOf(args[last]) = args[last]
             /\ LastAt(S, Len(args) + 1, last)
<1> DEFINE last == LastOf(S)
           M == Len(args)
<1>1. args \in Seq(STRING) /\ M \in Nat
  BY LineIs
<1>2. Given(S) \subseteq 1 .. M /\ Given(S) # {}
  BY <1>1, AllGiven DEF Asked
<1>3. last \in Given(S) /\ \A j \in Given(S) : j <= last
  BY <1>1, <1>2, MaxIs DEF LastOf
<1> HIDE DEF last
<1>4. LastAt(S, M + 1, last)
  BY <1>1, <1>3, AllGiven
<1>5. last \in DOMAIN args /\ OptionOf(args[last]) \in S
  BY <1>3 DEF Given
<1>6. args[last] \notin DOMAIN Attached
  BY <1>5, Kinds
<1>7. OptionOf(args[last]) = args[last]
  BY <1>6, Kinds
<1> QED
  BY <1>4, <1>5, <1>7 DEF last

\* Fields of packages hold arguments.
LEMMA FieldsHold ==
  ASSUME NEW n \in DOMAIN Repo
  PROVE  /\ Repo[n].cflags.args \in Seq(Arguments) /\ Repo[n].cflagsprivate.args \in Seq(Arguments)
         /\ Repo[n].libs.args \in Seq(Arguments) /\ Repo[n].libsprivate.args \in Seq(Arguments)
BY RepoAssumption DEF Package

\* The packages that are needed are listed in the order found.
LEMMA ListedIs ==
  ASSUME PackagesFound
  PROVE  pkgs \in Seq(DOMAIN Repo) /\ Listed(Needed) = pkgs
<1>1. pkgs \in Seq(Needed) /\ Needed \subseteq DOMAIN Repo
  BY NeededIs DEF PackagesFound, WordsMakeSense
<1>2. pkgs \in Seq(DOMAIN Repo)
  BY <1>1
<1> DEFINE at == {i \in DOMAIN pkgs : pkgs[i] \in Needed}
<1>3. 1 .. Len(pkgs) \subseteq at
  BY <1>1
<1> HIDE DEF at
<1>4. Picked(pkgs, at) = pkgs
  BY <1>2, <1>3, PickedAll
<1> QED
  BY <1>2, <1>4 DEF Listed, at

\* The arguments of fields, filtered, are those of the wanted classes.
LEMMA FilterPicks ==
  ASSUME NEW all \in Seq(Arguments), NEW o \in CflagsOptions \cup LibsOptions
  PROVE  Picked(all, {i \in DOMAIN all : filterok(FilterOf(o), all[i].class)}) =
           Picked(all, {i \in DOMAIN all : all[i].class \in Wanted(o)})
<1>1. \A i \in DOMAIN all : all[i].class \in {"I", "L", "l", "other"}
  <2>1. \A i \in DOMAIN all : all[i] \in Arguments
    OBVIOUS
  <2> QED
    BY <2>1 DEF Arguments
<1>2. \A i \in DOMAIN all : filterok(FilterOf(o), all[i].class) <=> all[i].class \in Wanted(o)
  BY <1>1, FiltersAgree
<1>3. {i \in DOMAIN all : filterok(FilterOf(o), all[i].class)} =
        {i \in DOMAIN all : all[i].class \in Wanted(o)}
  BY <1>2
<1> QED
  BY <1>3

\* The flags of the compiler.
LEMMA CflagsWritten ==
  ASSUME args \in Inputs, AllRead, PackagesFound
  PROVE  /\ set.cflags = "off" => CflagsAsked = <<>>
         /\ set.cflags # "off" =>
              CflagsAsked = Written([i \in DOMAIN pkgs |-> CflagsOf(pkgs[i])], set.cflags)
         /\ CflagsAsked \in Seq(Arguments)
<1>1. /\ set.cflags # "off" <=> Asked(CflagsOptions)
      /\ set.static <=> Static
  BY LineIs, AllGiven DEF AllRead, Settled, Filtered, Switched, Static
<1>2. CASE set.cflags = "off"
  <2>1. CflagsAsked = <<>>
    BY <1>1, <1>2 DEF CflagsAsked
  <2> QED
    BY <1>2, <2>1
<1>3. CASE set.cflags # "off"
  <2> DEFINE o == args[LastOf(CflagsOptions)]
             of(n) == Repo[n].cflags.args \o IF Static THEN Repo[n].cflagsprivate.args ELSE <<>>
             fields == [i \in DOMAIN pkgs |-> CflagsOf(pkgs[i])]
             parts == [i \in DOMAIN pkgs |-> of(pkgs[i])]
             all == FlattenSeq(parts)
  <2>1. CflagsOptions \subseteq Simple
    BY DEF CflagsOptions, Simple
  <2>2. o \in CflagsOptions /\ set.cflags = FilterOf(o)
    BY <1>1, <1>3, <2>1, LastGiven DEF AllRead, Settled, Filtered
  <2>3. pkgs \in Seq(DOMAIN Repo) /\ Listed(Needed) = pkgs
    BY ListedIs
  <2>4. \A n \in DOMAIN Repo : of(n) \in Seq(Arguments)
    BY FieldsHold
  <2>5. parts \in Seq(Seq(Arguments))
    <3> HIDE DEF of
    <3>1. \A i \in DOMAIN pkgs : of(pkgs[i]) \in Seq(Arguments)
      BY <2>3, <2>4
    <3> QED
      BY <2>3, <3>1
  <2>6. CflagsAsked = Picked(all, {i \in DOMAIN all : all[i].class \in Wanted(o)})
    BY <1>1, <1>3, <2>3 DEF CflagsAsked, ArgsOf
  <2>7. parts = [i \in DOMAIN fields |-> fields[i].args]
    <3>1. \A i \in DOMAIN pkgs : fields[i].args = of(pkgs[i])
      BY <1>1 DEF CflagsOf, Both, NoField
    <3>2. DOMAIN fields = DOMAIN pkgs
      OBVIOUS
    <3> HIDE DEF fields, of
    <3> QED
      BY <3>1, <3>2
  <2> HIDE DEF fields, parts, o
  <2>8. Written(fields, FilterOf(o)) =
          Picked(all, {i \in DOMAIN all : filterok(FilterOf(o), all[i].class)})
    BY <2>7 DEF Written
  <2>9. all \in Seq(Arguments)
    BY <2>5, FlattenSteps, FlattenAppend
  <2> HIDE DEF all
  <2>10. CflagsAsked = Written(fields, FilterOf(o))
    BY <2>2, <2>6, <2>8, <2>9, FilterPicks
  <2>11. CflagsAsked \in Seq(Arguments)
    BY <2>6, <2>9, PickedIn
  <2> QED
    BY <1>3, <2>2, <2>10, <2>11 DEF fields
<1> QED
  BY <1>2, <1>3

\* The flags of the linker, which without --static are those of the packages needed publicly.
LEMMA LibsWritten ==
  ASSUME args \in Inputs, AllRead, PackagesFound
  PROVE  /\ set.libs = "off" => LibsAsked = <<>>
         /\ set.libs # "off" =>
              LibsAsked = Written([i \in DOMAIN pkgs |-> LibsOf(pkgs[i])], set.libs)
         /\ LibsAsked \in Seq(Arguments)
<1>1. /\ set.libs # "off" <=> Asked(LibsOptions)
      /\ set.static <=> Static
  BY LineIs, AllGiven DEF AllRead, Settled, Filtered, Switched, Static
<1>2. CASE set.libs = "off"
  <2>1. LibsAsked = <<>>
    BY <1>1, <1>2 DEF LibsAsked
  <2> QED
    BY <1>2, <2>1
<1>3. CASE set.libs # "off"
  <2> DEFINE o == args[LastOf(LibsOptions)]
             of(n) == Repo[n].libs.args \o IF Static THEN Repo[n].libsprivate.args ELSE <<>>
             names == IF Static THEN Needed ELSE NeededPublicly
             list == Listed(names)
             fields == [i \in DOMAIN pkgs |-> LibsOf(pkgs[i])]
             parts == [i \in DOMAIN list |-> of(list[i])]
             all == FlattenSeq(parts)
             gathered == FlattenSeq([i \in DOMAIN fields |-> fields[i].args])
  <2>1. LibsOptions \subseteq Simple
    BY DEF LibsOptions, Simple
  <2>2. o \in LibsOptions /\ set.libs = FilterOf(o)
    BY <1>1, <1>3, <2>1, LastGiven DEF AllRead, Settled, Filtered
  <2>3. pkgs \in Seq(DOMAIN Repo) /\ Listed(Needed) = pkgs
    BY ListedIs
  <2>4. \A n \in DOMAIN Repo : of(n) \in Seq(Arguments)
    BY FieldsHold
  <2>5. list \in Seq(DOMAIN Repo)
    BY <2>3, PickedIn DEF Listed
  <2>6. LibsAsked = Picked(all, {i \in DOMAIN all : all[i].class \in Wanted(o)})
    BY <1>1, <1>3 DEF LibsAsked, ArgsOf
  <2>7. DOMAIN fields = DOMAIN pkgs /\ \A i \in DOMAIN pkgs : fields[i] = LibsOf(pkgs[i])
    OBVIOUS
  <2>8. gathered = all
    <3>1. CASE Static
      <4>1. list = pkgs
        BY <2>3, <3>1
      <4>2. \A n : LibsOf(n).args = of(n)
        BY <1>1, <3>1 DEF LibsOf, Both
      <4> HIDE DEF of, list, fields
      <4>3. [i \in DOMAIN fields |-> fields[i].args] = parts
        BY <2>7, <4>1, <4>2
      <4> QED
        BY <4>3
    <3>2. CASE ~Static
      <4> DEFINE g == [n \in DOMAIN Repo |-> of(n)]
                 S == NeededPublicly
                 each == [i \in DOMAIN pkgs |-> IF pkgs[i] \in S THEN g[pkgs[i]] ELSE <<>>]
      <4>1. g \in [DOMAIN Repo -> Seq(Arguments)]
        BY <2>4
      <4>2. list = Picked(pkgs, {i \in DOMAIN pkgs : pkgs[i] \in S})
        BY <3>2 DEF Listed
      <4>3. \A n \in DOMAIN Repo : LibsOf(n).args = IF n \in S THEN of(n) ELSE <<>>
        <5>1. public = S
          BY DEF PackagesFound
        <5>2. \A n \in DOMAIN Repo : Repo[n].libs.args \o <<>> = Repo[n].libs.args
          BY FieldsHold
        <5>3. \A n : of(n) = Repo[n].libs.args \o <<>>
          BY <3>2
        <5> HIDE DEF of
        <5> QED
          BY <1>1, <3>2, <5>1, <5>2, <5>3 DEF LibsOf, NoField
      <4> HIDE DEF of, list, fields, S
      <4>4. [i \in DOMAIN fields |-> fields[i].args] = each
        <5>1. \A i \in DOMAIN pkgs : pkgs[i] \in DOMAIN Repo
          BY <2>3
        <5>2. \A i \in DOMAIN pkgs : fields[i].args = IF pkgs[i] \in S THEN g[pkgs[i]] ELSE <<>>
          BY <2>7, <4>3, <5>1
        <5> HIDE DEF g
        <5> QED
          BY <2>7, <5>2
      <4>5. [i \in DOMAIN list |-> g[list[i]]] = parts
        <5>1. \A i \in DOMAIN list : list[i] \in DOMAIN Repo
          BY <2>5
        <5>2. \A i \in DOMAIN list : g[list[i]] = of(list[i])
          BY <5>1
        <5> HIDE DEF g
        <5> QED
          BY <5>2
      <4> HIDE DEF g
      <4>6. FlattenSeq(each) = FlattenSeq([i \in DOMAIN list |-> g[list[i]]])
        <5>1. pkgs \in Seq(DOMAIN Repo)
          BY <2>3
        <5>2. FlattenSeq(Only(g, pkgs, S)) = FlattenSeq(Each(g, Picked(pkgs, Among(pkgs, S))))
          BY <4>1, <5>1, FlattenPicked, Zenon
        <5>3. Only(g, pkgs, S) = each
          BY DEF Only
        <5>4. Picked(pkgs, Among(pkgs, S)) = list
          BY <4>2 DEF Among
        <5>5. Each(g, list) = [i \in DOMAIN list |-> g[list[i]]]
          BY DEF Each
        <5> QED
          BY <5>2, <5>3, <5>4, <5>5
      <4> QED
        BY <4>4, <4>5, <4>6
    <3> QED
      BY <3>1, <3>2
  <2>9. parts \in Seq(Seq(Arguments))
    <3> HIDE DEF of, list
    <3>1. \A i \in DOMAIN list : of(list[i]) \in Seq(Arguments)
      BY <2>4, <2>5
    <3> QED
      BY <2>5, <3>1
  <2> HIDE DEF parts, o
  <2>10. all \in Seq(Arguments)
    BY <2>9, FlattenAppend
  <2>11. Written(fields, FilterOf(o)) =
          Picked(gathered, {i \in DOMAIN gathered : filterok(FilterOf(o), gathered[i].class)})
    BY DEF Written
  <2> HIDE DEF all, gathered, fields
  <2>12. LibsAsked = Written(fields, FilterOf(o))
    BY <2>2, <2>6, <2>8, <2>10, <2>11, FilterPicks
  <2>13. LibsAsked \in Seq(Arguments)
    BY <2>6, <2>10, PickedIn
  <2> QED
    BY <1>3, <2>2, <2>12, <2>13 DEF fields
<1> QED
  BY <1>2, <1>3

\* The flags asked for do not change with the command line and the packages.
LEMMA SameFlags ==
  ASSUME args' = args, pkgs' = pkgs
  PROVE  CflagsAsked' = CflagsAsked /\ LibsAsked' = LibsAsked
<1>1. /\ Needed' = Needed /\ NeededPublicly' = NeededPublicly
      /\ Static' <=> Static
  BY SameWords
<1>2. /\ Asked(CflagsOptions)' <=> Asked(CflagsOptions)
      /\ Asked(LibsOptions)' <=> Asked(LibsOptions)
      /\ Given(CflagsOptions)' = Given(CflagsOptions)
      /\ Given(LibsOptions)' = Given(LibsOptions)
  BY SameLine
<1>3. LastOf(CflagsOptions)' = LastOf(CflagsOptions) /\ LastOf(LibsOptions)' = LastOf(LibsOptions)
  BY <1>2 DEF LastOf
<1>4. CflagsAsked' = CflagsAsked
  BY <1>1, <1>2, <1>3 DEF CflagsAsked, ArgsOf, Listed
<1>5. LibsAsked' = LibsAsked
  BY <1>1, <1>2, <1>3 DEF LibsAsked, ArgsOf, Listed
<1> QED
  BY <1>4, <1>5

-----------------------------------------------------------------------------
(***************************************************************************)
(* The line that has the flags.                                            *)
(***************************************************************************)
Newline == Token("text", "newline")

LineOf(flags) ==
  [i \in 1 .. 2 * Len(flags) |->
     IF i % 2 = 1 THEN flags[(i + 1) \div 2]
     ELSE Token("text", IF i < 2 * Len(flags) THEN "delim" ELSE "newline")]

EndsWith(o, asked, flags) ==
  \E n \in 0 .. Len(o) :
    /\ Lines(SubSeq(o, 1, n))
    /\ SubSeq(o, n + 1, Len(o)) =
         IF ~asked THEN <<>> ELSE IF flags = <<>> THEN <<Newline>> ELSE LineOf(flags)

\* A sequence is its two parts, and two sequences are the parts of what they make.
LEMMA Halves ==
  ASSUME NEW o \in Seq(Printed), NEW n \in 0 .. Len(o)
  PROVE  /\ SubSeq(o, 1, n) \in Seq(Printed) /\ SubSeq(o, n + 1, Len(o)) \in Seq(Printed)
         /\ o = SubSeq(o, 1, n) \o SubSeq(o, n + 1, Len(o))
<1> DEFINE N == Len(o)
           p == SubSeq(o, 1, n)
           q == SubSeq(o, n + 1, N)
           r == p \o q
<1>1. N \in Nat /\ n \in Nat /\ n <= N /\ o = [i \in 1 .. N |-> o[i]]
  OBVIOUS
<1>2. \A i \in 1 .. N : o[i] \in Printed
  OBVIOUS
<1>3. p \in Seq(Printed) /\ Len(p) = n /\ \A i \in 1 .. n : p[i] = o[i]
  OBVIOUS
<1>4. q \in Seq(Printed) /\ Len(q) = N - n /\ \A i \in 1 .. N - n : q[i] = o[n + i]
  OBVIOUS
<1> HIDE DEF N, p, q, r
<1>5. /\ r \in Seq(Printed) /\ Len(r) = n + (N - n)
      /\ (\A i \in 1 .. n : r[i] = p[i]) /\ \A i \in 1 .. N - n : r[n + i] = q[i]
  <2>1. p \in Seq(Printed) /\ q \in Seq(Printed)
    BY <1>3, <1>4
  <2>2. /\ p \o q \in Seq(Printed) /\ Len(p \o q) = Len(p) + Len(q)
        /\ \A i \in 1 .. Len(p) : (p \o q)[i] = p[i]
        /\ \A i \in 1 .. Len(q) : (p \o q)[Len(p) + i] = q[i]
    BY <2>1, ConcatIs
  <2>3. r = p \o q
    BY DEF r
  <2> QED
    BY <1>3, <1>4, <2>2, <2>3
<1>6. ASSUME NEW i \in 1 .. N PROVE r[i] = o[i]
  <2>1. CASE i <= n
    <3>1. i \in 1 .. n
      BY <1>1, <2>1
    <3> QED
      BY <1>3, <1>5, <3>1
  <2>2. CASE ~(i <= n)
    <3>1. i - n \in 1 .. N - n /\ n + (i - n) = i
      BY <1>1, <2>2
    <3>2. r[n + (i - n)] = q[i - n] /\ q[i - n] = o[n + (i - n)]
      BY <1>4, <1>5, <3>1
    <3> QED
      BY <3>1, <3>2
  <2> QED
    BY <2>1, <2>2
<1>7. Len(r) = N
  BY <1>1, <1>5
<1>8. r = [i \in 1 .. N |-> r[i]]
  BY <1>5, <1>7
<1>9. r = o
  BY <1>1, <1>6, <1>8
<1> QED
  BY <1>3, <1>4, <1>9 DEF N, p, q, r

\* The two parts of a concatenation are found again in it.
LEMMA PartsBack ==
  ASSUME NEW p \in Seq(Printed), NEW q \in Seq(Printed)
  PROVE  /\ Len(p) \in 0 .. Len(p \o q)
         /\ SubSeq(p \o q, 1, Len(p)) = p
         /\ SubSeq(p \o q, Len(p) + 1, Len(p \o q)) = q
<1> DEFINE m == Len(p)
           k == Len(q)
           o == p \o q
<1>1. /\ o \in Seq(Printed) /\ Len(o) = m + k /\ m \in Nat /\ k \in Nat
      /\ (\A i \in 1 .. m : o[i] = p[i]) /\ (\A i \in 1 .. k : o[m + i] = q[i])
  BY ConcatIs
<1>2. p = [i \in 1 .. m |-> p[i]] /\ q = [i \in 1 .. k |-> q[i]]
  OBVIOUS
<1> HIDE DEF m, k, o
<1>3. m \in 0 .. Len(o) /\ m + k + 1 - (m + 1) = k
  <2>1. m \in Nat /\ k \in Nat /\ Len(o) = m + k
    BY <1>1
  <2> QED
    BY <2>1
<1>4. SubSeq(o, 1, m) = p
  <2>1. m \in Nat
    BY <1>1
  <2>2. SubSeq(o, 1, m) = [i \in 1 .. m |-> o[i]]
    BY <1>1, <1>3
  <2> QED
    BY <1>1, <1>2, <2>2
<1>5. SubSeq(o, m + 1, Len(o)) = q
  <2>1. m \in Nat /\ k \in Nat /\ Len(o) = m + k
    BY <1>1
  <2>2. SubSeq(o, m + 1, m + k) = [i \in 1 .. k |-> o[m + i]]
    BY <1>1, <2>1
  <2> QED
    BY <1>1, <1>2, <2>1, <2>2
<1> QED
  BY <1>3, <1>4, <1>5 DEF o, m

\* Odd numbers and even ones.
LEMMA OddEven ==
  ASSUME NEW g \in Nat, NEW i \in 1 .. 2 * g
  PROVE  \/ i % 2 = 1 /\ \E k \in 1 .. g : i = 2 * k - 1 /\ (i + 1) \div 2 = k
         \/ i % 2 # 1 /\ \E k \in 1 .. g : i = 2 * k
<1>1. CASE i % 2 = 1
  <2> DEFINE k == (i + 1) \div 2
  <2>1. k \in 1 .. g /\ i = 2 * k - 1
    BY <1>1
  <2> QED
    BY <1>1, <2>1
<1>2. CASE i % 2 # 1
  <2> DEFINE k == i \div 2
  <2>1. k \in 1 .. g /\ i = 2 * k
    BY <1>2
  <2> QED
    BY <1>2, <2>1
<1> QED
  BY <1>1, <1>2

\* The flags, and the end of their line.
LEMMA LineEnds ==
  ASSUME NEW s \in Seq(Printed), NEW F \in Seq(Printed), F # <<>>, Spreads(s, F)
  PROVE  s \o <<Newline>> = LineOf(F)
<1> DEFINE g == Len(F)
           z == Len(s)
           r == s \o <<Newline>>
           l == LineOf(F)
<1>1. g \in Nat /\ g # 0
  OBVIOUS
<1>2. /\ z = 2 * g - 1
      /\ (\A k \in 1 .. g : s[2 * k - 1] = F[k]) /\ (\A k \in 1 .. g - 1 : s[2 * k] = Delim)
  BY <1>1 DEF Spreads
<1>3. Newline \in Printed
  <2>1. "newline" \in Names
    BY DEF Names
  <2> QED
    BY <2>1 DEF Newline, Token, Printed
<1>4. /\ Len(<<Newline>>) = 1 /\ <<Newline>>[1] = Newline /\ <<Newline>> \in Seq(Printed)
  BY <1>3
<1>5. /\ r \in Seq(Printed) /\ Len(r) = z + 1
      /\ (\A i \in 1 .. z : r[i] = s[i]) /\ (\A i \in 1 .. 1 : r[z + i] = <<Newline>>[i])
  BY <1>4, ConcatIs
<1>6. r[z + 1] = Newline
  BY <1>4, <1>5
<1>7. l = [i \in 1 .. 2 * g |->
             IF i % 2 = 1 THEN F[(i + 1) \div 2]
             ELSE Token("text", IF i < 2 * g THEN "delim" ELSE "newline")]
  BY DEF LineOf
<1> HIDE DEF g, z, r, l
<1>8. Len(r) = 2 * g /\ z + 1 = 2 * g
  BY <1>1, <1>2, <1>5
<1>9. ASSUME NEW i \in 1 .. 2 * g PROVE r[i] = l[i]
  <2>1. CASE i % 2 = 1
    <3>1. PICK k \in 1 .. g : i = 2 * k - 1 /\ (i + 1) \div 2 = k
      BY <1>1, <2>1, OddEven
    <3>2. i \in 1 .. z
      BY <1>1, <1>2, <3>1
    <3>3. r[i] = s[i] /\ s[2 * k - 1] = F[k]
      BY <1>2, <1>5, <3>1, <3>2
    <3>4. l[i] = F[k]
      BY <1>7, <2>1, <3>1
    <3> QED
      BY <3>1, <3>3, <3>4
  <2>2. CASE i % 2 # 1
    <3>1. PICK k \in 1 .. g : i = 2 * k
      BY <1>1, <2>2, OddEven
    <3>2. l[i] = Token("text", IF i < 2 * g THEN "delim" ELSE "newline")
      BY <1>7, <2>2
    <3>3. CASE k = g
      <4>1. i = z + 1 /\ ~(i < 2 * g)
        BY <1>1, <1>8, <3>1, <3>3
      <4> QED
        BY <1>6, <3>2, <4>1 DEF Newline
    <3>4. CASE k # g
      <4>1. k \in 1 .. g - 1 /\ i < 2 * g /\ i \in 1 .. z
        BY <1>1, <1>2, <3>1, <3>4
      <4>2. r[i] = s[i] /\ s[2 * k] = Delim
        BY <1>2, <1>5, <4>1
      <4> QED
        BY <3>1, <3>2, <4>1, <4>2 DEF Delim
    <3> QED
      BY <3>3, <3>4
  <2> QED
    BY <2>1, <2>2
<1>10. r = [i \in 1 .. 2 * g |-> r[i]]
  BY <1>5, <1>8
<1>11. l = [i \in 1 .. 2 * g |-> l[i]]
  BY <1>7
<1>12. r = l
  BY <1>9, <1>10, <1>11
<1> QED
  BY <1>12 DEF r, l

\* What is printed ends with the line of the flags.
LEMMA EndsRight ==
  ASSUME NEW p \in Seq(Printed), NEW s \in Seq(Printed), NEW F \in Seq(Printed), Lines(p),
         Spreads(s, F), NEW asked \in BOOLEAN, ~asked => F = <<>>
  PROVE  EndsWith((p \o s) \o IF asked THEN <<Newline>> ELSE <<>>, asked, F)
<1> DEFINE end == IF asked THEN <<Newline>> ELSE <<>>
           r == s \o end
           o == (p \o s) \o end
<1>1. end \in Seq(Printed)
  <2>1. "newline" \in Names
    BY DEF Names
  <2>2. Newline \in Printed
    BY <2>1 DEF Newline, Token, Printed
  <2> QED
    BY <2>2
<1>2. r = IF ~asked THEN <<>> ELSE IF F = <<>> THEN <<Newline>> ELSE LineOf(F)
  <2>1. CASE F = <<>>
    <3>1. Len(s) = 0
      BY <2>1 DEF Spreads
    <3>2. s = <<>>
      BY <3>1
    <3>3. r = end
      BY <1>1, <3>2
    <3> QED
      BY <2>1, <3>3
  <2>2. CASE F # <<>>
    <3>1. asked /\ end = <<Newline>>
      BY <2>2
    <3>2. s \o <<Newline>> = LineOf(F)
      BY <2>2, LineEnds
    <3> QED
      BY <2>2, <3>1, <3>2
  <2> QED
    BY <2>1, <2>2
<1> HIDE DEF end
<1>3. r \in Seq(Printed) /\ o = p \o r
  BY <1>1, ConcatIs, ConcatAssoc
<1> HIDE DEF r, o
<1>4. /\ Len(p) \in 0 .. Len(o)
      /\ SubSeq(o, 1, Len(p)) = p /\ SubSeq(o, Len(p) + 1, Len(o)) = r
  BY <1>3, PartsBack
<1>5. EndsWith(o, asked, F)
  BY <1>2, <1>4, Zenon DEF EndsWith
<1> QED
  BY <1>5 DEF o, end

-----------------------------------------------------------------------------
(***************************************************************************)
(* What has been printed, as long as the program goes on: nothing, then    *)
(* lines, then the flags of the compiler behind them, then those of the    *)
(* linker, too, all of them counted.                                       *)
(***************************************************************************)
FlagsOut(F) ==
  /\ argcount = Len(F) /\ out \in Seq(Printed)
  /\ \E n \in 0 .. Len(out) :
       Lines(SubSeq(out, 1, n)) /\ Spreads(SubSeq(out, n + 1, Len(out)), F)

FlagsInv ==
  /\ phase \in {"resolve", "override", "modversion"} => out = <<>>
  /\ phase \notin {"libs", "newline", "ok", "fail"} => argcount = 0
  /\ phase \in {"variable", "cflags"} => out \in Seq(Printed) /\ Lines(out)
  /\ phase = "libs" => FlagsOut(CflagsAsked)
  /\ phase = "newline" => FlagsOut(CflagsAsked \o LibsAsked)
  /\ FlagsOnOneLine

\* Arguments can be printed.
LEMMA ArgumentsPrinted == Seq(Arguments) \subseteq Seq(Printed)
<1>1. Arguments \subseteq Printed
  BY DEF Arguments, Printed, Names
<1> QED
  BY <1>1

\* Lines, and flags behind them.
LEMMA PartsOut ==
  ASSUME NEW p \in Seq(Printed), NEW s \in Seq(Printed), NEW F, Lines(p), Spreads(s, F),
         out = p \o s, argcount = Len(F)
  PROVE  FlagsOut(F)
<1>1. /\ Len(p) \in 0 .. Len(p \o s) /\ SubSeq(p \o s, 1, Len(p)) = p
      /\ SubSeq(p \o s, Len(p) + 1, Len(p \o s)) = s
  BY PartsBack
<1>2. p \o s \in Seq(Printed)
  BY ConcatIs
<1> QED
  BY <1>1, <1>2, Zenon DEF FlagsOut

\* The writing of some more arguments.
LEMMA MoreFlags ==
  ASSUME NEW F \in Seq(Printed), NEW A \in Seq(Printed), NEW p \in Seq(Printed),
         NEW s \in Seq(Printed), Lines(p), Spreads(s, F), out = p \o s, argcount = Len(F),
         out' = out \o Delimited(A), argcount' = argcount + Len(A)
  PROVE  FlagsOut(F \o A)'
<1> DEFINE d == Delimited(A)
<1>1. d \in Seq(Printed) /\ Spreads(s \o d, F \o A)
  BY DelimitedSpreads
<1> HIDE DEF d
<1>2. s \o d \in Seq(Printed) /\ (p \o s) \o d = p \o (s \o d)
  BY <1>1, ConcatIs, ConcatAssoc
<1> DEFINE t == s \o d
           H == F \o A
<1>3. out' = p \o t /\ t \in Seq(Printed) /\ Spreads(t, H)
  BY <1>1, <1>2 DEF d
<1>4. argcount' = Len(H)
  BY ConcatIs
<1> HIDE DEF t, H
<1>5. /\ Len(p) \in 0 .. Len(p \o t) /\ SubSeq(p \o t, 1, Len(p)) = p
      /\ SubSeq(p \o t, Len(p) + 1, Len(p \o t)) = t
  BY <1>3, PartsBack
<1>6. p \o t \in Seq(Printed)
  BY <1>3, ConcatIs
<1>7. \E n \in 0 .. Len(p \o t) :
        Lines(SubSeq(p \o t, 1, n)) /\ Spreads(SubSeq(p \o t, n + 1, Len(p \o t)), H)
  BY <1>3, <1>5, Zenon
<1>8. FlagsOut(H)'
  BY <1>3, <1>4, <1>6, <1>7, Zenon DEF FlagsOut
<1> QED
  BY <1>8 DEF H

\* What has been written.
LEMMA OutParts ==
  ASSUME NEW F, FlagsOut(F)
  PROVE  /\ argcount = Len(F)
         /\ \E p, s \in Seq(Printed) : Lines(p) /\ Spreads(s, F) /\ out = p \o s
<1>1. out \in Seq(Printed) /\ argcount = Len(F)
  BY DEF FlagsOut
<1>2. PICK n \in 0 .. Len(out) :
        Lines(SubSeq(out, 1, n)) /\ Spreads(SubSeq(out, n + 1, Len(out)), F)
  BY DEF FlagsOut
<1>3. /\ SubSeq(out, 1, n) \in Seq(Printed) /\ SubSeq(out, n + 1, Len(out)) \in Seq(Printed)
      /\ out = SubSeq(out, 1, n) \o SubSeq(out, n + 1, Len(out))
  BY <1>1, Halves
<1> QED
  BY <1>1, <1>2, <1>3, Zenon

\* Flags are none of the business of a program that reads options, or fails.
LEMMA NotYet ==
  ASSUME phase' \in {"options", "route"}, argcount' = 0
  PROVE  FlagsInv'
BY DEF FlagsInv, FlagsOnOneLine

\* Nor of one that has failed.
LEMMA NoMore ==
  ASSUME phase' = "fail"
  PROVE  FlagsInv'
BY DEF FlagsInv, FlagsOnOneLine

\* A success without results.
LEMMA NoFlags ==
  ASSUME args' = args, phase' = "ok", Returning # {} \/ Asked({"--list-all"})
  PROVE  FlagsInv'
<1>1. Returning' = Returning /\ (Asked({"--list-all"})' <=> Asked({"--list-all"}))
  BY SameLine
<1>2. FlagsOnOneLine'
  BY <1>1 DEF FlagsOnOneLine
<1> QED
  BY <1>2 DEF FlagsInv

\* Options write nothing.
LEMMA OptionsFlags ==
  ASSUME DriverInv, FlagsInv,
         \/ Word \/ DashDash \/ SimpleOption \/ ValuedOption
         \/ BadOption \/ ReturnOption \/ EndOfOptions
  PROVE  FlagsInv'
<1>1. CASE Word \/ DashDash \/ SimpleOption \/ ValuedOption
  <2>1. phase = "options" /\ phase' = phase /\ argcount' = argcount
    BY <1>1 DEF Word, DashDash, SimpleOption, ValuedOption, IsWord, IsOption, Reading
  <2> QED
    BY <2>1, NotYet DEF FlagsInv
<1>2. CASE BadOption
  <2>1. phase' = "fail"
    BY <1>2 DEF BadOption, FailTo, FailAfter
  <2> QED
    BY <2>1, NoMore
<1>3. CASE ReturnOption
  <2>1. /\ phase' = "ok" /\ phase = "options" /\ args' = args /\ IsOption
    BY <1>3 DEF ReturnOption, Proceed, IsOption, Reading
  <2>2. /\ \A S : index \in Given(S) <=> Option \in S
        /\ Lacks(index) <=> Option \in Valued /\ ~HasValue
    BY <2>1, OptionGiven
  <2>3. index \in Returning
    BY <1>3, <2>2 DEF ReturnOption, Returning
  <2> QED
    BY <2>1, <2>3, NoFlags
<1>4. CASE EndOfOptions
  <2>1. phase = "options" /\ phase' = "route" /\ argcount' = argcount
    BY <1>4 DEF EndOfOptions, Proceed
  <2> QED
    BY <2>1, NotYet DEF FlagsInv
<1> QED
  BY <1>1, <1>2, <1>3, <1>4

\* Nothing is written before the packages are known.
LEMMA RouteFlags == ASSUME DriverInv, FlagsInv, Route PROVE FlagsInv'
<1>1. phase = "route" /\ args' = args /\ argcount' = argcount /\ argcount = 0
  BY DEF Route, FlagsInv
<1>2. AllRead
  BY <1>1 DEF DriverInv
<1>3. out = <<>> /\ (set.listing <=> Asked({"--list-all"}))
  BY <1>1, <1>2, LineIs, AllGiven DEF DriverInv, AllRead, Settled, Switched
<1>4. CASE set.listing
  <2>1. phase' = "ok" \/ phase' = "fail"
    BY <1>4 DEF Route, Proceed, FailAfter
  <2> QED
    BY <1>1, <1>3, <1>4, <2>1, NoFlags, NoMore
<1>5. CASE ~set.listing
  <2>1. phase' = "resolve" /\ out' = out
    BY <1>5 DEF Route, Proceed
  <2> QED
    BY <1>1, <1>3, <2>1 DEF FlagsInv, FlagsOnOneLine
<1> QED
  BY <1>4, <1>5

\* Resolution prints nothing.
LEMMA ResolveFlags == ASSUME DriverInv, FlagsInv, Resolve PROVE FlagsInv'
<1>1. phase = "resolve" /\ argcount' = argcount /\ argcount = 0 /\ out = <<>>
  BY DEF Resolve, FlagsInv
<1>2. (phase' = "override" /\ out' = out) \/ phase' = "fail"
  BY DEF Resolve, Proceed, FailTo, FailAfter
<1>3. CASE phase' = "override" /\ out' = out
  BY <1>1, <1>3 DEF FlagsInv, FlagsOnOneLine
<1> QED
  BY <1>2, <1>3, NoMore

\* Overrides print nothing.
LEMMA OverrideFlags == ASSUME DriverInv, FlagsInv, Override PROVE FlagsInv'
<1>1. phase = "override" /\ argcount' = argcount /\ argcount = 0 /\ out = <<>>
  BY DEF Override, FlagsInv
<1>2. (phase' = "modversion" /\ out' = out) \/ phase' = "fail"
  BY DEF Override, Proceed, FailTo, FailAfter
<1>3. CASE phase' = "modversion" /\ out' = out
  BY <1>1, <1>3 DEF FlagsInv, FlagsOnOneLine
<1> QED
  BY <1>2, <1>3, NoMore

\* Versions are lines.
LEMMA VersionsFlags == ASSUME DriverInv, FlagsInv, PrintVersions PROVE FlagsInv'
<1>1. /\ phase = "modversion" /\ argcount' = argcount /\ argcount = 0 /\ out = <<>>
      /\ phase' = "variable"
  BY DEF PrintVersions, Proceed, FlagsInv
<1>2. PackagesFound
  BY <1>1 DEF DriverInv, FoundSoFar, Results
<1> DEFINE list == Listed(direct)
           parts == [i \in DOMAIN list |-> Line("version", list[i])]
           more == IF set.modversion THEN FlattenSeq(parts) ELSE <<>>
<1>3. list \in Seq(DOMAIN Repo)
  BY <1>2, ListedIs, PickedIn DEF Listed
<1>4. out' = out \o more
  BY DEF PrintVersions
<1> HIDE DEF list
<1>5. \A i \in DOMAIN list : parts[i] \in Seq(Printed) /\ Lines(parts[i])
  <2>1. \A i \in DOMAIN list : list[i] \in Names
    BY <1>3 DEF Names
  <2> QED
    BY <2>1, LinesAre
<1>6. DOMAIN parts = DOMAIN list
  OBVIOUS
<1>7. parts \in Seq(Seq(Printed)) /\ Len(parts) = Len(list) /\ DOMAIN list = 1 .. Len(list)
  <2> DEFINE k == Len(list)
  <2>1. k \in Nat /\ DOMAIN list = 1 .. k
    BY <1>3
  <2> HIDE DEF k
  <2>2. parts \in [1 .. k -> Seq(Printed)]
    BY <1>5, <2>1
  <2> HIDE DEF parts
  <2>3. parts \in Seq(Seq(Printed)) /\ Len(parts) = k
    BY <2>1, <2>2
  <2> QED
    BY <2>1, <2>3 DEF k
<1> HIDE DEF parts
<1>8. FlattenSeq(parts) \in Seq(Printed) /\ Lines(FlattenSeq(parts))
  BY <1>5, <1>7, LinesJoined
<1>9. more \in Seq(Printed) /\ Lines(more)
  BY <1>8, LinesAre
<1> HIDE DEF more
<1>10. out' = more
  BY <1>1, <1>4, <1>9
<1> QED
  BY <1>1, <1>9, <1>10 DEF FlagsInv, FlagsOnOneLine

\* So are the values of a variable.
LEMMA VariableFlags == ASSUME DriverInv, FlagsInv, PrintVariable PROVE FlagsInv'
<1>0. phase' = "fail" \/ (phase' = "cflags" /\ out' = out \o VariableLines(Listed(direct)))
  BY DEF PrintVariable, Proceed, FailAfter
<1> SUFFICES ASSUME phase' = "cflags", out' = out \o VariableLines(Listed(direct))
             PROVE  FlagsInv'
  BY <1>0, NoMore
<1>1. /\ phase = "variable" /\ argcount' = argcount /\ argcount = 0
      /\ out \in Seq(Printed) /\ Lines(out) /\ phase' = "cflags"
  BY DEF PrintVariable, FlagsInv
<1>2. PackagesFound
  BY <1>1 DEF DriverInv, FoundSoFar, Results
<1> DEFINE list == Listed(direct)
           parts == [i \in DOMAIN list |-> VariableLine(list[i])]
           more == FlattenSeq(parts)
<1>3. list \in Seq(DOMAIN Repo)
  BY <1>2, ListedIs, PickedIn DEF Listed
<1>4. out' = out \o more
  BY DEF VariableLines
<1> HIDE DEF list
<1>5. \A i \in DOMAIN list : parts[i] \in Seq(Printed) /\ Lines(parts[i])
  <2>1. ASSUME NEW n \in DOMAIN Repo
        PROVE  VariableLine(n) \in Seq(Printed) /\ Lines(VariableLine(n))
    <3>1. n \in Names /\ "global" \in Names
      BY DEF Names
    <3>2. VariableLine(n) \in {<<>>, Line("value", "global"), Line("value", n)}
      BY DEF VariableLine
    <3> QED
      BY <3>1, <3>2, LinesAre
  <2>2. \A i \in DOMAIN list : list[i] \in DOMAIN Repo
    BY <1>3
  <2> QED
    BY <2>1, <2>2
<1>6. parts \in Seq(Seq(Printed)) /\ Len(parts) = Len(list) /\ DOMAIN list = 1 .. Len(list)
  <2> DEFINE k == Len(list)
  <2>1. k \in Nat /\ DOMAIN list = 1 .. k
    BY <1>3
  <2> HIDE DEF k
  <2>2. parts \in [1 .. k -> Seq(Printed)]
    BY <1>5, <2>1
  <2> HIDE DEF parts
  <2>3. parts \in Seq(Seq(Printed)) /\ Len(parts) = k
    BY <2>1, <2>2
  <2> QED
    BY <2>1, <2>3 DEF k
<1> HIDE DEF parts
<1>7. more \in Seq(Printed) /\ Lines(more)
  BY <1>5, <1>6, LinesJoined
<1> HIDE DEF more
<1>8. out' \in Seq(Printed) /\ Lines(out')
  BY <1>1, <1>4, <1>7, LinesMore
<1>9. Lines(out)'
  BY <1>8 DEF Lines
<1> QED
  BY <1>1, <1>8, <1>9 DEF FlagsInv, FlagsOnOneLine

\* Where the writing of fields leads, and what it writes.
LEMMA WritesOut ==
  ASSUME NEW fields, NEW filter, NEW next, WriteFields(fields, filter, next)
  PROVE  \/ /\ phase' = next
            /\ out' = out \o Delimited(Written(fields, filter))
            /\ argcount' = argcount + Len(Written(fields, filter))
         \/ phase' = "fail"
<1>1. CASE \A i \in DOMAIN fields : fields[i].ok
  BY <1>1 DEF WriteFields, Written, Proceed
<1>2. CASE ~\A i \in DOMAIN fields : fields[i].ok
  BY <1>2 DEF WriteFields, FailTo, FailAfter
<1> QED
  BY <1>1, <1>2

\* The flags of the compiler come behind the lines.
LEMMA CflagsFlags == ASSUME DriverInv, FlagsInv, Cflags PROVE FlagsInv'
<1>1. /\ phase = "cflags" /\ args' = args /\ pkgs' = pkgs /\ argcount = 0
      /\ out \in Seq(Printed) /\ Lines(out) /\ args \in Inputs
  BY DEF Cflags, Resolved, FlagsInv, DriverInv
<1>2. phase \in Going
  BY <1>1 DEF Going
<1>3. AllRead /\ PackagesFound
  BY <1>1, <1>2, GoingKnows DEF FoundSoFar, Results
<1> DEFINE A == CflagsAsked
           fields == [i \in DOMAIN pkgs |-> CflagsOf(pkgs[i])]
<1>4. /\ set.cflags = "off" => A = <<>>
      /\ set.cflags # "off" => A = Written(fields, set.cflags)
      /\ A \in Seq(Arguments)
  BY <1>1, <1>3, CflagsWritten
<1>5. A' = A
  BY <1>1, SameFlags
<1>6. A \in Seq(Printed) /\ <<>> \in Seq(Printed)
  BY <1>4, ArgumentsPrinted
<1>7. Spreads(<<>>, <<>>)
  BY DEF Spreads
<1>8. out \o <<>> = out
  BY <1>1
<1>9. \/ set.cflags = "off" /\ phase' = "libs" /\ out' = out /\ argcount' = argcount
      \/ set.cflags # "off" /\ WriteFields(fields, set.cflags, "libs")
  BY DEF Cflags, Proceed
<1> HIDE DEF A, fields
<1>10. CASE set.cflags = "off" /\ phase' = "libs" /\ out' = out /\ argcount' = argcount
  <2>1. FlagsOut(<<>>)
    BY <1>1, <1>6, <1>7, <1>8, PartsOut
  <2>2. FlagsOut(<<>>)'
    BY <1>10, <2>1 DEF FlagsOut, Lines
  <2>3. A' = <<>>
    BY <1>4, <1>5, <1>10
  <2>4. FlagsOut(A)'
    BY <2>2, <2>3 DEF FlagsOut
  <2> QED
    BY <1>10, <2>4 DEF FlagsInv, FlagsOnOneLine, A
<1>11. CASE set.cflags # "off" /\ WriteFields(fields, set.cflags, "libs")
  <2>1. \/ phase' = "fail"
        \/ phase' = "libs" /\ out' = out \o Delimited(A) /\ argcount' = argcount + Len(A)
    BY <1>4, <1>11, WritesOut
  <2>2. CASE phase' = "fail"
    BY <2>2, NoMore
  <2>3. CASE /\ phase' = "libs" /\ out' = out \o Delimited(A)
             /\ argcount' = argcount + Len(A)
    <3>1. PICK none, a : none = <<>> /\ a = A
      OBVIOUS
    <3>2. out = out \o none /\ argcount = Len(none) /\ none \o a = a
      BY <1>1, <1>6, <1>8, <3>1
    <3>3. none \in Seq(Printed) /\ a \in Seq(Printed) /\ Spreads(none, none)
      BY <1>6, <1>7, <3>1
    <3>4. out' = out \o Delimited(a) /\ argcount' = argcount + Len(a)
      BY <2>3, <3>1
    <3>5. FlagsOut(none \o a)'
      BY <1>1, <3>2, <3>3, <3>4, MoreFlags, Zenon
    <3>6. A' = none \o a
      BY <1>5, <3>1, <3>2
    <3>7. FlagsOut(A)'
      BY <3>5, <3>6 DEF FlagsOut
    <3> QED
      BY <2>3, <3>7 DEF FlagsInv, FlagsOnOneLine, A
  <2> QED
    BY <2>1, <2>2, <2>3
<1> QED
  BY <1>9, <1>10, <1>11

\* Those of the linker come behind them.
LEMMA LibsFlags == ASSUME DriverInv, FlagsInv, Libs PROVE FlagsInv'
<1>1. /\ phase = "libs" /\ args' = args /\ pkgs' = pkgs /\ args \in Inputs
      /\ FlagsOut(CflagsAsked)
  BY DEF Libs, Resolved, FlagsInv, DriverInv
<1>2. phase \in Going
  BY <1>1 DEF Going
<1>3. AllRead /\ PackagesFound
  BY <1>1, <1>2, GoingKnows DEF FoundSoFar, Results
<1> DEFINE F == CflagsAsked
           A == LibsAsked
           fields == [i \in DOMAIN pkgs |-> LibsOf(pkgs[i])]
<1>4. /\ set.libs = "off" => A = <<>>
      /\ set.libs # "off" => A = Written(fields, set.libs)
      /\ A \in Seq(Arguments)
  BY <1>1, <1>3, LibsWritten
<1>5. A' = A /\ F' = F
  BY <1>1, SameFlags
<1>6. A \in Seq(Printed) /\ F \in Seq(Printed)
  BY <1>1, <1>3, <1>4, CflagsWritten, ArgumentsPrinted
<1>7. FlagsOut(F)
  BY <1>1
<1>8. \/ set.libs = "off" /\ phase' = "newline" /\ out' = out /\ argcount' = argcount
      \/ set.libs # "off" /\ WriteFields(fields, set.libs, "newline")
  BY DEF Libs, Proceed
<1> HIDE DEF A, F, fields
<1>9. argcount = Len(F) /\ \E p, s \in Seq(Printed) : Lines(p) /\ Spreads(s, F) /\ out = p \o s
  BY <1>7, OutParts
<1>10. CASE set.libs = "off" /\ phase' = "newline" /\ out' = out /\ argcount' = argcount
  <2>1. A = <<>>
    BY <1>4, <1>10
  <2>2. F \o A = F
    BY <1>6, <2>1
  <2>3. (F \o A)' = F
    BY <1>5, <2>2
  <2>4. FlagsOut(F \o A)'
    BY <1>7, <1>10, <2>3 DEF FlagsOut, Lines
  <2> QED
    BY <1>10, <2>4 DEF FlagsInv, FlagsOnOneLine, A, F
<1>11. CASE set.libs # "off" /\ WriteFields(fields, set.libs, "newline")
  <2>1. \/ phase' = "fail"
        \/ phase' = "newline" /\ out' = out \o Delimited(A) /\ argcount' = argcount + Len(A)
    BY <1>4, <1>11, WritesOut
  <2>2. CASE phase' = "fail"
    BY <2>2, NoMore
  <2>3. CASE /\ phase' = "newline" /\ out' = out \o Delimited(A)
             /\ argcount' = argcount + Len(A)
    <3>1. PICK f, a : f = F /\ a = A
      OBVIOUS
    <3>2. PICK p \in Seq(Printed), s \in Seq(Printed) :
            Lines(p) /\ Spreads(s, f) /\ out = p \o s
      BY <1>9, <3>1
    <3>3. f \in Seq(Printed) /\ a \in Seq(Printed) /\ argcount = Len(f)
      BY <1>6, <1>9, <3>1
    <3>4. out' = out \o Delimited(a) /\ argcount' = argcount + Len(a)
      BY <2>3, <3>1
    <3>5. FlagsOut(f \o a)'
      BY <3>2, <3>3, <3>4, MoreFlags, Zenon
    <3>6. (F \o A)' = f \o a
      BY <1>5, <3>1
    <3>7. FlagsOut(F \o A)'
      BY <3>5, <3>6 DEF FlagsOut
    <3> QED
      BY <2>3, <3>7 DEF FlagsInv, FlagsOnOneLine, A, F
  <2> QED
    BY <2>1, <2>2, <2>3
<1> QED
  BY <1>8, <1>10, <1>11

\* Their line ends if any of them were asked for.
LEMMA EndFlags == ASSUME DriverInv, FlagsInv, EndOfOutput PROVE FlagsInv'
<1> DEFINE F == CflagsAsked \o LibsAsked
           asked == Asked(CflagsOptions \cup LibsOptions)
<1>1. /\ phase = "newline" /\ args' = args /\ pkgs' = pkgs /\ args \in Inputs /\ FlagsOut(F)
      /\ phase' = "ok"
  BY DEF EndOfOutput, Proceed, Resolved, FlagsInv, DriverInv
<1>2. phase \in Going
  BY <1>1 DEF Going
<1>3. AllRead /\ PackagesFound
  BY <1>1, <1>2, GoingKnows DEF FoundSoFar, Results
<1>4. /\ set.cflags # "off" <=> Asked(CflagsOptions)
      /\ set.libs # "off" <=> Asked(LibsOptions)
  BY <1>1, <1>3, LineIs, AllGiven DEF AllRead, Settled, Filtered
<1>5. asked <=> Asked(CflagsOptions) \/ Asked(LibsOptions)
  BY DEF Asked, Given
<1>6. CflagsAsked \in Seq(Printed) /\ LibsAsked \in Seq(Printed)
  BY <1>1, <1>3, CflagsWritten, LibsWritten, ArgumentsPrinted
<1>7. F \in Seq(Printed)
  BY <1>6
<1>8. ~asked => F = <<>>
  <2>1. ~asked => CflagsAsked = <<>> /\ LibsAsked = <<>>
    BY <1>5 DEF CflagsAsked, LibsAsked
  <2> QED
    BY <2>1
<1>9. out' = out \o IF asked THEN <<Newline>> ELSE <<>>
  BY <1>4, <1>5 DEF EndOfOutput, Newline
<1>10. F' = F /\ (asked' <=> asked)
  BY <1>1, SameFlags, SameLine
<1> HIDE DEF F, asked
<1>11. PICK p \in Seq(Printed), s \in Seq(Printed) : Lines(p) /\ Spreads(s, F) /\ out = p \o s
  BY <1>1, OutParts
<1>12. asked \in BOOLEAN
  BY DEF asked, Asked
<1>13. EndsWith((p \o s) \o IF asked THEN <<Newline>> ELSE <<>>, asked, F)
  BY <1>7, <1>8, <1>11, <1>12, EndsRight
<1>14. EndsWith(out', asked, F)
  BY <1>9, <1>11, <1>13
<1>15. (FlagsOnOneLine <=>
         (phase = "ok" /\ Returning = {} /\ ~Asked({"--list-all"}) => EndsWith(out, asked, F)))'
  BY Zenon DEF FlagsOnOneLine, EndsWith, LineOf, Newline, asked, F
<1>16. EndsWith(out, asked, F)'
  BY <1>10, <1>14 DEF EndsWith, Lines
<1>17. FlagsOnOneLine'
  BY <1>15, <1>16
<1> QED
  BY <1>1, <1>17 DEF FlagsInv

\* Nothing is printed at the start.
LEMMA InitFlags == Init => FlagsInv
BY DEF Init, FlagsInv, FlagsOnOneLine

\* Nothing changes when the program has stopped.
LEMMA SameOut == ASSUME FlagsInv, UNCHANGED vars PROVE FlagsInv'
<1>1. /\ args' = args /\ pkgs' = pkgs /\ out' = out /\ argcount' = argcount /\ phase' = phase
  BY DEF vars
<1>2. /\ CflagsAsked' = CflagsAsked /\ LibsAsked' = LibsAsked /\ Returning' = Returning
      /\ \A S : Asked(S)' <=> Asked(S)
  BY <1>1, SameFlags, SameLine
<1>3. FlagsOnOneLine'
  BY <1>1, <1>2 DEF FlagsInv, FlagsOnOneLine, Lines
<1>4. /\ phase' = "libs" => FlagsOut(CflagsAsked)'
      /\ phase' = "newline" => FlagsOut(CflagsAsked \o LibsAsked)'
  BY <1>1, <1>2 DEF FlagsInv, FlagsOut, Lines
<1> QED
  BY <1>1, <1>3, <1>4 DEF FlagsInv, Lines

\* Every step keeps what is printed right.
LEMMA NextFlags == DriverInv /\ FlagsInv /\ [Next]_vars => FlagsInv'
<1> SUFFICES ASSUME DriverInv, FlagsInv, Next \/ UNCHANGED vars PROVE FlagsInv'
  OBVIOUS
<1>1. CASE UNCHANGED vars
  BY <1>1, SameOut
<1>2. CASE Stopped
  BY <1>2, SameOut DEF Stopped
<1> QED
  BY <1>1, <1>2, OptionsFlags, RouteFlags, ResolveFlags, OverrideFlags, VersionsFlags,
     VariableFlags, CflagsFlags, LibsFlags, EndFlags DEF Next

(***************************************************************************)
(* The flags of a success are the arguments asked for, in their order, on  *)
(* one line, the last one, with one delimiter between any two of them.     *)
(***************************************************************************)
THEOREM FlagsOnOneLineCorrect == Spec => []FlagsOnOneLine
<1>1. FlagsInv => FlagsOnOneLine
  BY DEF FlagsInv
<1> QED
  BY <1>1, InitDriver, NextDriver, InitFlags, NextFlags, PTL DEF Spec
=============================================================================
