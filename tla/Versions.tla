------------------------------- MODULE Versions -----------------------------
(***************************************************************************)
(* compareversions(): versions are compared by bytes, and where both have  *)
(* digits, by the numbers that start there, of which the one with more     *)
(* digits is greater.                                                      *)
(***************************************************************************)
EXTENDS Integers, Sequences, SequencesExt

\* A text is a sequence of bytes.
digit(c) == c \in 48 .. 57

Sign(n) == IF n < 0 THEN -1 ELSE IF n > 0 THEN 1 ELSE 0

\* The digits at the start of a text.
Leading(s) == Min({n \in 0 .. Len(s) : n = Len(s) \/ ~digit(s[n+1])})
digits(s)  == SubSeq(s, 1, Leading(s))

\* The order of texts of the same length.
Bytewise(s, t) ==
  LET differ == {i \in DOMAIN s : s[i] # t[i]}
  IN  IF differ = {} THEN 0
      ELSE LET i == CHOOSE i \in differ : \A j \in differ : i <= j IN Sign(s[i] - t[i])

\* The order of two numbers.
Numbers(s, t) == IF Len(s) # Len(t) THEN Sign(Len(s) - Len(t)) ELSE Bytewise(s, t)

\* Before position i the texts do not differ.
compareversions(va, vb) ==
  LET from[i \in 1 .. Len(va) + 1] ==
        IF i > Len(va) \/ i > Len(vb) THEN Sign(Len(va) - Len(vb))
        ELSE IF ~digit(va[i]) \/ ~digit(vb[i])
        THEN IF va[i] # vb[i] THEN Sign(va[i] - vb[i]) ELSE from[i + 1]
        ELSE LET a == digits(SubSeq(va, i, Len(va)))
                 b == digits(SubSeq(vb, i, Len(vb)))
             IN  IF Numbers(a, b) # 0 THEN Numbers(a, b) ELSE from[i + Len(a)]
  IN  from[1]

-----------------------------------------------------------------------------
(***************************************************************************)
(* The order of versions without the loop: a version is a sequence of      *)
(* numbers and other bytes, and the first of these that differs decides.   *)
(* Of two numbers the one with more digits is greater, leading zeros       *)
(* included, and then the one of greater value; a number is greater than   *)
(* the bytes before the digits and less than those after them, and the end *)
(* of a version is less than anything.  So 1.05 is greater than 1.9.       *)
(***************************************************************************)
\* Whether the text ends before i, or one of these begins there.
Parted(s, i) == i = 1 \/ i > Len(s) \/ ~digit(s[i-1]) \/ ~digit(s[i])

\* The position behind the number that is at i.
Behind(s, i) == Min({k \in i .. Len(s) + 1 : k > Len(s) \/ ~digit(s[k])})

ValueOf(s, from, end) ==
  LET value[k \in from .. end] ==
        IF k = from THEN 0 ELSE 10 * value[k-1] + s[k-1] - 48
  IN  value[end]

Key(s, i) ==
  IF i > Len(s) THEN <<-1, 0, 0>>
  ELSE IF digit(s[i]) THEN <<48, Behind(s, i) - i, ValueOf(s, i, Behind(s, i))>>
  ELSE <<s[i], 0, 0>>

Precedes(k, l) ==
  \/ k[1] < l[1]
  \/ k[1] = l[1] /\ k[2] < l[2]
  \/ k[1] = l[1] /\ k[2] = l[2] /\ k[3] < l[3]

Before(va, vb) ==
  \E i \in 1 .. Len(va) + 1 :
    /\ i <= Len(vb) + 1 /\ \A k \in 1 .. i - 1 : va[k] = vb[k]
    /\ Parted(va, i) /\ Parted(vb, i)
    /\ Precedes(Key(va, i), Key(vb, i))

\* The same order, with numbers by their values alone.
PrecedesByValue(k, l) == k[1] < l[1] \/ (k[1] = l[1] /\ k[3] < l[3])

BeforeByValue(va, vb) ==
  \E i \in 1 .. Len(va) + 1 :
    /\ i <= Len(vb) + 1 /\ \A k \in 1 .. i - 1 : va[k] = vb[k]
    /\ Parted(va, i) /\ Parted(vb, i)
    /\ PrecedesByValue(Key(va, i), Key(vb, i))

\* No number of more than one digit starts with a zero.
NoLeadingZeros(s) ==
  \A i \in 1 .. Len(s) - 1 :
    digit(s[i]) /\ digit(s[i+1]) /\ Parted(s, i) => s[i] # 48

=============================================================================
