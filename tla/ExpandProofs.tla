----------------------------- MODULE ExpandProofs ---------------------------
(***************************************************************************)
(* Proofs about Expand: whatever the variables, the texts and the number   *)
(* of entries, the stack of expand() never holds more than fits, a field   *)
(* that is completed is what its text means, and one that is turned down   *)
(* is turned down for what is wrong with it.                               *)
(***************************************************************************)
EXTENDS Expand, SequenceTheorems, WellFoundedInduction, TLAPS

Output == Seq(Lits \cup {"$"})

\* While a field is expanded, it is one that is not yet complete.
ExpandInv == TypeOK /\ (outcome = "running" => Len(base) < Len(input.fields))

-----------------------------------------------------------------------------
(***************************************************************************)
(* Texts and their parts.                                                  *)
(***************************************************************************)
LEMMA LeastNatural ==
  ASSUME NEW I, I \subseteq Nat, I # {}
  PROVE  Min(I) \in I /\ \A i \in I : Min(I) <= i
<1>1. PICK x \in I : \A y \in I : ~(<<y, x>> \in OpToRel(<, Nat))
  BY NatLessThanWellFounded, WFMin, Zenon
<1>2. \A y \in I : ~(y < x)
  BY <1>1 DEF OpToRel
<1>3. \A y \in I : x <= y
  BY <1>2
<1> QED
  BY <1>3 DEF Min

LEMMA Kinds ==
  ASSUME NEW t \in Token
  PROVE  /\ t.kind \in {"lit", "ref", "esc"}
         /\ t.kind = "lit" => t.is \in Lits
         /\ t.kind = "ref" => t.is \in Vars
BY DEF Token, Lit, Ref, Esc

\* Where the literal text at the front of a text ends.
LEMMA FrontEnds ==
  ASSUME NEW s \in Text
  PROVE  \E n \in 0 .. Len(s) :
           /\ Literals(s) = SubSeq(s, 1, n)
           /\ \A i \in 1 .. n : IsLit(s[i])
           /\ After(s) = SubSeq(s, n + 1, Len(s))
<1>1. s \in Seq(Token) /\ Len(s) \in Nat /\ DOMAIN s = 1 .. Len(s)
  BY DEF Text
<1>2. CASE \A i \in DOMAIN s : IsLit(s[i])
  <2>1. Literals(s) = s
    BY <1>2 DEF Literals
  <2>2. s = SubSeq(s, 1, Len(s))
    BY <1>1
  <2>3. After(s) = SubSeq(s, Len(s) + 1, Len(s))
    BY <2>1 DEF After
  <2>4. Len(s) \in 0 .. Len(s) /\ \A i \in 1 .. Len(s) : IsLit(s[i])
    BY <1>1, <1>2
  <2>5. Literals(s) = SubSeq(s, 1, Len(s))
    BY <2>1, <2>2
  <2> QED
    BY <2>3, <2>4, <2>5, Zenon
<1>3. CASE ~(\A i \in DOMAIN s : IsLit(s[i]))
  <2> DEFINE I == {i \in 1 .. Len(s) : ~IsLit(s[i])}
             m == Min(I)
  <2>1. I # {} /\ I \subseteq Nat
    BY <1>1, <1>3
  <2>2. m \in I /\ \A i \in I : m <= i
    BY <2>1, LeastNatural
  <2>3. SelectInSeq(s, LAMBDA t : ~IsLit(t)) = m
    BY <2>1 DEF SelectInSeq
  <2>4. Literals(s) = SubSeq(s, 1, m - 1)
    BY <1>3, <2>3 DEF Literals
  <2> HIDE DEF m
  <2>5. m \in 1 .. Len(s)
    BY <2>2
  <2>6. \A i \in 1 .. m - 1 : IsLit(s[i])
    <3>1. \A i \in 1 .. m - 1 : i \in 1 .. Len(s) /\ ~(m <= i)
      BY <1>1, <2>5
    <3> QED
      BY <2>2, <3>1
  <2>7. Len(SubSeq(s, 1, m - 1)) = m - 1
    BY <1>1, <2>5
  <2>8. After(s) = SubSeq(s, (m - 1) + 1, Len(s))
    BY <2>4, <2>7 DEF After
  <2>9. m - 1 \in 0 .. Len(s)
    BY <1>1, <2>5
  <2> QED
    BY <2>4, <2>6, <2>8, <2>9
<1> QED
  BY <1>2, <1>3

LEMMA PrintedType ==
  ASSUME NEW s \in Text, NEW n \in 0 .. Len(s), \A i \in 1 .. n : IsLit(s[i])
  PROVE  Printed(SubSeq(s, 1, n)) \in Output
<1> DEFINE t == SubSeq(s, 1, n)
<1>1. s \in Seq(Token) /\ Len(s) \in Nat /\ n \in Nat
  BY DEF Text
<1>2. DOMAIN t = 1 .. n /\ \A i \in 1 .. n : t[i] = s[i] /\ s[i] \in Token
  BY <1>1
<1> HIDE DEF t
<1>3. \A i \in 1 .. n : t[i].is \in Lits \cup {"$"}
  BY <1>2, Kinds DEF IsLit
<1>4. [i \in 1 .. n |-> t[i].is] \in Seq(Lits \cup {"$"})
  BY <1>1, <1>3
<1> QED
  BY <1>2, <1>4 DEF Printed, Output, t

LEMMA PartsType ==
  ASSUME NEW s \in Text
  PROVE  /\ Printed(Literals(s)) \in Output
         /\ After(s) \in Text
         /\ After(s) = <<>> => Printed(s) \in Output
<1>1. PICK n \in 0 .. Len(s) :
        /\ Literals(s) = SubSeq(s, 1, n)
        /\ \A i \in 1 .. n : IsLit(s[i])
        /\ After(s) = SubSeq(s, n + 1, Len(s))
  BY FrontEnds
<1>2. s \in Seq(Token) /\ Len(s) \in Nat /\ n \in Nat /\ n <= Len(s)
  BY DEF Text
<1>3. Printed(Literals(s)) \in Output
  BY <1>1, PrintedType
<1>4. After(s) \in Text /\ Len(After(s)) = Len(s) - n
  BY <1>1, <1>2 DEF Text
<1>5. ASSUME After(s) = <<>> PROVE Printed(s) \in Output
  <2>1. n = Len(s)
    BY <1>2, <1>4, <1>5
  <2>2. SubSeq(s, 1, n) = s
    BY <1>2, <2>1
  <2> QED
    BY <1>1, <1>3, <2>2
<1> QED
  BY <1>3, <1>4, <1>5

-----------------------------------------------------------------------------
(***************************************************************************)
(* The invariant is kept.                                                  *)
(***************************************************************************)
LEMMA InitInv == Init => ExpandInv
<1> SUFFICES ASSUME Init PROVE ExpandInv
  OBVIOUS
<1>1. IsInput(input)
  BY InputsAssumption DEF Init
<1>2. input.fields \in Seq(Text) /\ input.fields # <<>>
  BY <1>1 DEF IsInput
<1>3. Len(input.fields) \in Nat /\ Len(input.fields) > 0 /\ input.fields[1] \in Text
  BY <1>2
<1>4. stack \in Seq(Text) /\ Len(stack) = 1
  BY <1>3 DEF Init
<1>5. out \in Seq(Lits \cup {"$"}) /\ base \in Seq(Seq(Lits \cup {"$"})) /\ Len(base) = 0
  BY DEF Init
<1> QED
  BY <1>1, <1>3, <1>4, <1>5, CapAssumption DEF Init, ExpandInv, TypeOK

\* The text at the top is a text, and so is what is below it.
LEMMA TopOfStack ==
  ASSUME ExpandInv, Pops
  PROVE  /\ Head(stack) \in Text
         /\ Tail(stack) \in Seq(Text)
         /\ Len(Tail(stack)) = Len(stack) - 1 /\ Len(stack) \in Nat /\ Len(stack) <= Cap
BY DEF ExpandInv, TypeOK, Pops

LEMMA OnTop ==
  ASSUME NEW top \in Seq(Text), Len(top) = 1, NEW texts \in Seq(Text)
  PROVE  top \o texts \in Seq(Text) /\ Len(top \o texts) = Len(texts) + 1
<1>1. top \o texts \in Seq(Text)
  OBVIOUS
<1>2. Len(top \o texts) = Len(top) + Len(texts)
  BY ConcatProperties, Zenon
<1>3. Len(texts) \in Nat
  OBVIOUS
<1> QED
  BY <1>1, <1>2, <1>3

\* What follows the first token that is not literal, in front of texts.
LEMMA RemainderOn ==
  ASSUME NEW s \in Text, After(s) # <<>>, NEW texts \in Seq(Text)
  PROVE  /\ Head(After(s)) \in Token
         /\ Remainder(s) \o texts \in Seq(Text)
         /\ Len(Remainder(s) \o texts) = Len(texts) + 1
<1>1. After(s) \in Seq(Token)
  BY PartsType DEF Text
<1>2. Head(After(s)) \in Token /\ Tail(After(s)) \in Text
  BY <1>1 DEF Text
<1>3. Remainder(s) \in Seq(Text) /\ Len(Remainder(s)) = 1
  BY <1>2 DEF Remainder
<1> QED
  BY <1>2, <1>3, OnTop

LEMMA Step ==
  ASSUME ExpandInv, outcome = "running",
         stack' \in Seq(Text), Len(stack') <= Cap, out' \in Output,
         UNCHANGED <<input, base>>,
         outcome' \in {"running", "recursion", "undefined"}
  PROVE  ExpandInv'
BY DEF ExpandInv, TypeOK, Output, IsInput, IsEnv

LEMMA OutputMore ==
  ASSUME ExpandInv, NEW more \in Output
  PROVE  out \o more \in Output /\ out \o more \o <<"$">> \in Output
BY DEF ExpandInv, TypeOK, Output

LEMMA PrintPlainInv == ExpandInv /\ PrintPlain => ExpandInv'
<1> SUFFICES ASSUME ExpandInv, PrintPlain PROVE ExpandInv'
  OBVIOUS
<1>1. Pops /\ After(Head(stack)) = <<>> /\ stack' = Tail(stack)
      /\ out' = out \o Printed(Head(stack)) /\ UNCHANGED <<input, base, outcome>>
  BY DEF PrintPlain
<1>2. stack' \in Seq(Text) /\ Len(stack') <= Cap
  BY <1>1, TopOfStack, CapAssumption
<1>3. Printed(Head(stack)) \in Output
  BY <1>1, TopOfStack, PartsType
<1>4. out' \in Output
  BY <1>1, <1>3, OutputMore
<1> QED
  BY <1>1, <1>2, <1>4, Step DEF Pops

LEMMA ReferenceInv == ExpandInv /\ Reference => ExpandInv'
<1> SUFFICES ASSUME ExpandInv, Reference PROVE ExpandInv'
  OBVIOUS
<1> DEFINE below == Remainder(Head(stack)) \o Tail(stack)
<1>1. /\ Pops /\ After(Head(stack)) # <<>> /\ Room(Tail(stack))
      /\ out' = out \o Printed(Literals(Head(stack)))
      /\ UNCHANGED <<input, base, outcome>>
  BY DEF Reference, AtRef
<1>2. PICK value \in lookup(Name) : stack' = <<value>> \o Remainder(Head(stack)) \o Tail(stack)
  BY DEF Reference
<1>3. value \in Text
  <2>1. IsEnv(input.global) /\ IsEnv(input.local)
    BY DEF ExpandInv, TypeOK, IsInput
  <2> QED
    BY <1>2, <2>1 DEF lookup, IsEnv
<1>4. below \in Seq(Text) /\ Len(below) = Len(stack)
  BY <1>1, TopOfStack, RemainderOn
<1>5. Len(stack) < Cap
  BY <1>1, TopOfStack, CapAssumption DEF Room
<1>6. Remainder(Head(stack)) \in Seq(Text)
  <2>1. After(Head(stack)) \in Seq(Token)
    BY <1>1, TopOfStack, PartsType DEF Text
  <2>2. Tail(After(Head(stack))) \in Text
    BY <1>1, <2>1 DEF Text
  <2> QED
    BY <2>2 DEF Remainder
<1>7. <<value>> \in Seq(Text) /\ Len(<<value>>) = 1
  BY <1>3
<1>8. stack' = <<value>> \o below
  BY <1>1, <1>2, <1>6, <1>7, TopOfStack, SMTT(30)
<1> HIDE DEF below
<1>9. stack' \in Seq(Text) /\ Len(stack') <= Cap
  <2>1. stack' \in Seq(Text) /\ Len(stack') = Len(below) + 1
    BY <1>4, <1>7, <1>8
  <2> QED
    BY <1>1, <1>4, <1>5, <2>1, TopOfStack, CapAssumption
<1>10. out' \in Output
  BY <1>1, TopOfStack, PartsType, OutputMore
<1> QED
  BY <1>1, <1>9, <1>10, Step DEF Pops

\* "$$", and a reference to what is not defined, leave what follows.
LEMMA RemainderInv == ExpandInv /\ (Escaped \/ FailUndefined) => ExpandInv'
<1> SUFFICES ASSUME ExpandInv, Escaped \/ FailUndefined PROVE ExpandInv'
  OBVIOUS
<1> DEFINE more == Printed(Literals(Head(stack)))
<1>1. /\ Pops /\ After(Head(stack)) # <<>>
      /\ stack' = Remainder(Head(stack)) \o Tail(stack)
      /\ UNCHANGED <<input, base>>
      /\ outcome' \in {"running", "undefined"}
      /\ out' = out \o more \/ out' = out \o more \o <<"$">>
  BY DEF Escaped, FailUndefined, AtRef, Pops
<1>2. stack' \in Seq(Text) /\ Len(stack') = Len(stack)
  BY <1>1, TopOfStack, RemainderOn
<1>3. Len(stack') <= Cap
  BY <1>1, <1>2, TopOfStack
<1>4. more \in Output
  BY <1>1, TopOfStack, PartsType
<1> HIDE DEF more
<1>5. out' \in Output
  BY <1>1, <1>4, OutputMore
<1> QED
  BY <1>1, <1>2, <1>3, <1>5, Step DEF Pops

LEMMA FailRecursionInv == ExpandInv /\ FailRecursion => ExpandInv'
<1> SUFFICES ASSUME ExpandInv, FailRecursion PROVE ExpandInv'
  OBVIOUS
<1>1. outcome = "running" /\ outcome' = "recursion" /\ UNCHANGED <<input, stack, out, base>>
  BY DEF FailRecursion, AtRef, Pops
<1>2. stack \in Seq(Text) /\ Len(stack) <= Cap /\ out \in Output
  BY DEF ExpandInv, TypeOK, Output
<1> QED
  BY <1>1, <1>2, Step

LEMMA FieldInv == ExpandInv /\ (NextField \/ Finish) => ExpandInv'
<1> SUFFICES ASSUME ExpandInv, NextField \/ Finish PROVE ExpandInv'
  OBVIOUS
<1> DEFINE printed == Seq(Lits \cup {"$"})
<1>1. /\ outcome = "running" /\ base' = Append(base, out) /\ UNCHANGED input
      /\ IsInput(input) /\ stack \in Seq(Text) /\ Len(stack) <= Cap
      /\ out \in printed /\ base \in Seq(printed) /\ Len(base) < Len(input.fields)
  BY DEF NextField, Finish, FieldDone, ExpandInv, TypeOK
<1>2. input.fields \in Seq(Text)
  BY <1>1 DEF IsInput
<1> HIDE DEF printed
<1>3. /\ base' \in Seq(printed) /\ Len(base') = Len(base) + 1
      /\ Len(base') \in Nat /\ Len(base') <= Len(input.fields)
  BY <1>1, <1>2
<1>4. IsInput(input)' /\ input'.fields = input.fields
  BY <1>1 DEF IsInput, IsEnv
<1>5. CASE NextField
  <2>1. Len(base') + 1 \in 1 .. Len(input.fields)
    BY <1>2, <1>3, <1>5 DEF NextField
  <2>2. input.fields[Len(base') + 1] \in Text
    BY <1>2, <2>1
  <2>3. stack' \in Seq(Text) /\ Len(stack') = 1
    BY <1>5, <2>2 DEF NextField
  <2>4. out' \in printed
    BY <1>5 DEF NextField, printed
  <2>5. outcome' = "running" /\ Len(base') < Len(input.fields)
    BY <1>1, <1>5 DEF NextField
  <2> QED
    BY <1>3, <1>4, <2>3, <2>4, <2>5, CapAssumption DEF ExpandInv, TypeOK, printed
<1>6. CASE Finish
  <2>1. outcome' = "ok" /\ stack' = stack /\ out' = out
    BY <1>6 DEF Finish
  <2> QED
    BY <1>1, <1>3, <1>4, <2>1 DEF ExpandInv, TypeOK, printed
<1> QED
  BY <1>5, <1>6

(***************************************************************************)
(* Whatever the variables, the fields and the capacity, the stack is never *)
(* beyond its capacity, and what is printed is literal text: no part of a  *)
(* reference is left in it.                                                *)
(***************************************************************************)
THEOREM TypeCorrect == Spec => []TypeOK
<1>1. ExpandInv /\ UNCHANGED vars => ExpandInv'
  BY DEF vars, ExpandInv, TypeOK, IsInput, IsEnv
<1>2. ExpandInv /\ Next => ExpandInv'
  BY <1>1, PrintPlainInv, ReferenceInv, RemainderInv, FailRecursionInv, FieldInv DEF Next, Stopped
<1>3. ExpandInv => TypeOK
  BY DEF ExpandInv
<1> QED
  BY <1>1, <1>2, <1>3, InitInv, PTL DEF Spec

-----------------------------------------------------------------------------
(***************************************************************************)
(* The recursive definitions say what they seem to say.                    *)
(***************************************************************************)
LEMMA NaturalsFrom0 ==
  ASSUME NEW S, 0 \in S, \A n \in Nat : n \in S => n + 1 \in S
  PROVE  Nat \subseteq S
<1> SUFFICES ASSUME Nat \ S # {} PROVE FALSE
  OBVIOUS
<1>1. Min(Nat \ S) \in Nat \ S /\ \A i \in Nat \ S : Min(Nat \ S) <= i
  <2>1. Nat \ S \subseteq Nat
    OBVIOUS
  <2> QED
    BY <2>1, LeastNatural
<1> DEFINE x == Min(Nat \ S)
<1> HIDE DEF x
<1>2. x \in Nat /\ x \notin S /\ \A i \in Nat \ S : x <= i
  BY <1>1 DEF x
<1>3. x - 1 \in Nat /\ (x - 1) + 1 = x /\ x - 1 \in S
  BY <1>2
<1> QED
  BY <1>2, <1>3

\* How a text is pieced together, from its end.
Joins(g, n, m, s) ==
  g = [i \in 1 .. Len(s) + 1 |->
         IF i > Len(s) THEN <<>> ELSE Piece(n, m, s[i]) \o g[i + 1]]

Layer(n, m) == [text \in Texts |-> Pieces(n, m, text)]

Layers(f, N) == f = [n \in 0 .. N |-> Layer(n, f[n - 1])]

LEMMA PiecesChosen ==
  ASSUME NEW n, NEW m, NEW s
  PROVE  Pieces(n, m, s) = (CHOOSE g : Joins(g, n, m, s))[1]
BY DEF Pieces, Joins

LEMMA JoinsExist ==
  ASSUME NEW n, NEW m, NEW s \in Text
  PROVE  \E g : Joins(g, n, m, s)
<1> DEFINE L == Len(s)
           piece(i) == Piece(n, m, s[i])
           From(g, k) == g = [i \in L + 1 - k .. L + 1 |->
                                IF i > L THEN <<>> ELSE piece(i) \o g[i + 1]]
           S == {k \in Nat : k <= L => \E g : From(g, k)}
<1>1. L \in Nat
  BY DEF Text
<1> HIDE DEF L, piece, From
<1>2. 0 \in S
  <2> DEFINE g == [i \in L + 1 - 0 .. L + 1 |-> <<>>]
  <2>1. \A i \in L + 1 - 0 .. L + 1 : i > L
    BY <1>1
  <2>2. g = [i \in L + 1 - 0 .. L + 1 |-> IF i > L THEN <<>> ELSE piece(i) \o g[i + 1]]
    BY <2>1
  <2> HIDE DEF g
  <2>3. From(g, 0)
    BY <2>2 DEF From
  <2> QED
    BY <2>3
<1>3. ASSUME NEW k \in Nat, k \in S PROVE k + 1 \in S
  <2> SUFFICES ASSUME k + 1 <= L PROVE \E g : From(g, k + 1)
    OBVIOUS
  <2>1. PICK g : From(g, k)
    BY <1>1, <1>3
  <2> DEFINE b == L - k
             first == piece(b) \o g[b + 1]
             h == [i \in b .. L + 1 |-> IF i = b THEN first ELSE g[i]]
  <2>2. /\ b \in Nat /\ b >= 1 /\ b <= L /\ L + 1 - (k + 1) = b /\ L + 1 - k = b + 1
        /\ \A i \in b .. L + 1 : i = b \/ i \in b + 1 .. L + 1
        /\ \A i \in b + 1 .. L + 1 : i \in b .. L + 1 /\ i # b
        /\ b + 1 \in b + 1 .. L + 1 /\ b \in b .. L + 1
        /\ \A i \in b + 1 .. L + 1 : ~(i > L) => i + 1 \in b + 1 .. L + 1
    BY <1>1
  <2> HIDE DEF b
  <2>3. \A i \in b + 1 .. L + 1 : g[i] = IF i > L THEN <<>> ELSE piece(i) \o g[i + 1]
    BY <2>1, <2>2 DEF From
  <2> HIDE DEF first
  <2>4. h[b] = first /\ \A i \in b + 1 .. L + 1 : h[i] = g[i]
    BY <2>2
  <2> HIDE DEF h
  <2>5. h[b] = piece(b) \o h[b + 1] /\ ~(b > L)
    <3>1. h[b + 1] = g[b + 1]
      BY <2>2, <2>4
    <3>2. first = piece(b) \o h[b + 1]
      BY <3>1, Zenon DEF first
    <3> QED
      BY <1>1, <2>2, <2>4, <3>2
  <2>6. \A i \in b + 1 .. L + 1 : h[i] = IF i > L THEN <<>> ELSE piece(i) \o h[i + 1]
    BY <2>2, <2>3, <2>4
  <2>7. h = [i \in b .. L + 1 |-> IF i > L THEN <<>> ELSE piece(i) \o h[i + 1]]
    <3>1. \A i \in b .. L + 1 : h[i] = IF i > L THEN <<>> ELSE piece(i) \o h[i + 1]
      BY <2>2, <2>5, <2>6
    <3> QED
      BY <3>1 DEF h
  <2>8. From(h, k + 1)
    BY <2>2, <2>7 DEF From
  <2> QED
    BY <2>8
<1>4. Nat \subseteq S
  <2> HIDE DEF S
  <2> QED
    BY <1>2, <1>3, NaturalsFrom0
<1>5. PICK g : From(g, L)
  <2>1. L \in S /\ L <= L
    BY <1>1, <1>4
  <2> QED
    BY <2>1
<1>6. L + 1 - L = 1
  BY <1>1
<1>7. Joins(g, n, m, s)
  BY <1>5, <1>6 DEF From, Joins, L, piece
<1> QED
  BY <1>7

\* The pieces from i on, for all i.
From(g, n, m, s) ==
  /\ Pieces(n, m, s) = g[1]
  /\ g[Len(s) + 1] = <<>>
  /\ \A i \in 1 .. Len(s) : g[i] = Piece(n, m, s[i]) \o g[i + 1]

LEMMA FromExists == ASSUME NEW n, NEW m, NEW s \in Text PROVE \E g : From(g, n, m, s)
<1> DEFINE g == CHOOSE f : Joins(f, n, m, s)
<1>1. Joins(g, n, m, s) /\ Pieces(n, m, s) = g[1]
  BY JoinsExist, PiecesChosen
<1> HIDE DEF g
<1>2. Len(s) \in Nat
  BY DEF Text
<1>3. /\ Len(s) + 1 \in 1 .. Len(s) + 1 /\ Len(s) + 1 > Len(s)
      /\ \A i \in 1 .. Len(s) : i \in 1 .. Len(s) + 1 /\ ~(i > Len(s))
  BY <1>2
<1>4. \A i \in 1 .. Len(s) + 1 :
        g[i] = IF i > Len(s) THEN <<>> ELSE Piece(n, m, s[i]) \o g[i + 1]
  BY <1>1 DEF Joins
<1>5. From(g, n, m, s)
  BY <1>1, <1>3, <1>4 DEF From
<1> QED
  BY <1>5

\* Where nothing may be nested, it does not matter what references mean.
LEMMA LayerZero == ASSUME NEW l, NEW m PROVE Layer(0, l) = Layer(0, m)
<1>1. \A token : Piece(0, l, token) = Piece(0, m, token)
  BY DEF Piece
<1>2. \A g, s : Joins(g, 0, l, s) <=> Joins(g, 0, m, s)
  BY <1>1, Zenon DEF Joins
<1>3. \A s : Pieces(0, l, s) = Pieces(0, m, s)
  <2>1. \A s : (CHOOSE g : Joins(g, 0, l, s)) = (CHOOSE g : Joins(g, 0, m, s))
    BY <1>2, Zenon
  <2> QED
    BY <2>1, PiecesChosen, Zenon
<1> QED
  BY <1>3, Zenon DEF Layer


LEMMA LayersExist == \A N \in Nat : \E f : Layers(f, N)
<1> DEFINE S == {N \in Nat : \E f : Layers(f, N)}
<1>1. 0 \in S
  <2> DEFINE f == [n \in 0 .. 0 |-> Layer(0, 0)]
  <2>1. f = [n \in 0 .. 0 |-> Layer(n, f[n - 1])]
    BY LayerZero
  <2> HIDE DEF f
  <2>2. Layers(f, 0)
    BY <2>1 DEF Layers
  <2> QED
    BY <2>2
<1>2. ASSUME NEW N \in Nat, N \in S PROVE N + 1 \in S
  <2>1. PICK f : Layers(f, N)
    BY <1>2
  <2> DEFINE more == Layer(N + 1, f[N])
             h == [n \in 0 .. N + 1 |-> IF n = N + 1 THEN more ELSE f[n]]
  <2>2. \A n \in 0 .. N : f[n] = Layer(n, f[n - 1])
    BY <2>1 DEF Layers
  <2> HIDE DEF more
  <2>3. \A n \in 0 .. N : n \in 0 .. N + 1 /\ n # N + 1 /\ h[n] = f[n]
    OBVIOUS
  <2>4. h[N + 1] = more
    OBVIOUS
  <2> HIDE DEF h
  <2>5. h[N + 1] = Layer(N + 1, h[(N + 1) - 1])
    <3>1. (N + 1) - 1 = N /\ h[N] = f[N]
      BY <2>3
    <3> QED
      BY <2>4, <3>1 DEF more
  <2>6. ASSUME NEW n \in 0 .. N PROVE h[n] = Layer(n, h[n - 1])
    <3>1. CASE n = 0
      <4>1. h[0] = Layer(0, f[0 - 1])
        BY <2>2, <2>3, <3>1
      <4> QED
        BY <3>1, <4>1, LayerZero
    <3>2. CASE n # 0
      <4>1. n - 1 \in 0 .. N
        BY <3>2
      <4> QED
        BY <2>2, <2>3, <4>1
    <3> QED
      BY <3>1, <3>2
  <2>7. h = [n \in 0 .. N + 1 |-> Layer(n, h[n - 1])]
    <3>1. \A n \in 0 .. N + 1 : n = N + 1 \/ n \in 0 .. N
      OBVIOUS
    <3>2. \A n \in 0 .. N + 1 : h[n] = Layer(n, h[n - 1])
      BY <2>5, <2>6, <3>1
    <3> QED
      BY <3>2 DEF h
  <2>8. Layers(h, N + 1)
    BY <2>7 DEF Layers
  <2> QED
    BY <2>8
<1>3. Nat \subseteq S
  <2> HIDE DEF S
  <2> QED
    BY <1>1, <1>2, NaturalsFrom0
<1> QED
  BY <1>3

\* What a text means is pieced together from what its references mean.
LEMMA MeaningSteps ==
  ASSUME NEW n \in 0 .. Cap - 1, NEW text \in Texts
  PROVE  Meaning[n + 1][text] = Pieces(n + 1, Meaning[n], text)
<1>1. Meaning = CHOOSE f : Layers(f, Cap)
  BY DEF Meaning, Layers, Layer
<1>2. Layers(Meaning, Cap)
  BY <1>1, LayersExist, CapAssumption
<1>3. n + 1 \in 0 .. Cap /\ (n + 1) - 1 = n
  BY CapAssumption
<1>4. Meaning[n + 1] = Layer(n + 1, Meaning[n])
  BY <1>2, <1>3 DEF Layers
<1> QED
  BY <1>4 DEF Layer

\* The texts whose references are to one of some texts, or undefined.
ShallowLayer(n, m) ==
  {text \in Texts : \A v \in Mentions(text) :
     n > 0 /\ (v \in DOMAIN Bound => Bound[v] \in m)}

ShallowLayers(f, N) == f = [n \in 0 .. N |-> ShallowLayer(n, f[n - 1])]

LEMMA ShallowZero == ASSUME NEW l, NEW m PROVE ShallowLayer(0, l) = ShallowLayer(0, m)
BY DEF ShallowLayer

LEMMA ShallowLayersExist == \A N \in Nat : \E f : ShallowLayers(f, N)
<1> DEFINE S == {N \in Nat : \E f : ShallowLayers(f, N)}
<1>1. 0 \in S
  <2> DEFINE f == [n \in 0 .. 0 |-> ShallowLayer(0, 0)]
  <2>1. f = [n \in 0 .. 0 |-> ShallowLayer(n, f[n - 1])]
    BY ShallowZero
  <2> HIDE DEF f
  <2>2. ShallowLayers(f, 0)
    BY <2>1 DEF ShallowLayers
  <2> QED
    BY <2>2
<1>2. ASSUME NEW N \in Nat, N \in S PROVE N + 1 \in S
  <2>1. PICK f : ShallowLayers(f, N)
    BY <1>2
  <2> DEFINE more == ShallowLayer(N + 1, f[N])
             h == [n \in 0 .. N + 1 |-> IF n = N + 1 THEN more ELSE f[n]]
  <2>2. \A n \in 0 .. N : f[n] = ShallowLayer(n, f[n - 1])
    BY <2>1 DEF ShallowLayers
  <2> HIDE DEF more
  <2>3. \A n \in 0 .. N : n \in 0 .. N + 1 /\ n # N + 1 /\ h[n] = f[n]
    OBVIOUS
  <2>4. h[N + 1] = more
    OBVIOUS
  <2> HIDE DEF h
  <2>5. h[N + 1] = ShallowLayer(N + 1, h[(N + 1) - 1])
    <3>1. (N + 1) - 1 = N /\ h[N] = f[N]
      BY <2>3
    <3> QED
      BY <2>4, <3>1 DEF more
  <2>6. ASSUME NEW n \in 0 .. N PROVE h[n] = ShallowLayer(n, h[n - 1])
    <3>1. CASE n = 0
      <4>1. h[0] = ShallowLayer(0, f[0 - 1])
        BY <2>2, <2>3, <3>1
      <4> QED
        BY <3>1, <4>1, ShallowZero
    <3>2. CASE n # 0
      <4>1. n - 1 \in 0 .. N
        BY <3>2
      <4> QED
        BY <2>2, <2>3, <4>1
    <3> QED
      BY <3>1, <3>2
  <2>7. h = [n \in 0 .. N + 1 |-> ShallowLayer(n, h[n - 1])]
    <3>1. \A n \in 0 .. N + 1 : n = N + 1 \/ n \in 0 .. N
      OBVIOUS
    <3>2. \A n \in 0 .. N + 1 : h[n] = ShallowLayer(n, h[n - 1])
      BY <2>5, <2>6, <3>1
    <3> QED
      BY <3>2 DEF h
  <2>8. ShallowLayers(h, N + 1)
    BY <2>7 DEF ShallowLayers
  <2> QED
    BY <2>8
<1>3. Nat \subseteq S
  <2> HIDE DEF S
  <2> QED
    BY <1>1, <1>2, NaturalsFrom0
<1> QED
  BY <1>3

LEMMA ShallowSteps ==
  ASSUME NEW n \in 0 .. Cap - 1
  PROVE  Shallow[n] = {text \in Texts : \A v \in Mentions(text) :
                         n > 0 /\ (v \in DOMAIN Bound => Bound[v] \in Shallow[n - 1])}
<1>1. Shallow = CHOOSE f : ShallowLayers(f, Cap - 1)
  BY DEF Shallow, ShallowLayers, ShallowLayer
<1>2. ShallowLayers(Shallow, Cap - 1)
  <2>1. Cap - 1 \in Nat
    BY CapAssumption
  <2> QED
    BY <1>1, <2>1, ShallowLayersExist
<1>3. Shallow[n] = ShallowLayer(n, Shallow[n - 1])
  BY <1>2 DEF ShallowLayers
<1> QED
  BY <1>3 DEF ShallowLayer


-----------------------------------------------------------------------------
(***************************************************************************)
(* Texts that are pieced together.                                         *)
(***************************************************************************)
LEMMA TextFacts ==
  ASSUME NEW s \in Text
  PROVE  s \in Seq(Token) /\ Len(s) \in Nat /\ DOMAIN s = 1 .. Len(s)
         /\ \A i \in 1 .. Len(s) : s[i] \in Token
BY DEF Text

\* If all pieces are output, so is all from any of them on.
LEMMA FromType ==
  ASSUME NEW n, NEW m, NEW s \in Text, NEW g, From(g, n, m, s),
         \A i \in 1 .. Len(s) : Piece(n, m, s[i]) \in Output
  PROVE  \A i \in 1 .. Len(s) + 1 : g[i] \in Output
<1> DEFINE L == Len(s)
           S == {d \in Nat : d <= L => g[L + 1 - d] \in Output}
<1>1. L \in Nat
  BY TextFacts
<1>2. g[L + 1] = <<>> /\ \A i \in 1 .. L : g[i] = Piece(n, m, s[i]) \o g[i + 1]
  BY DEF From
<1> HIDE DEF L
<1>3. 0 \in S
  <2>1. L + 1 - 0 = L + 1 /\ <<>> \in Output
    BY <1>1 DEF Output
  <2> QED
    BY <1>2, <2>1
<1>4. ASSUME NEW d \in Nat, d \in S PROVE d + 1 \in S
  <2> SUFFICES ASSUME d + 1 <= L PROVE g[L + 1 - (d + 1)] \in Output
    OBVIOUS
  <2> DEFINE i == L - d
  <2>1. i \in 1 .. L /\ i + 1 = L + 1 - d /\ i = L + 1 - (d + 1) /\ d <= L
    BY <1>1
  <2>2. g[i + 1] \in Output
    BY <1>4, <2>1
  <2> DEFINE first == Piece(n, m, s[i])
  <2>3. first \in Output
    BY <2>1 DEF L
  <2>4. g[i] = first \o g[i + 1]
    BY <1>2, <2>1
  <2> HIDE DEF first, i
  <2>5. first \o g[i + 1] \in Output
    BY <2>2, <2>3 DEF Output
  <2> QED
    BY <2>1, <2>4, <2>5
<1>5. Nat \subseteq S
  <2> HIDE DEF S
  <2> QED
    BY <1>3, <1>4, NaturalsFrom0
<1>6. ASSUME NEW i \in 1 .. L + 1 PROVE g[i] \in Output
  <2>1. L + 1 - i \in Nat /\ L + 1 - i <= L /\ L + 1 - (L + 1 - i) = i
    BY <1>1
  <2>2. L + 1 - i \in S
    BY <1>5, <2>1, Zenon
  <2> QED
    BY <2>1, <2>2
<1> QED
  BY <1>6 DEF L

\* The end of a text is pieced together as it is within the text.
LEMMA FromEnd ==
  ASSUME NEW n, NEW m, NEW s \in Text, NEW g, From(g, n, m, s), NEW j \in 0 .. Len(s)
  PROVE  Pieces(n, m, SubSeq(s, j + 1, Len(s))) = g[j + 1]
<1> DEFINE L == Len(s)
           r == SubSeq(s, j + 1, L)
           K == L - j
<1>1. L \in Nat /\ K \in Nat /\ j + K = L
  BY TextFacts
<1>2. r \in Text /\ Len(r) = K /\ \A i \in 1 .. K : r[i] = s[j + i]
  <2>1. s \in Seq(Token) /\ L = Len(s)
    BY TextFacts
  <2>2. r \in Seq(Token)
    BY <2>1
  <2>3. Len(r) = K
    <3>1. Len(r) = IF j + 1 <= L THEN L - (j + 1) + 1 ELSE 0
      BY <1>1, <2>1
    <3>2. j \in Int /\ j <= L
      BY <1>1
    <3> HIDE DEF r, L
    <3> QED
      BY <1>1, <3>1, <3>2
  <2>4. \A i \in 1 .. K : r[i] = s[j + i]
    BY <1>1, <2>1
  <2> QED
    BY <2>2, <2>3, <2>4 DEF Text
<1> HIDE DEF r
<1>3. PICK h : From(h, n, m, r)
  BY <1>2, FromExists
<1>4. h[K + 1] = <<>> /\ \A i \in 1 .. K : h[i] = Piece(n, m, s[j + i]) \o h[i + 1]
  BY <1>2, <1>3 DEF From
<1>5. g[L + 1] = <<>> /\ \A i \in 1 .. L : g[i] = Piece(n, m, s[i]) \o g[i + 1]
  BY DEF From
<1> HIDE DEF L, K
<1> DEFINE S == {d \in Nat : d <= K => h[K + 1 - d] = g[L + 1 - d]}
<1>6. 0 \in S
  <2>1. K + 1 - 0 = K + 1 /\ L + 1 - 0 = L + 1
    BY <1>1
  <2> QED
    BY <1>4, <1>5, <2>1
<1>7. ASSUME NEW d \in Nat, d \in S PROVE d + 1 \in S
  <2> SUFFICES ASSUME d + 1 <= K PROVE h[K + 1 - (d + 1)] = g[L + 1 - (d + 1)]
    OBVIOUS
  <2>1. /\ K - d \in 1 .. K /\ (K - d) + 1 = K + 1 - d /\ K - d = K + 1 - (d + 1)
        /\ L - d \in 1 .. L /\ (L - d) + 1 = L + 1 - d /\ L - d = L + 1 - (d + 1)
        /\ j + (K - d) = L - d /\ d <= K
    BY <1>1
  <2>2. h[K + 1 - d] = g[L + 1 - d]
    BY <1>7, <2>1
  <2>3. h[K - d] = Piece(n, m, s[L - d]) \o h[K + 1 - d]
    BY <1>4, <2>1
  <2>4. g[L - d] = Piece(n, m, s[L - d]) \o g[L + 1 - d]
    BY <1>5, <2>1
  <2>5. h[K - d] = g[L - d]
    BY <2>2, <2>3, <2>4, Zenon
  <2> QED
    BY <2>1, <2>5
<1>8. Nat \subseteq S
  <2> HIDE DEF S
  <2> QED
    BY <1>6, <1>7, NaturalsFrom0
<1>9. h[1] = g[j + 1]
  <2>1. K \in S /\ K <= K /\ K + 1 - K = 1 /\ L + 1 - K = j + 1
    BY <1>1, <1>8
  <2> QED
    BY <2>1
<1>10. Pieces(n, m, r) = h[1]
  BY <1>3 DEF From
<1> QED
  BY <1>9, <1>10 DEF r, L

LEMMA SeqAssociative ==
  ASSUME NEW X, NEW x \in Seq(X), NEW y \in Seq(X), NEW z \in Seq(X)
  PROVE  (x \o y) \o z = x \o (y \o z)
BY ConcatAssociative

LEMMA Associative ==
  ASSUME NEW x \in Output, NEW y \in Output, NEW z \in Output
  PROVE  (x \o y) \o z = x \o (y \o z)
<1> DEFINE X == Lits \cup {"$"}
<1>1. x \in Seq(X) /\ y \in Seq(X) /\ z \in Seq(X)
  BY DEF Output
<1> HIDE DEF X
<1> QED
  BY <1>1, SeqAssociative

LEMMA PrintedMore ==
  ASSUME NEW s \in Text, NEW j \in Nat, j + 1 <= Len(s),
         \A i \in 1 .. j + 1 : IsLit(s[i])
  PROVE  Printed(SubSeq(s, 1, j + 1)) = Printed(SubSeq(s, 1, j)) \o <<s[j + 1].is>>
<1> DEFINE t == SubSeq(s, 1, j)
           u == SubSeq(s, 1, j + 1)
           X == Lits \cup {"$"}
<1>1. /\ DOMAIN t = 1 .. j /\ DOMAIN u = 1 .. j + 1
      /\ \A i \in 1 .. j : t[i] = s[i]
      /\ \A i \in 1 .. j + 1 : u[i] = s[i]
  BY TextFacts
<1> DEFINE before == Printed(t)
           all == Printed(u)
           x == s[j + 1].is
<1>2. before \in Seq(X) /\ all \in Seq(X)
  <2>1. j \in 0 .. Len(s) /\ j + 1 \in 0 .. Len(s) /\ \A i \in 1 .. j : IsLit(s[i])
    BY TextFacts
  <2> QED
    BY <2>1, PrintedType DEF Output
<1>3. x \in X
  <2>1. s[j + 1] \in Token /\ IsLit(s[j + 1])
    BY TextFacts
  <2> QED
    BY <2>1, Kinds DEF IsLit
<1>4. Len(before) = j /\ \A i \in 1 .. j : before[i] = s[i].is
  <2>1. before = [i \in 1 .. j |-> t[i].is]
    BY <1>1 DEF Printed
  <2> HIDE DEF t
  <2> QED
    BY <1>1, <1>2, <2>1
<1>5. Len(all) = j + 1 /\ \A i \in 1 .. j + 1 : all[i] = s[i].is
  <2>1. all = [i \in 1 .. j + 1 |-> u[i].is]
    BY <1>1 DEF Printed
  <2> HIDE DEF u
  <2> QED
    BY <1>1, <1>2, <2>1
<1> HIDE DEF before, all, x, X
<1> DEFINE both == before \o <<x>>
<1>6. both \in Seq(X) /\ Len(both) = j + 1 /\ both[j + 1] = x
      /\ \A i \in 1 .. j : both[i] = before[i]
  BY <1>2, <1>3, <1>4
<1>7. \A i \in 1 .. j + 1 : both[i] = all[i]
  <2>1. \A i \in 1 .. j + 1 : i \in 1 .. j \/ i = j + 1
    OBVIOUS
  <2> QED
    BY <1>4, <1>5, <1>6, <2>1 DEF x
<1> HIDE DEF both
<1>8. both = all
  BY <1>2, <1>5, <1>6, <1>7, SeqEqual
<1> QED
  BY <1>8 DEF both, before, all, x, t, u

\* The literal text at the front is printed as it is.
LEMMA FromFront ==
  ASSUME NEW n, NEW m, NEW s \in Text, NEW g, From(g, n, m, s),
         \A i \in 1 .. Len(s) : Piece(n, m, s[i]) \in Output,
         NEW k \in 0 .. Len(s), \A i \in 1 .. k : IsLit(s[i])
  PROVE  g[1] = Printed(SubSeq(s, 1, k)) \o g[k + 1]
<1> DEFINE front(j) == Printed(SubSeq(s, 1, j))
           P(j) == j <= k => g[1] = front(j) \o g[j + 1]
           S == {j \in Nat : P(j)}
<1>1. Len(s) \in Nat /\ k \in Nat /\ k <= Len(s)
  BY TextFacts
<1>2. \A i \in 1 .. Len(s) + 1 : g[i] \in Output
  BY FromType
<1>3. 0 \in S
  <2>1. front(0) = <<>>
    BY TextFacts DEF Printed
  <2>2. g[1] \in Output /\ 0 + 1 = 1
    BY <1>1, <1>2
  <2> HIDE DEF front
  <2>3. <<>> \o g[1] = g[1]
    BY <2>2 DEF Output
  <2> QED
    BY <2>1, <2>2, <2>3
<1> HIDE DEF front
<1>4. ASSUME NEW j \in Nat, j \in S PROVE j + 1 \in S
  <2> SUFFICES ASSUME j + 1 <= k PROVE g[1] = front(j + 1) \o g[(j + 1) + 1]
    <3>1. P(j + 1) => j + 1 \in S
      <4> HIDE DEF P
      <4> QED
        OBVIOUS
    <3> QED
      BY <3>1
  <2> DEFINE x == <<s[j + 1].is>>
             after == g[(j + 1) + 1]
  <2>1. /\ j <= k /\ j + 1 <= Len(s) /\ j \in 0 .. Len(s) /\ j + 1 \in 1 .. Len(s)
        /\ (j + 1) + 1 \in 1 .. Len(s) + 1
        /\ \A i \in 1 .. j + 1 : i \in 1 .. k
        /\ \A i \in 1 .. j : i \in 1 .. k
    BY <1>1
  <2>2. g[1] = front(j) \o g[j + 1]
    BY <1>4, <2>1
  <2>3. front(j + 1) = front(j) \o x
    BY <2>1, PrintedMore DEF front
  <2>4. front(j) \in Output
    <3>1. \A i \in 1 .. j : IsLit(s[i])
      BY <2>1
    <3> QED
      BY <2>1, <3>1, PrintedType DEF front
  <2>5. s[j + 1] \in Token /\ s[j + 1].kind = "lit"
    BY <2>1, TextFacts DEF IsLit
  <2>6. x \in Output /\ Piece(n, m, s[j + 1]) = x
    BY <2>5, Kinds DEF Output, Piece
  <2>7. g[j + 1] = x \o after
    BY <2>1, <2>6 DEF From
  <2>8. after \in Output
    BY <1>2, <2>1
  <2> HIDE DEF x, after
  <2>9. (front(j) \o x) \o after = front(j) \o (x \o after)
    BY <2>4, <2>6, <2>8, Associative
  <2>10. g[1] = front(j + 1) \o after
    BY <2>2, <2>3, <2>7, <2>9, Zenon
  <2> QED
    BY <2>10 DEF after
<1>5. Nat \subseteq S
  <2> HIDE DEF S
  <2> QED
    BY <1>3, <1>4, NaturalsFrom0
<1>6. k \in S /\ k <= k
  <2> HIDE DEF S
  <2> QED
    BY <1>1, <1>5
<1> QED
  BY <1>6 DEF front


-----------------------------------------------------------------------------
(***************************************************************************)
(* Variables, and what they lead to.                                       *)
(***************************************************************************)
LEMMA BoundFacts ==
  ASSUME IsInput(input)
  PROVE  /\ \A v \in DOMAIN Bound : Bound[v] \in Texts
         /\ Texts \subseteq Text
         /\ \A i \in DOMAIN input.fields : input.fields[i] \in Texts
         /\ \A v : lookup(v) = IF v \in DOMAIN Bound THEN {Bound[v]} ELSE {}
<1> DEFINE g == input.global
           l == input.local
<1>1. /\ \A v \in DOMAIN g : g[v] \in Text
      /\ \A v \in DOMAIN l : l[v] \in Text
      /\ input.fields \in Seq(Text)
  BY DEF IsInput, IsEnv
<1>2. Bound = [v \in DOMAIN g \cup DOMAIN l |-> IF v \in DOMAIN g THEN g[v] ELSE l[v]]
  BY DEF Bound
<1>3. DOMAIN Bound = DOMAIN g \cup DOMAIN l
      /\ \A v \in DOMAIN g \cup DOMAIN l : Bound[v] = IF v \in DOMAIN g THEN g[v] ELSE l[v]
  BY <1>2
<1>4. \A v \in DOMAIN Bound : Bound[v] \in Text
  BY <1>1, <1>3
<1>5. \A i \in DOMAIN input.fields : input.fields[i] \in Text
  BY <1>1
<1>6. \A v : lookup(v) = IF v \in DOMAIN Bound THEN {Bound[v]} ELSE {}
  BY <1>3 DEF lookup
<1> QED
  BY <1>4, <1>5, <1>6 DEF Texts

LEMMA LeadsSelf == ASSUME NEW t \in Texts PROVE t \in Leads(t)
BY DEF Leads

LEMMA LeadsOn ==
  ASSUME IsInput(input), NEW s, NEW t \in Leads(s), NEW v \in Mentions(t), v \in DOMAIN Bound
  PROVE  Bound[v] \in Leads(s)
<1>1. Bound[v] \in Texts
  BY BoundFacts
<1>2. ASSUME NEW S \in SUBSET Texts, s \in S, Closed(S) PROVE Bound[v] \in S
  <2>1. t \in S
    BY <1>2 DEF Leads
  <2> QED
    BY <1>2, <2>1 DEF Closed
<1> QED
  BY <1>1, <1>2 DEF Leads

LEMMA LeadsWithin ==
  ASSUME NEW t \in Texts, NEW v \in Mentions(t), v \in DOMAIN Bound
  PROVE  Leads(Bound[v]) \subseteq Leads(t)
<1> SUFFICES ASSUME NEW u \in Leads(Bound[v]) PROVE u \in Leads(t)
  OBVIOUS
<1>1. ASSUME NEW S \in SUBSET Texts, t \in S, Closed(S) PROVE u \in S
  <2>1. Bound[v] \in S
    BY <1>1 DEF Closed
  <2> QED
    BY <1>1, <2>1 DEF Leads
<1> QED
  BY <1>1 DEF Leads

\* References of s are defined, and nested at most n deep, all the way down.
Good(n, s) ==
  \A v \in Mentions(s) :
    n > 0 /\ v \in DOMAIN Bound /\ Bound[v] \in Shallow[n - 1] /\ ~LeadsToUndefined(Bound[v])

LEMMA GoodText ==
  ASSUME IsInput(input), NEW n \in 0 .. Cap - 1, NEW t \in Texts
  PROVE  Good(n, t) <=> t \in Shallow[n] /\ ~LeadsToUndefined(t)
<1>1. Shallow[n] = {text \in Texts : \A v \in Mentions(text) :
                      n > 0 /\ (v \in DOMAIN Bound => Bound[v] \in Shallow[n - 1])}
  BY ShallowSteps
<1>2. ASSUME Good(n, t) PROVE t \in Shallow[n]
  BY <1>1, <1>2 DEF Good
<1>3. ASSUME Good(n, t) PROVE ~LeadsToUndefined(t)
  <2> DEFINE S == {u \in Texts : u = t \/ \E v \in Mentions(t) : u \in Leads(Bound[v])}
  <2>1. \A u \in S : Mentions(u) \subseteq DOMAIN Bound
    <3>1. Mentions(t) \subseteq DOMAIN Bound
      BY <1>3 DEF Good
    <3>2. \A v \in Mentions(t) : \A u \in Leads(Bound[v]) : Mentions(u) \subseteq DOMAIN Bound
      BY <1>3 DEF Good, LeadsToUndefined
    <3> QED
      BY <3>1, <3>2
  <2>2. Closed(S)
    <3> SUFFICES ASSUME NEW u \in S, NEW w \in Mentions(u), w \in DOMAIN Bound
                 PROVE  Bound[w] \in S
      BY DEF Closed
    <3>1. Bound[w] \in Texts
      BY BoundFacts
    <3>2. ASSUME u = t PROVE Bound[w] \in S
      <4>1. Bound[w] \in Leads(Bound[w])
        BY <3>1, LeadsSelf
      <4> QED
        BY <3>1, <3>2, <4>1
    <3>3. ASSUME NEW v \in Mentions(t), u \in Leads(Bound[v]) PROVE Bound[w] \in S
      <4>1. Bound[w] \in Leads(Bound[v])
        BY <3>3, LeadsOn
      <4> QED
        BY <3>1, <4>1
    <3> QED
      BY <3>2, <3>3
  <2>3. t \in S /\ S \subseteq Texts
    OBVIOUS
  <2> HIDE DEF S
  <2>4. Leads(t) \subseteq S
    BY <2>2, <2>3 DEF Leads
  <2> QED
    BY <2>1, <2>4 DEF LeadsToUndefined
<1>4. ASSUME t \in Shallow[n], ~LeadsToUndefined(t) PROVE Good(n, t)
  <2> SUFFICES ASSUME NEW v \in Mentions(t)
               PROVE  /\ n > 0 /\ v \in DOMAIN Bound
                      /\ Bound[v] \in Shallow[n - 1] /\ ~LeadsToUndefined(Bound[v])
    BY DEF Good
  <2>1. v \in DOMAIN Bound
    BY <1>4, LeadsSelf DEF LeadsToUndefined
  <2>2. n > 0 /\ Bound[v] \in Shallow[n - 1]
    BY <1>1, <1>4, <2>1
  <2>3. ~LeadsToUndefined(Bound[v])
    BY <1>4, <2>1, LeadsWithin DEF LeadsToUndefined
  <2> QED
    BY <2>1, <2>2, <2>3
<1> QED
  BY <1>2, <1>3, <1>4

\* What is meant by a text with references nested at most n deep.
Means(n, s) == Pieces(n + 1, Meaning[n], s)
Part(n, token) == Piece(n + 1, Meaning[n], token)

LEMMA MentionedAt ==
  ASSUME NEW s \in Text, NEW i \in 1 .. Len(s), s[i].kind = "ref"
  PROVE  s[i].is \in Mentions(s)
BY TextFacts DEF Mentions

LEMMA PartType ==
  ASSUME NEW n \in Nat, NEW s \in Text, Good(n, s), NEW i \in 1 .. Len(s),
         n > 0 => \A t \in Texts : Good(n - 1, t) => Means(n - 1, t) \in Output,
         IsInput(input), n <= Cap - 1
  PROVE  Part(n, s[i]) \in Output
<1> DEFINE token == s[i]
<1>1. token \in Token
  BY TextFacts
<1>2. CASE token.kind = "ref"
  <2> DEFINE v == token.is
  <2>1. /\ n > 0 /\ v \in DOMAIN Bound
        /\ Bound[v] \in Shallow[n - 1] /\ ~LeadsToUndefined(Bound[v])
    BY <1>2, MentionedAt DEF Good
  <2>2. Bound[v] \in Texts
    BY <2>1, BoundFacts
  <2>3. n - 1 \in 0 .. Cap - 1 /\ (n - 1) + 1 = n
    BY <2>1, CapAssumption
  <2>4. Good(n - 1, Bound[v])
    BY <2>1, <2>2, <2>3, GoodText
  <2>5. Meaning[n][Bound[v]] = Means(n - 1, Bound[v])
    BY <2>2, <2>3, MeaningSteps DEF Means
  <2>6. Part(n, token) = Meaning[n][Bound[v]]
    <3>1. n + 1 > 0
      OBVIOUS
    <3> QED
      BY <1>2, <2>1, <3>1 DEF Part, Piece
  <2> QED
    BY <2>1, <2>2, <2>4, <2>5, <2>6
<1>3. CASE token.kind = "lit"
  <2>1. token.is \in Lits
    BY <1>1, <1>3, Kinds
  <2>2. Part(n, token) = <<token.is>>
    BY <1>3 DEF Part, Piece
  <2> QED
    BY <2>1, <2>2 DEF Output
<1>4. CASE token.kind = "esc"
  <2>1. Part(n, token) = <<"$">>
    BY <1>4 DEF Part, Piece
  <2> QED
    BY <2>1 DEF Output
<1> QED
  BY <1>1, <1>2, <1>3, <1>4, Kinds

\* What a text without a bad reference means is output.
LEMMA MeansType ==
  ASSUME IsInput(input)
  PROVE  \A n \in 0 .. Cap - 1 : \A s \in Text : Good(n, s) =>
           Means(n, s) \in Output /\ \A i \in 1 .. Len(s) : Part(n, s[i]) \in Output
<1> DEFINE P(n) == \A s \in Text : Good(n, s) =>
             Means(n, s) \in Output /\ \A i \in 1 .. Len(s) : Part(n, s[i]) \in Output
           S == {n \in Nat : n <= Cap - 1 => P(n)}
<1>1. ASSUME NEW n \in Nat, n <= Cap - 1,
             n > 0 => \A t \in Texts : Good(n - 1, t) => Means(n - 1, t) \in Output
      PROVE  P(n)
  <2> SUFFICES ASSUME NEW s \in Text, Good(n, s)
               PROVE  Means(n, s) \in Output /\ \A i \in 1 .. Len(s) : Part(n, s[i]) \in Output
    OBVIOUS
  <2>1. \A i \in 1 .. Len(s) : Part(n, s[i]) \in Output
    BY <1>1, PartType
  <2>2. PICK g : From(g, n + 1, Meaning[n], s)
    BY FromExists
  <2>3. \A i \in 1 .. Len(s) + 1 : g[i] \in Output
    BY <2>1, <2>2, FromType DEF Part
  <2>4. 1 \in 1 .. Len(s) + 1
    BY TextFacts
  <2>5. Means(n, s) = g[1]
    BY <2>2 DEF Means, From
  <2> QED
    BY <2>1, <2>3, <2>4, <2>5
<1>2. 0 \in S
  <2>1. P(0)
    <3> HIDE DEF P
    <3> QED
      BY <1>1, CapAssumption
  <2> HIDE DEF P
  <2> QED
    BY <2>1
<1>3. ASSUME NEW n \in Nat, n \in S PROVE n + 1 \in S
  <2>1. ASSUME n + 1 <= Cap - 1 PROVE P(n + 1)
    <3>1. P(n)
      <4> HIDE DEF P
      <4> QED
        BY <1>3, <2>1, CapAssumption
    <3>2. (n + 1) - 1 = n /\ n + 1 \in Nat
      OBVIOUS
    <3>3. \A t \in Texts : Good(n, t) => Means(n, t) \in Output
      BY <3>1, BoundFacts
    <3> HIDE DEF P
    <3> QED
      BY <1>1, <2>1, <3>2, <3>3
  <2> HIDE DEF P
  <2> QED
    BY <2>1
<1>4. Nat \subseteq S
  <2> HIDE DEF S
  <2> QED
    BY <1>2, <1>3, NaturalsFrom0
<1>5. \A n \in 0 .. Cap - 1 : P(n)
  <2> HIDE DEF P
  <2> QED
    BY <1>4, CapAssumption
<1> QED
  BY <1>5, Zenon

(***************************************************************************)
(* A text is literal text, and then, if that is not all, something else    *)
(* and the rest.                                                           *)
(***************************************************************************)
LEMMA MeansParts ==
  ASSUME IsInput(input), NEW n \in 0 .. Cap - 1, NEW s \in Text,
         \A i \in 1 .. Len(s) : Part(n, s[i]) \in Output
  PROVE  /\ After(s) = <<>> => Means(n, s) = Printed(s)
         /\ After(s) # <<>> =>
              Means(n, s) = Printed(Literals(s)) \o
                              (Part(n, Head(After(s))) \o Means(n, Tail(After(s))))
<1> DEFINE L == Len(s)
<1>1. PICK k \in 0 .. L :
        /\ Literals(s) = SubSeq(s, 1, k)
        /\ \A i \in 1 .. k : IsLit(s[i])
        /\ After(s) = SubSeq(s, k + 1, L)
  BY FrontEnds
<1>2. s \in Seq(Token) /\ L \in Nat /\ k \in Nat /\ k <= L
  BY TextFacts
<1>3. PICK g : From(g, n + 1, Meaning[n], s)
  BY FromExists
<1>4. g[1] = Printed(SubSeq(s, 1, k)) \o g[k + 1] /\ Means(n, s) = g[1]
  <2>1. \A i \in 1 .. L : Piece(n + 1, Meaning[n], s[i]) \in Output
    BY DEF Part
  <2>2. g[1] = Printed(SubSeq(s, 1, k)) \o g[k + 1]
    <3>0. k \in 0 .. Len(s) /\ s \in Text
      OBVIOUS
    <3>1. \A i \in 1 .. k : IsLit(s[i])
      BY <1>1
    <3>2. ASSUME NEW a, NEW b, From(g, a, b, s),
                 \A i \in 1 .. Len(s) : Piece(a, b, s[i]) \in Output
          PROVE  g[1] = Printed(SubSeq(s, 1, k)) \o g[k + 1]
      BY <3>0, <3>1, <3>2, FromFront, ZenonT(60)
    <3> QED
      BY <1>3, <2>1, <3>2
  <2> QED
    BY <1>3, <2>2 DEF From, Means
<1>5. ASSUME After(s) = <<>> PROVE Means(n, s) = Printed(s)
  <2>1. Len(After(s)) = L - k
    BY <1>1, <1>2
  <2>2. k = L
    BY <1>2, <1>5, <2>1
  <2>3. SubSeq(s, 1, k) = s
    BY <1>2, <2>2
  <2>4. g[k + 1] = <<>>
    BY <1>3, <2>2 DEF From
  <2>5. Printed(SubSeq(s, 1, k)) \in Output
    BY <1>1, PrintedType
  <2> DEFINE x == Printed(s)
  <2>6. x \in Output
    BY <2>3, <2>5
  <2> HIDE DEF x
  <2>7. x \o <<>> = x
    BY <2>6 DEF Output
  <2> QED
    BY <1>4, <2>3, <2>4, <2>7 DEF x
<1>6. ASSUME After(s) # <<>>
      PROVE  Means(n, s) = Printed(Literals(s)) \o
                             (Part(n, Head(After(s))) \o Means(n, Tail(After(s))))
  <2>1. Len(After(s)) = L - k /\ After(s) \in Seq(Token)
    BY <1>1, <1>2
  <2>2. k + 1 \in 1 .. L
    BY <1>2, <1>6, <2>1
  <2>3. Head(After(s)) = s[k + 1]
    BY <1>1, <1>2, <2>2
  <2>4. Tail(After(s)) = SubSeq(s, (k + 1) + 1, L)
    BY <1>1, <1>2, <2>2
  <2>5. g[k + 1] = Piece(n + 1, Meaning[n], s[k + 1]) \o g[(k + 1) + 1]
    BY <1>3, <2>2 DEF From
  <2>6. Pieces(n + 1, Meaning[n], SubSeq(s, (k + 1) + 1, L)) = g[(k + 1) + 1]
    <3>1. k + 1 \in 0 .. Len(s) /\ s \in Text
      BY <2>2
    <3> QED
      <4>1. ASSUME NEW a, NEW b, From(g, a, b, s)
            PROVE  Pieces(a, b, SubSeq(s, (k + 1) + 1, Len(s))) = g[(k + 1) + 1]
        BY <3>1, <4>1, FromEnd, ZenonT(60)
      <4> QED
        BY <1>3, <4>1
  <2>7. g[k + 1] = Part(n, Head(After(s))) \o Means(n, Tail(After(s)))
    BY <2>3, <2>4, <2>5, <2>6, Zenon DEF Part, Means
  <2> QED
    BY <1>1, <1>4, <2>7, Zenon
<1> QED
  BY <1>5, <1>6


-----------------------------------------------------------------------------
\* All of this depends on the input alone.
LEMMA SameInput ==
  ASSUME UNCHANGED input
  PROVE  /\ Bound' = Bound /\ Texts' = Texts /\ Shallow' = Shallow /\ Meaning' = Meaning
         /\ \A t : LeadsToUndefined(t)' <=> LeadsToUndefined(t)
         /\ \A t : Leads(t)' = Leads(t)
         /\ \A n, s : Good(n, s)' <=> Good(n, s)
         /\ \A n, s : Means(n, s)' = Means(n, s)
<1>1. Bound' = Bound
  BY DEF Bound
<1>2. Texts' = Texts
  BY <1>1 DEF Texts
<1>3. Shallow' = Shallow
  BY <1>1, <1>2, Zenon DEF Shallow
<1>4. \A n, m, token : Piece(n, m, token)' = Piece(n, m, token)
  BY <1>1, Zenon DEF Piece
<1>5. ASSUME NEW n, NEW m, NEW s PROVE Pieces(n, m, s)' = Pieces(n, m, s)
  <2>1. \A g : Joins(g, n, m, s)' <=> Joins(g, n, m, s)
    BY <1>4, Zenon DEF Joins
  <2>2. (CHOOSE g : Joins(g, n, m, s)') = (CHOOSE g : Joins(g, n, m, s))
    BY <2>1, Zenon
  <2>3. Pieces(n, m, s) = (CHOOSE g : Joins(g, n, m, s))[1]
    BY PiecesChosen
  <2>4. Pieces(n, m, s)' = (CHOOSE g : Joins(g, n, m, s)')[1]
    BY DEF Pieces, Joins
  <2> QED
    BY <2>2, <2>3, <2>4, Zenon
<1>6. Meaning' = Meaning
  BY <1>1, <1>2, <1>5, Zenon DEF Meaning
<1>7. \A t : Leads(t)' = Leads(t)
  BY <1>1, <1>2 DEF Leads, Closed
<1>8. \A t : LeadsToUndefined(t)' <=> LeadsToUndefined(t)
  BY <1>1, <1>7 DEF LeadsToUndefined
<1>9. \A n, s : Good(n, s)' <=> Good(n, s)
  BY <1>1, <1>3, <1>8 DEF Good
<1>10. \A n, s : Means(n, s)' = Means(n, s)
  BY <1>5, <1>6, Zenon DEF Means
<1> QED
  BY <1>1, <1>2, <1>3, <1>6, <1>7, <1>8, <1>9, <1>10


-----------------------------------------------------------------------------
(***************************************************************************)
(* The stack, counted from the bottom: the k-th text there is k - 1        *)
(* references down from the field, and may nest Cap - k more.              *)
(***************************************************************************)
Entry(texts, k) == texts[Len(texts) + 1 - k]
Level(texts)    == Cap - (Len(texts) + 1)

Fine(texts) == \A k \in 1 .. Len(texts) : Good(Cap - k, Entry(texts, k))

\* What is printed once all texts of the stack are.
Rest(texts, r) ==
  \E f \in [0 .. Len(texts) -> Output] :
    /\ f[0] = <<>> /\ f[Len(texts)] = r
    /\ \A k \in 1 .. Len(texts) : f[k] = Means(Cap - k, Entry(texts, k)) \o f[k - 1]

This == input.fields[Len(base) + 1]

\* What was printed and what will be make up what the field means.
Completes(texts, printed) ==
  Fine(texts) => /\ Good(Cap - 1, This)
                 /\ \E r \in Output : Rest(texts, r) /\ Means(Cap - 1, This) = printed \o r

\* References of a field that nests little enough fit in what is left.
Within(n, t) ==
  \A v \in Mentions(t) : n > 0 /\ (v \in DOMAIN Bound => Bound[v] \in Shallow[n - 1])

Fits(texts) ==
  This \in Shallow[Cap - 1] => \A k \in 1 .. Len(texts) : Within(Cap - k, Entry(texts, k))

\* Each text is part of the field, or of a text it leads to.
Led(s)       == \E t \in Leads(This) : Mentions(s) \subseteq Mentions(t)
Comes(texts) == \A k \in 1 .. Len(texts) : Led(Entry(texts, k))

RunInv == outcome = "running" => Completes(stack, out) /\ Fits(stack) /\ Comes(stack)

\* The fields that are complete.
BaseInv ==
  \A i \in DOMAIN base :
    Good(Cap - 1, input.fields[i]) /\ base[i] = Means(Cap - 1, input.fields[i])

EndInv ==
  /\ outcome = "undefined" => LeadsToUndefined(This)
  /\ outcome = "recursion" => This \notin Shallow[Cap - 1]

FullInv == ExpandInv /\ BaseInv /\ RunInv /\ EndInv

LEMMA Pushed ==
  ASSUME NEW x \in Text, NEW texts \in Seq(Text), NEW n, n = Len(texts) + 1
  PROVE  /\ <<x>> \o texts \in Seq(Text) /\ Len(<<x>> \o texts) = n
         /\ n \in Nat /\ Len(texts) \in Nat
         /\ Entry(<<x>> \o texts, n) = x
         /\ \A k \in 1 .. Len(texts) : Entry(<<x>> \o texts, k) = Entry(texts, k)
         /\ \A k \in 1 .. n : k = n \/ k \in 1 .. Len(texts)
<1>1. Len(texts) \in Nat /\ n \in Nat
  OBVIOUS
<1>2. <<x>> \in Seq(Text) /\ Len(<<x>>) = 1 /\ <<x>>[1] = x
  OBVIOUS
<1> DEFINE all == <<x>> \o texts
           top == <<x>>
<1> HIDE DEF top
<1>3. top \o texts \in Seq(Text) /\ Len(top \o texts) = n
  BY <1>2, OnTop DEF top
<1>4. \A i \in 1 .. n : (top \o texts)[i] = IF i = 1 THEN x ELSE texts[i - 1]
  <2>1. \A i \in 1 .. Len(top) + Len(texts) :
          (top \o texts)[i] = IF i <= Len(top) THEN top[i] ELSE texts[i - Len(top)]
    BY <1>2, ConcatProperties, Zenon DEF top
  <2>2. \A i \in 1 .. n : i \in 1 .. 1 + Len(texts) /\ (i <= 1 <=> i = 1)
    BY <1>1
  <2>3. Len(top) = 1 /\ top[1] = x
    BY <1>2 DEF top
  <2> QED
    BY <2>1, <2>2, <2>3
<1>5. Entry(all, n) = x
  <2>1. n + 1 - n = 1 /\ 1 \in 1 .. n
    BY <1>1
  <2> QED
    BY <1>3, <1>4, <2>1 DEF Entry, top
<1>6. ASSUME NEW k \in 1 .. Len(texts) PROVE Entry(all, k) = Entry(texts, k)
  <2>1. n + 1 - k \in 1 .. n /\ n + 1 - k # 1 /\ (n + 1 - k) - 1 = Len(texts) + 1 - k
    BY <1>1
  <2> QED
    BY <1>3, <1>4, <2>1 DEF Entry, top
<1>7. \A k \in 1 .. n : k = n \/ k \in 1 .. Len(texts)
  BY <1>1
<1> QED
  BY <1>1, <1>3, <1>5, <1>6, <1>7 DEF top

\* What holds of each entry, with another on top.
LEMMA FinePushed ==
  ASSUME NEW x \in Text, NEW texts \in Seq(Text)
  PROVE  Fine(<<x>> \o texts) <=> Fine(texts) /\ Good(Level(texts), x)
<1> DEFINE n == Len(texts) + 1
           all == <<x>> \o texts
<1>1. /\ Len(all) = n /\ Entry(all, n) = x /\ n \in 1 .. n
      /\ \A k \in 1 .. Len(texts) : Entry(all, k) = Entry(texts, k) /\ k \in 1 .. n
      /\ \A k \in 1 .. n : k = n \/ k \in 1 .. Len(texts)
  BY Pushed
<1>2. Level(texts) = Cap - n
  BY DEF Level
<1> HIDE DEF n, all
<1>3. Fine(all) <=> \A k \in 1 .. n : Good(Cap - k, Entry(all, k))
  BY <1>1 DEF Fine
<1> QED
  BY <1>1, <1>2, <1>3, Zenon DEF Fine, all

LEMMA FitsPushed ==
  ASSUME NEW x \in Text, NEW texts \in Seq(Text)
  PROVE  Fits(<<x>> \o texts) <=>
           Fits(texts) /\ (This \in Shallow[Cap - 1] => Within(Level(texts), x))
<1> DEFINE n == Len(texts) + 1
           all == <<x>> \o texts
<1>1. /\ Len(all) = n /\ Entry(all, n) = x /\ n \in 1 .. n
      /\ \A k \in 1 .. Len(texts) : Entry(all, k) = Entry(texts, k) /\ k \in 1 .. n
      /\ \A k \in 1 .. n : k = n \/ k \in 1 .. Len(texts)
  BY Pushed
<1>2. Level(texts) = Cap - n
  BY DEF Level
<1> HIDE DEF n, all
<1>3. Fits(all) <=> (This \in Shallow[Cap - 1] =>
                       \A k \in 1 .. n : Within(Cap - k, Entry(all, k)))
  BY <1>1 DEF Fits
<1> QED
  BY <1>1, <1>2, <1>3, Zenon DEF Fits, all

LEMMA ComesPushed ==
  ASSUME NEW x \in Text, NEW texts \in Seq(Text)
  PROVE  Comes(<<x>> \o texts) <=> Comes(texts) /\ Led(x)
<1> DEFINE n == Len(texts) + 1
           all == <<x>> \o texts
<1>1. /\ Len(all) = n /\ Entry(all, n) = x /\ n \in 1 .. n
      /\ \A k \in 1 .. Len(texts) : Entry(all, k) = Entry(texts, k) /\ k \in 1 .. n
      /\ \A k \in 1 .. n : k = n \/ k \in 1 .. Len(texts)
  BY Pushed
<1> HIDE DEF n, all
<1>2. Comes(all) <=> \A k \in 1 .. n : Led(Entry(all, k))
  BY <1>1 DEF Comes
<1> QED
  BY <1>1, <1>2, Zenon DEF Comes, all

LEMMA RestNone == /\ Rest(<<>>, <<>>)
                  /\ \A r : Rest(<<>>, r) => r = <<>>
<1> DEFINE f == [k \in 0 .. 0 |-> <<>>]
<1>1. Len(<<>>) = 0 /\ <<>> \in Output
  BY DEF Output
<1>2. f \in [0 .. 0 -> Output] /\ f[0] = <<>>
  BY <1>1
<1> HIDE DEF f
<1>3. f \in [0 .. Len(<<>>) -> Output] /\ f[0] = <<>> /\ f[Len(<<>>)] = <<>>
  BY <1>1, <1>2, Zenon
<1>4. \A k \in 1 .. Len(<<>>) : FALSE
  BY <1>1
<1>5. Rest(<<>>, <<>>)
  BY <1>3, <1>4, Zenon DEF Rest
<1>6. ASSUME NEW r, Rest(<<>>, r) PROVE r = <<>>
  <2>1. \E h : h[0] = <<>> /\ h[Len(<<>>)] = r
    BY <1>6 DEF Rest
  <2> QED
    BY <1>1, <2>1, Zenon
<1> QED
  BY <1>5, <1>6

LEMMA RestPush ==
  ASSUME NEW x \in Text, NEW texts \in Seq(Text), NEW r, Rest(texts, r),
         Means(Level(texts), x) \in Output
  PROVE  Rest(<<x>> \o texts, Means(Level(texts), x) \o r)
<1> DEFINE n == Len(texts) + 1
           all == <<x>> \o texts
           y == Means(Level(texts), x)
<1>1. /\ Len(all) = n /\ Entry(all, n) = x /\ n \in Nat /\ Len(texts) \in Nat
      /\ \A k \in 1 .. Len(texts) : Entry(all, k) = Entry(texts, k)
      /\ \A k \in 1 .. n : k = n \/ k \in 1 .. Len(texts)
  BY Pushed
<1>2. y = Means(Cap - n, x) /\ y \in Output
  BY DEF Level
<1>3. /\ n - 1 = Len(texts) /\ 0 \in 0 .. Len(texts) /\ n \notin 0 .. Len(texts) /\ n \in 0 .. n
      /\ Len(texts) \in 0 .. Len(texts) /\ n # 0
      /\ \A k \in 1 .. Len(texts) : k \in 0 .. Len(texts) /\ k - 1 \in 0 .. Len(texts)
      /\ \A k \in 0 .. n : k = n \/ k \in 0 .. Len(texts)
      /\ \A k \in 0 .. Len(texts) : k \in 0 .. n
  BY <1>1
<1>4. PICK f \in [0 .. Len(texts) -> Output] :
        /\ f[0] = <<>> /\ f[Len(texts)] = r
        /\ \A k \in 1 .. Len(texts) : f[k] = Means(Cap - k, Entry(texts, k)) \o f[k - 1]
  BY DEF Rest
<1> HIDE DEF n, all, y
<1> DEFINE g == [k \in 0 .. n |-> IF k = n THEN y \o r ELSE f[k]]
<1>5. r \in Output /\ y \o r \in Output
  BY <1>2, <1>3, <1>4 DEF Output
<1>6. /\ g[n] = y \o r
      /\ \A k \in 0 .. Len(texts) : g[k] = f[k]
  BY <1>3
<1>7. g \in [0 .. n -> Output]
  BY <1>3, <1>4, <1>5
<1> HIDE DEF g
<1>8. \A k \in 1 .. Len(texts) : g[k] = Means(Cap - k, Entry(all, k)) \o g[k - 1]
  BY <1>1, <1>3, <1>4, <1>6
<1>9. g[n] = Means(Cap - n, Entry(all, n)) \o g[n - 1]
  BY <1>1, <1>2, <1>3, <1>4, <1>6
<1>10. \A k \in 1 .. n : g[k] = Means(Cap - k, Entry(all, k)) \o g[k - 1]
  BY <1>1, <1>8, <1>9
<1>11. g[0] = <<>>
  BY <1>3, <1>4, <1>6
<1>12. Rest(all, y \o r)
  BY <1>1, <1>6, <1>7, <1>10, <1>11 DEF Rest
<1> QED
  BY <1>12 DEF all, y

\* With x on top of texts, q is what x means, and the rest.
Begins(x, texts, q) == \E r \in Output : Rest(texts, r) /\ q = Means(Level(texts), x) \o r

LEMMA RestPop ==
  ASSUME NEW x \in Text, NEW texts \in Seq(Text), NEW both, both = <<x>> \o texts,
         NEW q, Rest(both, q)
  PROVE  Begins(x, texts, q)
<1> DEFINE n == Len(texts) + 1
<1>1. /\ Len(both) = n /\ Entry(both, n) = x /\ n \in Nat /\ Len(texts) \in Nat
      /\ \A k \in 1 .. Len(texts) : Entry(both, k) = Entry(texts, k)
  BY Pushed
<1>2. Level(texts) = Cap - n
  BY DEF Level
<1>3. /\ n - 1 = Len(texts) /\ 0 \in 0 .. Len(texts) /\ n \in 1 .. n
      /\ Len(texts) \in 0 .. Len(texts)
      /\ \A k \in 1 .. Len(texts) :
           k \in 1 .. n /\ k \in 0 .. Len(texts) /\ k - 1 \in 0 .. Len(texts)
      /\ \A k \in 0 .. Len(texts) : k \in 0 .. n
  BY <1>1
<1>4. PICK f \in [0 .. Len(both) -> Output] :
        /\ f[0] = <<>> /\ f[Len(both)] = q
        /\ \A k \in 1 .. Len(both) : f[k] = Means(Cap - k, Entry(both, k)) \o f[k - 1]
  BY DEF Rest
<1> HIDE DEF n
<1> DEFINE g == [k \in 0 .. Len(texts) |-> f[k]]
<1>5. g \in [0 .. Len(texts) -> Output]
  BY <1>1, <1>3, <1>4
<1>6. \A k \in 0 .. Len(texts) : g[k] = f[k]
  OBVIOUS
<1> HIDE DEF g
<1>7. \A k \in 1 .. Len(texts) : g[k] = Means(Cap - k, Entry(texts, k)) \o g[k - 1]
  BY <1>1, <1>3, <1>4, <1>6
<1>8. Rest(texts, g[Len(texts)])
  BY <1>3, <1>4, <1>5, <1>6, <1>7 DEF Rest
<1>9. q = Means(Level(texts), x) \o g[Len(texts)]
  BY <1>1, <1>2, <1>3, <1>4, <1>6
<1>10. g[Len(texts)] \in Output
  BY <1>3, <1>5
<1> QED
  BY <1>8, <1>9, <1>10 DEF Begins


-----------------------------------------------------------------------------
(***************************************************************************)
(* What a text mentions and means, by what it starts with.                 *)
(***************************************************************************)
LEMMA Mentioned ==
  ASSUME NEW s \in Text
  PROVE  /\ After(s) = <<>> => Mentions(s) = {}
         /\ After(s) # <<>> =>
              /\ Head(After(s)) \in Token /\ Tail(After(s)) \in Text
              /\ Mentions(Tail(After(s))) \subseteq Mentions(s)
              /\ Head(After(s)).kind = "ref" => Head(After(s)).is \in Mentions(s)
              /\ \A v \in Mentions(s) :
                   \/ v \in Mentions(Tail(After(s)))
                   \/ Head(After(s)).kind = "ref" /\ v = Head(After(s)).is
<1> DEFINE L == Len(s)
<1>1. PICK k \in 0 .. L :
        /\ Literals(s) = SubSeq(s, 1, k)
        /\ \A i \in 1 .. k : IsLit(s[i])
        /\ After(s) = SubSeq(s, k + 1, L)
  BY FrontEnds
<1>2. s \in Seq(Token) /\ L \in Nat /\ k \in Nat /\ k <= L /\ DOMAIN s = 1 .. L
  BY TextFacts
<1>3. After(s) \in Seq(Token) /\ Len(After(s)) = L - k
  <2> HIDE DEF L
  <2>1. L = Len(s) /\ k + 1 \in Nat
    BY <1>2 DEF L
  <2>2. After(s) \in Seq(Token)
    BY <1>1, <1>2, <2>1
  <2>3. Len(SubSeq(s, k + 1, L)) = IF k + 1 <= L THEN L - (k + 1) + 1 ELSE 0
    BY <1>2, <2>1
  <2> QED
    BY <1>1, <1>2, <2>2, <2>3
<1>4. ASSUME NEW v \in Mentions(s)
      PROVE  \E i \in 1 .. L : i > k /\ s[i].kind = "ref" /\ v = s[i].is
  <2>1. PICK i \in 1 .. L : s[i].kind = "ref" /\ v = s[i].is
    BY <1>2 DEF Mentions
  <2>2. ~(i <= k)
    <3>1. i <= k => IsLit(s[i])
      BY <1>1, <1>2
    <3> QED
      BY <2>1, <3>1 DEF IsLit
  <2> QED
    BY <1>2, <2>1, <2>2
<1>5. ASSUME After(s) = <<>> PROVE Mentions(s) = {}
  <2>1. L - k = 0
    BY <1>3, <1>5
  <2>2. \A i \in 1 .. L : ~(i > k)
    BY <1>2, <2>1
  <2> QED
    BY <1>4, <2>2
<1>6. ASSUME After(s) # <<>>
      PROVE  /\ Head(After(s)) \in Token /\ Tail(After(s)) \in Text
             /\ Mentions(Tail(After(s))) \subseteq Mentions(s)
             /\ Head(After(s)).kind = "ref" => Head(After(s)).is \in Mentions(s)
             /\ \A v \in Mentions(s) :
                  \/ v \in Mentions(Tail(After(s)))
                  \/ Head(After(s)).kind = "ref" /\ v = Head(After(s)).is
  <2> DEFINE j == k + 1
             rest == SubSeq(s, j + 1, L)
  <2>1. j \in 1 .. L
    BY <1>2, <1>3, <1>6
  <2>2. Head(After(s)) = s[j] /\ s[j] \in Token
    BY <1>1, <1>2, <2>1
  <2>3. Tail(After(s)) = rest
    BY <1>1, <1>2, <2>1
  <2>4. rest \in Seq(Token) /\ DOMAIN rest = 1 .. L - j
        /\ \A i \in 1 .. L - j : rest[i] = s[j + i]
    BY <1>2, <2>1
  <2> HIDE DEF rest
  <2>5. Mentions(rest) = {rest[i].is : i \in {m \in 1 .. L - j : rest[m].kind = "ref"}}
    BY <2>4 DEF Mentions
  <2>6. Mentions(s) = {s[i].is : i \in {m \in 1 .. L : s[m].kind = "ref"}}
    BY <1>2 DEF Mentions
  <2>7. ASSUME NEW v \in Mentions(rest) PROVE v \in Mentions(s)
    <3>1. PICK i \in 1 .. L - j : rest[i].kind = "ref" /\ v = rest[i].is
      BY <2>5
    <3>2. j + i \in 1 .. L /\ rest[i] = s[j + i]
      BY <1>2, <2>1, <2>4
    <3> QED
      BY <2>6, <3>1, <3>2
  <2>8. s[j].kind = "ref" => s[j].is \in Mentions(s)
    BY <2>1, <2>6
  <2>9. ASSUME NEW v \in Mentions(s)
        PROVE  v \in Mentions(rest) \/ (s[j].kind = "ref" /\ v = s[j].is)
    <3>1. PICK i \in 1 .. L : i > k /\ s[i].kind = "ref" /\ v = s[i].is
      BY <1>4
    <3>2. ASSUME i # j PROVE v \in Mentions(rest)
      <4>1. i - j \in 1 .. L - j /\ j + (i - j) = i
        BY <1>2, <2>1, <3>1, <3>2
      <4>2. rest[i - j] = s[i]
        BY <2>4, <4>1
      <4> QED
        BY <2>5, <3>1, <4>1, <4>2
    <3> QED
      BY <3>1, <3>2
  <2> QED
    BY <2>2, <2>3, <2>4, <2>7, <2>8, <2>9 DEF Text
<1> QED
  BY <1>5, <1>6

\* A text is good if its parts are.
LEMMA GoodParts ==
  ASSUME IsInput(input), NEW n \in 0 .. Cap - 1, NEW s \in Text
  PROVE  /\ After(s) = <<>> => Good(n, s)
         /\ After(s) # <<>> =>
              /\ Good(n, s) => Good(n, Tail(After(s)))
              /\ Head(After(s)).kind # "ref" /\ Good(n, Tail(After(s))) => Good(n, s)
              /\ /\ Head(After(s)).kind = "ref" /\ n > 0 /\ Head(After(s)).is \in DOMAIN Bound
                 /\ Good(n - 1, Bound[Head(After(s)).is]) /\ Good(n, Tail(After(s)))
                 => Good(n, s)
<1> DEFINE rest == Tail(After(s))
           v == Head(After(s)).is
<1>1. After(s) = <<>> => Good(n, s)
  BY Mentioned DEF Good
<1>2. ASSUME After(s) # <<>> PROVE Good(n, s) => Good(n, rest)
  BY <1>2, Mentioned DEF Good
<1>3. ASSUME After(s) # <<>>, Head(After(s)).kind # "ref"
      PROVE  Good(n, rest) => Good(n, s)
  BY <1>3, Mentioned DEF Good
<1>4. ASSUME After(s) # <<>>, Head(After(s)).kind = "ref", n > 0, v \in DOMAIN Bound,
             Good(n - 1, Bound[v]), Good(n, rest)
      PROVE  Good(n, s)
  <2>1. Bound[v] \in Texts /\ n - 1 \in 0 .. Cap - 1
    BY <1>4, BoundFacts, CapAssumption
  <2>2. Bound[v] \in Shallow[n - 1] /\ ~LeadsToUndefined(Bound[v])
    BY <1>4, <2>1, GoodText
  <2>3. \A w \in Mentions(s) : w \in Mentions(rest) \/ w = v
    BY <1>4, Mentioned
  <2> QED
    BY <1>4, <2>2, <2>3 DEF Good
<1> QED
  BY <1>1, <1>2, <1>3, <1>4

LEMMA MeansTop ==
  ASSUME IsInput(input), NEW n \in 0 .. Cap - 1, NEW s \in Text, Good(n, s)
  PROVE  /\ After(s) = <<>> => Means(n, s) = Printed(s)
         /\ After(s) # <<>> =>
              /\ Head(After(s)) = Esc =>
                   Means(n, s) = Printed(Literals(s)) \o (<<"$">> \o Means(n, Tail(After(s))))
              /\ Head(After(s)).kind = "ref" =>
                   /\ n > 0 /\ Head(After(s)).is \in DOMAIN Bound
                   /\ Bound[Head(After(s)).is] \in Text
                   /\ Good(n - 1, Bound[Head(After(s)).is])
                   /\ Means(n, s) = Printed(Literals(s)) \o
                        (Means(n - 1, Bound[Head(After(s)).is]) \o Means(n, Tail(After(s))))
<1> DEFINE h == Head(After(s))
<1>1. \A i \in 1 .. Len(s) : Part(n, s[i]) \in Output
  BY MeansType
<1>2. After(s) = <<>> => Means(n, s) = Printed(s)
  BY <1>1, MeansParts
<1>3. After(s) # <<>> =>
        Means(n, s) = Printed(Literals(s)) \o (Part(n, h) \o Means(n, Tail(After(s))))
  BY <1>1, MeansParts
<1>4. h = Esc => Part(n, h) = <<"$">>
  BY DEF Part, Piece, Esc
<1>5. ASSUME After(s) # <<>>, h.kind = "ref"
      PROVE  /\ n > 0 /\ h.is \in DOMAIN Bound /\ Bound[h.is] \in Text
             /\ Good(n - 1, Bound[h.is])
             /\ Part(n, h) = Means(n - 1, Bound[h.is])
  <2> DEFINE v == h.is
  <2>1. v \in Mentions(s)
    BY <1>5, Mentioned
  <2>2. /\ n > 0 /\ v \in DOMAIN Bound
        /\ Bound[v] \in Shallow[n - 1] /\ ~LeadsToUndefined(Bound[v])
    BY <2>1 DEF Good
  <2>3. Bound[v] \in Texts /\ Bound[v] \in Text
    BY <2>2, BoundFacts
  <2>4. n - 1 \in 0 .. Cap - 1 /\ (n - 1) + 1 = n /\ n + 1 > 0
    BY <2>2, CapAssumption
  <2>5. Good(n - 1, Bound[v])
    BY <2>2, <2>3, <2>4, GoodText
  <2>6. Meaning[n][Bound[v]] = Means(n - 1, Bound[v])
    BY <2>3, <2>4, MeaningSteps DEF Means
  <2>7. Part(n, h) = Meaning[n][Bound[v]]
    BY <1>5, <2>2, <2>4 DEF Part, Piece
  <2> QED
    BY <2>2, <2>3, <2>5, <2>6, <2>7
<1> QED
  BY <1>2, <1>3, <1>4, <1>5


-----------------------------------------------------------------------------
(***************************************************************************)
(* Every step keeps all of it.                                             *)
(***************************************************************************)
LEMMA SameField ==
  ASSUME UNCHANGED <<input, base>>
  PROVE  /\ This' = This /\ (BaseInv' <=> BaseInv)
         /\ \A texts, printed : Completes(texts, printed)' <=> Completes(texts, printed)
         /\ \A texts : (Fits(texts)' <=> Fits(texts)) /\ (Comes(texts)' <=> Comes(texts))
         /\ (LeadsToUndefined(This)' <=> LeadsToUndefined(This)) /\ Shallow' = Shallow
<1>1. /\ Bound' = Bound /\ Texts' = Texts /\ Shallow' = Shallow
      /\ \A t : LeadsToUndefined(t)' <=> LeadsToUndefined(t)
      /\ \A t : Leads(t)' = Leads(t)
      /\ \A n, s : Good(n, s)' <=> Good(n, s)
      /\ \A n, s : Means(n, s)' = Means(n, s)
  BY SameInput
<1>2. This' = This
  BY DEF This
<1>3. BaseInv' <=> BaseInv
  BY <1>1 DEF BaseInv
<1>4. ASSUME NEW texts
      PROVE  (Fine(texts)' <=> Fine(texts)) /\ \A r : Rest(texts, r)' <=> Rest(texts, r)
  BY <1>1 DEF Fine, Rest
<1>5. ASSUME NEW texts, NEW printed
      PROVE  Completes(texts, printed)' <=> Completes(texts, printed)
  BY <1>1, <1>2, <1>4 DEF Completes
<1>6. ASSUME NEW texts PROVE (Fits(texts)' <=> Fits(texts)) /\ (Comes(texts)' <=> Comes(texts))
  BY <1>1, <1>2 DEF Fits, Comes, Led, Within
<1>7. LeadsToUndefined(This)' <=> LeadsToUndefined(This)
  BY <1>1, <1>2
<1> QED
  BY <1>1, <1>2, <1>3, <1>5, <1>6, <1>7

LEMMA RunStep ==
  ASSUME FullInv, ExpandInv', UNCHANGED <<input, base, outcome>>, outcome = "running",
         Completes(stack', out'), Fits(stack'), Comes(stack')
  PROVE  FullInv'
<1>1. BaseInv'
  BY SameField DEF FullInv
<1>2. RunInv'
  BY SameField DEF RunInv
<1>3. EndInv'
  BY DEF EndInv
<1> QED
  BY <1>1, <1>2, <1>3 DEF FullInv

LEMMA EndStep ==
  ASSUME FullInv, ExpandInv', UNCHANGED <<input, base>>, outcome' # "running",
         outcome' = "undefined" => LeadsToUndefined(This),
         outcome' = "recursion" => This \notin Shallow[Cap - 1]
  PROVE  FullInv'
<1>1. BaseInv'
  BY SameField DEF FullInv
<1>2. RunInv'
  BY DEF RunInv
<1>3. EndInv'
  <2>1. This' = This /\ (LeadsToUndefined(This)' <=> LeadsToUndefined(This)) /\ Shallow' = Shallow
    BY SameField
  <2> QED
    BY <2>1 DEF EndInv
<1> QED
  BY <1>1, <1>2, <1>3 DEF FullInv

\* What is known where a text is at the top.
LEMMA AtTop ==
  ASSUME FullInv, Pops, NEW s, s = Head(stack), NEW texts, texts = Tail(stack)
  PROVE  /\ IsInput(input) /\ s \in Text /\ texts \in Seq(Text)
         /\ stack = <<s>> \o texts /\ Level(texts) \in 0 .. Cap - 1
         /\ out \in Output /\ Printed(Literals(s)) \in Output
         /\ Completes(stack, out)
         /\ Fits(texts) /\ (This \in Shallow[Cap - 1] => Within(Level(texts), s))
         /\ Comes(texts) /\ Led(s)
<1>1. /\ IsInput(input) /\ out \in Output /\ stack \in Seq(Text) /\ stack # <<>>
      /\ Len(stack) \in Nat /\ Len(stack) <= Cap /\ outcome = "running"
  BY DEF FullInv, ExpandInv, TypeOK, Pops, Output
<1>2. s \in Text /\ texts \in Seq(Text) /\ Len(texts) + 1 = Len(stack) /\ stack = <<s>> \o texts
  BY <1>1
<1>3. Len(texts) \in Nat
  BY <1>2
<1>4. Level(texts) \in 0 .. Cap - 1
  BY <1>1, <1>2, <1>3, CapAssumption DEF Level
<1>5. Completes(stack, out) /\ Fits(stack) /\ Comes(stack)
  BY <1>1 DEF FullInv, RunInv
<1>6. Fits(texts) /\ (This \in Shallow[Cap - 1] => Within(Level(texts), s))
  BY <1>2, <1>5, FitsPushed
<1>7. Comes(texts) /\ Led(s)
  BY <1>2, <1>5, ComesPushed
<1> QED
  BY <1>1, <1>2, <1>4, <1>5, <1>6, <1>7, PartsType

LEMMA PrintPlainKeeps == FullInv /\ PrintPlain => FullInv'
<1> SUFFICES ASSUME FullInv, PrintPlain PROVE FullInv'
  OBVIOUS
<1> DEFINE s == Head(stack)
           texts == Tail(stack)
           l == Level(texts)
<1>1. /\ Pops /\ outcome = "running" /\ After(s) = <<>>
      /\ stack' = texts /\ out' = out \o Printed(s) /\ UNCHANGED <<input, base, outcome>>
  BY DEF PrintPlain, Pops
<1>2. ExpandInv'
  BY PrintPlainInv DEF FullInv
<1>3. /\ IsInput(input) /\ s \in Text /\ texts \in Seq(Text)
      /\ stack = <<s>> \o texts /\ l \in 0 .. Cap - 1
      /\ out \in Output /\ Completes(stack, out) /\ Fits(texts) /\ Comes(texts)
  BY <1>1, AtTop
<1>4. Printed(s) \in Output
  BY <1>1, <1>3, PartsType
<1> HIDE DEF s, texts, l
<1>5. ASSUME Fine(texts)
      PROVE  /\ Good(Cap - 1, This)
             /\ \E r \in Output : Rest(texts, r) /\ Means(Cap - 1, This) = (out \o Printed(s)) \o r
  <2>1. Good(l, s) /\ Means(l, s) = Printed(s)
    BY <1>1, <1>3, GoodParts, MeansTop
  <2>2. Fine(stack)
    BY <1>3, <1>5, <2>1, FinePushed DEF l
  <2>3. Good(Cap - 1, This) /\ \E q \in Output : Rest(stack, q) /\ Means(Cap - 1, This) = out \o q
    BY <1>3, <2>2 DEF Completes
  <2>4. PICK q \in Output : Rest(stack, q) /\ Means(Cap - 1, This) = out \o q
    BY <2>3
  <2>5. PICK r \in Output : Rest(texts, r) /\ q = Means(l, s) \o r
    <3>1. Begins(s, texts, q)
      BY <1>3, <2>4, RestPop
    <3> QED
      BY <3>1 DEF Begins, l
  <2>6. out \o (Printed(s) \o r) = (out \o Printed(s)) \o r
    BY <1>3, <1>4, Associative, ZenonT(30)
  <2>7. Means(Cap - 1, This) = (out \o Printed(s)) \o r
    BY <2>1, <2>4, <2>5, <2>6, Zenon
  <2> QED
    BY <2>3, <2>5, <2>7
<1>6. Completes(stack', out')
  <2>1. Completes(texts, out \o Printed(s))
    BY <1>5 DEF Completes
  <2> QED
    BY <1>1, <2>1, Zenon
<1> QED
  BY <1>1, <1>2, <1>3, <1>6, RunStep

\* Concatenation, by a name of its own: the provers then leave it alone.
Joined(x, y) == x \o y

LEMMA Regroup ==
  ASSUME NEW v \in Output, NEW w \in Output, NEW x \in Output, NEW y \in Output, NEW z \in Output
  PROVE  /\ Joined(v, Joined(Joined(w, Joined(x, y)), z))
            = Joined(Joined(Joined(v, w), x), Joined(y, z))
         /\ Joined(v, Joined(Joined(w, Joined(x, y)), z))
            = Joined(Joined(v, w), Joined(x, Joined(y, z)))
<1>1. \A p, q \in Output : Joined(p, q) \in Output
  BY DEF Output, Joined
<1>2. \A p, q, r \in Output : Joined(Joined(p, q), r) = Joined(p, Joined(q, r))
  BY Associative DEF Joined
<1>3. Joined(x, y) \in Output /\ Joined(y, z) \in Output /\ Joined(v, w) \in Output
      /\ Joined(x, Joined(y, z)) \in Output
  BY <1>1
<1>4. Joined(Joined(w, Joined(x, y)), z) = Joined(w, Joined(x, Joined(y, z)))
  <2>1. Joined(Joined(w, Joined(x, y)), z) = Joined(w, Joined(Joined(x, y), z))
    BY <1>2, <1>3
  <2>2. Joined(Joined(x, y), z) = Joined(x, Joined(y, z))
    BY <1>2
  <2> QED
    BY <2>1, <2>2
<1>5. Joined(v, Joined(w, Joined(x, Joined(y, z)))) = Joined(Joined(v, w), Joined(x, Joined(y, z)))
  BY <1>2, <1>3
<1>6. Joined(Joined(v, w), Joined(x, Joined(y, z))) = Joined(Joined(Joined(v, w), x), Joined(y, z))
  BY <1>2, <1>3
<1> QED
  BY <1>4, <1>5, <1>6

LEMMA EscapedKeeps == FullInv /\ Escaped => FullInv'
<1> SUFFICES ASSUME FullInv, Escaped PROVE FullInv'
  OBVIOUS
<1> DEFINE s == Head(stack)
           texts == Tail(stack)
           l == Level(texts)
           rest == Tail(After(s))
           now == Printed(Literals(s))
           esc == <<"$">>
<1>1. /\ Pops /\ outcome = "running" /\ After(s) # <<>> /\ Head(After(s)) = Esc
      /\ stack' = <<rest>> \o texts /\ out' = (out \o now) \o esc
      /\ UNCHANGED <<input, base, outcome>>
  BY DEF Escaped, Pops, Remainder
<1>2. ExpandInv'
  BY RemainderInv DEF FullInv
<1>3. /\ IsInput(input) /\ s \in Text /\ texts \in Seq(Text)
      /\ stack = <<s>> \o texts /\ l \in 0 .. Cap - 1
      /\ out \in Output /\ now \in Output
      /\ Completes(stack, out) /\ Fits(texts) /\ Comes(texts)
      /\ This \in Shallow[Cap - 1] => Within(l, s)
      /\ Led(s)
  BY <1>1, AtTop
<1>4. rest \in Text /\ Mentions(rest) \subseteq Mentions(s) /\ Head(After(s)).kind # "ref"
  BY <1>1, <1>3, Mentioned DEF Esc
<1>5. esc \in Output
  BY DEF Output
<1> HIDE DEF s, texts, l, rest, now, esc
<1>6. ASSUME Fine(<<rest>> \o texts)
      PROVE  /\ Good(Cap - 1, This)
             /\ \E r \in Output : Rest(<<rest>> \o texts, r)
                                  /\ Means(Cap - 1, This) = ((out \o now) \o esc) \o r
  <2>1. Fine(texts) /\ Good(l, rest)
    BY <1>3, <1>4, <1>6, FinePushed DEF l
  <2>2. Good(l, s)
    BY <1>1, <1>3, <1>4, <2>1, GoodParts DEF rest
  <2> DEFINE m == Means(l, rest)
  <2>3. Means(l, s) = now \o (esc \o m)
    BY <1>1, <1>3, <2>2, MeansTop DEF rest, now, esc
  <2>4. m \in Output
    BY <1>3, <1>4, <2>1, MeansType
  <2> HIDE DEF m
  <2>5. Fine(stack)
    BY <1>3, <2>1, <2>2, FinePushed DEF l
  <2>6. Good(Cap - 1, This) /\ \E q \in Output : Rest(stack, q) /\ Means(Cap - 1, This) = out \o q
    BY <1>3, <2>5 DEF Completes
  <2>7. PICK q \in Output : Rest(stack, q) /\ Means(Cap - 1, This) = out \o q
    BY <2>6
  <2>8. PICK r \in Output : Rest(texts, r) /\ q = Means(l, s) \o r
    <3>1. Begins(s, texts, q)
      BY <1>3, <2>7, RestPop
    <3> QED
      BY <3>1 DEF Begins, l
  <2>9. Rest(<<rest>> \o texts, m \o r)
    BY <1>3, <1>4, <2>4, <2>8, RestPush DEF l, m
  <2>10. m \o r \in Output /\ esc \o m \in Output /\ out \o now \in Output
    BY <1>3, <1>5, <2>4, <2>8 DEF Output
  <2>11. out \o ((now \o (esc \o m)) \o r) = ((out \o now) \o esc) \o (m \o r)
    <3>1. out \in Output /\ now \in Output /\ esc \in Output /\ m \in Output /\ r \in Output
      BY <1>3, <1>5, <2>4, <2>8
    <3>2. Joined(out, Joined(Joined(now, Joined(esc, m)), r))
          = Joined(Joined(Joined(out, now), esc), Joined(m, r))
      BY <3>1, Regroup
    <3> QED
      BY <3>2 DEF Joined
  <2>12. Means(Cap - 1, This) = ((out \o now) \o esc) \o (m \o r)
    BY <2>3, <2>7, <2>8, <2>11, Zenon
  <2> QED
    BY <2>6, <2>9, <2>10, <2>12
<1>7. Completes(stack', out')
  <2>1. Completes(<<rest>> \o texts, (out \o now) \o esc)
    BY <1>6 DEF Completes
  <2> QED
    BY <1>1, <2>1, Zenon
<1>8. Fits(stack')
  <2>1. This \in Shallow[Cap - 1] => Within(l, rest)
    BY <1>3, <1>4 DEF Within
  <2> QED
    BY <1>1, <1>3, <1>4, <2>1, FitsPushed DEF l
<1>9. Comes(stack')
  <2>1. Led(rest)
    BY <1>3, <1>4 DEF Led
  <2> QED
    BY <1>1, <1>3, <1>4, <2>1, ComesPushed
<1> QED
  BY <1>1, <1>2, <1>7, <1>8, <1>9, RunStep

LEMMA ReferenceKeeps == FullInv /\ Reference => FullInv'
<1> SUFFICES ASSUME FullInv, Reference PROVE FullInv'
  OBVIOUS
<1> DEFINE s == Head(stack)
           texts == Tail(stack)
           l == Level(texts)
           rest == Tail(After(s))
           v == Head(After(s)).is
           now == Printed(Literals(s))
           below == <<rest>> \o texts
<1>1. /\ Pops /\ outcome = "running" /\ After(s) # <<>> /\ Head(After(s)).kind = "ref"
      /\ Room(texts) /\ out' = out \o now
      /\ UNCHANGED <<input, base, outcome>>
  BY DEF Reference, AtRef, Pops
<1>2. PICK value \in lookup(v) : stack' = (<<value>> \o <<rest>>) \o texts
  BY DEF Reference, Name, Remainder
<1>3. ExpandInv'
  BY ReferenceInv DEF FullInv
<1>4. /\ IsInput(input) /\ s \in Text /\ texts \in Seq(Text)
      /\ stack = <<s>> \o texts /\ l \in 0 .. Cap - 1
      /\ out \in Output /\ now \in Output
      /\ Completes(stack, out) /\ Fits(texts) /\ Comes(texts)
      /\ This \in Shallow[Cap - 1] => Within(l, s)
      /\ Led(s)
  BY <1>1, AtTop
<1>5. rest \in Text /\ Mentions(rest) \subseteq Mentions(s) /\ v \in Mentions(s)
  BY <1>1, <1>4, Mentioned
<1>6. v \in DOMAIN Bound /\ value = Bound[v] /\ value \in Texts /\ value \in Text
  <2> HIDE DEF v
  <2>1. lookup(v) = IF v \in DOMAIN Bound THEN {Bound[v]} ELSE {}
    BY <1>4, BoundFacts
  <2>2. v \in DOMAIN Bound /\ value = Bound[v]
    BY <1>2, <2>1
  <2> QED
    BY <1>4, <2>2, BoundFacts
<1>7. below \in Seq(Text) /\ Len(below) = Len(texts) + 1 /\ Len(texts) \in Nat
  BY <1>4, <1>5, Pushed
<1>8. l > 0 /\ l - 1 \in 0 .. Cap - 1 /\ Level(below) = l - 1
  <2>1. l = Cap - (Len(texts) + 1) /\ Level(below) = Cap - (Len(below) + 1)
    BY DEF Level
  <2>2. Len(texts) - 1 < Cap - 2
    BY <1>1 DEF Room
  <2> HIDE DEF below, l, texts
  <2> QED
    BY <1>7, <2>1, <2>2, CapAssumption
<1>9. stack' = <<value>> \o below
  <2>1. <<value>> \in Seq(Text) /\ <<rest>> \in Seq(Text)
    BY <1>5, <1>6
  <2> DEFINE x == <<value>>
             y == <<rest>>
  <2> HIDE DEF x, y, texts
  <2>2. x \in Seq(Text) /\ y \in Seq(Text) /\ texts \in Seq(Text)
    BY <1>4, <2>1 DEF x, y
  <2>3. (x \o y) \o texts = x \o (y \o texts)
    BY <2>2, SeqAssociative
  <2> QED
    BY <1>2, <2>3, Zenon DEF x, y
<1> HIDE DEF s, texts, l, rest, v, now, below
<1>10. ASSUME Fine(<<value>> \o below)
       PROVE  /\ Good(Cap - 1, This)
              /\ \E r \in Output : Rest(<<value>> \o below, r)
                                   /\ Means(Cap - 1, This) = (out \o now) \o r
  <2>1. Fine(below) /\ Good(l - 1, value)
    BY <1>6, <1>7, <1>8, <1>10, FinePushed
  <2>2. Fine(texts) /\ Good(l, rest)
    BY <1>4, <1>5, <2>1, FinePushed DEF l, below
  <2>3. Good(l, s)
    BY <1>1, <1>4, <1>6, <1>8, <2>1, <2>2, GoodParts DEF rest, v
  <2> DEFINE m == Means(l, rest)
             mv == Means(l - 1, value)
  <2>4. Means(l, s) = now \o (mv \o m)
    BY <1>1, <1>4, <1>6, <2>3, MeansTop DEF rest, now, v
  <2>5. m \in Output /\ mv \in Output
    BY <1>4, <1>5, <1>6, <1>8, <2>1, <2>2, MeansType
  <2> HIDE DEF m, mv
  <2>6. Fine(stack)
    BY <1>4, <2>2, <2>3, FinePushed DEF l
  <2>7. Good(Cap - 1, This) /\ \E q \in Output : Rest(stack, q) /\ Means(Cap - 1, This) = out \o q
    BY <1>4, <2>6 DEF Completes
  <2>8. PICK q \in Output : Rest(stack, q) /\ Means(Cap - 1, This) = out \o q
    BY <2>7
  <2>9. PICK r \in Output : Rest(texts, r) /\ q = Means(l, s) \o r
    <3>1. Begins(s, texts, q)
      BY <1>4, <2>8, RestPop
    <3> QED
      BY <3>1 DEF Begins, l
  <2>10. Rest(below, m \o r)
    BY <1>4, <1>5, <2>5, <2>9, RestPush DEF l, m, below
  <2>11. Rest(<<value>> \o below, mv \o (m \o r))
    <3>1. Means(Level(below), value) = mv
      BY <1>8 DEF mv
    <3> QED
      BY <1>6, <1>7, <2>5, <2>10, <3>1, RestPush
  <2>12. mv \o (m \o r) \in Output
    <3>1. m \o r \in Output
      BY <2>5, <2>9 DEF Output
    <3> QED
      BY <2>5, <3>1 DEF Output
  <2>13. out \o ((now \o (mv \o m)) \o r) = (out \o now) \o (mv \o (m \o r))
    <3>1. out \in Output /\ now \in Output /\ mv \in Output /\ m \in Output /\ r \in Output
      BY <1>4, <2>5, <2>9
    <3>2. Joined(out, Joined(Joined(now, Joined(mv, m)), r))
          = Joined(Joined(out, now), Joined(mv, Joined(m, r)))
      BY <3>1, Regroup
    <3> QED
      BY <3>2 DEF Joined
  <2>14. Means(Cap - 1, This) = (out \o now) \o (mv \o (m \o r))
    BY <2>4, <2>8, <2>9, <2>13, Zenon
  <2> QED
    BY <2>7, <2>11, <2>12, <2>14
<1>11. Completes(stack', out')
  <2>1. Completes(<<value>> \o below, out \o now)
    BY <1>10 DEF Completes
  <2> QED
    BY <1>1, <1>9, <2>1, Zenon
<1>12. Fits(stack')
  <2>1. ASSUME This \in Shallow[Cap - 1] PROVE Within(l, rest) /\ Within(l - 1, value)
    <3>1. Within(l, s)
      BY <1>4, <2>1
    <3>2. Within(l, rest)
      BY <1>5, <3>1 DEF Within
    <3>3. value \in Shallow[l - 1]
      BY <1>5, <1>6, <3>1 DEF Within
    <3>4. Shallow[l - 1] = {text \in Texts : \A w \in Mentions(text) :
            l - 1 > 0 /\ (w \in DOMAIN Bound => Bound[w] \in Shallow[(l - 1) - 1])}
      BY <1>8, ShallowSteps
    <3> QED
      BY <3>2, <3>3, <3>4 DEF Within
  <2>2. Fits(below)
    BY <1>4, <1>5, <2>1, FitsPushed DEF l, below
  <2>3. Fits(<<value>> \o below)
    BY <1>6, <1>7, <1>8, <2>1, <2>2, FitsPushed
  <2> QED
    BY <1>9, <2>3, Zenon
<1>13. Comes(stack')
  <2>1. PICK t \in Leads(This) : Mentions(s) \subseteq Mentions(t)
    BY <1>4 DEF Led
  <2>2. Led(rest)
    BY <1>5, <2>1 DEF Led
  <2>3. value \in Leads(This)
    BY <1>4, <1>5, <1>6, <2>1, LeadsOn
  <2>4. Led(value)
    BY <2>3 DEF Led
  <2>5. Comes(below)
    BY <1>4, <1>5, <2>2, ComesPushed DEF below
  <2>6. Comes(<<value>> \o below)
    BY <1>6, <1>7, <2>4, <2>5, ComesPushed
  <2> QED
    BY <1>9, <2>6, Zenon
<1> QED
  BY <1>1, <1>3, <1>11, <1>12, <1>13, RunStep

\* No entries are left only where references nest too deep.
LEMMA FailRecursionKeeps == FullInv /\ FailRecursion => FullInv'
<1> SUFFICES ASSUME FullInv, FailRecursion PROVE FullInv'
  OBVIOUS
<1> DEFINE s == Head(stack)
           texts == Tail(stack)
           l == Level(texts)
<1>1. /\ Pops /\ outcome = "running" /\ After(s) # <<>> /\ Head(After(s)).kind = "ref"
      /\ ~Room(texts) /\ UNCHANGED <<input, base>> /\ outcome' = "recursion"
  BY DEF FailRecursion, AtRef, Pops
<1>2. ExpandInv'
  BY FailRecursionInv DEF FullInv
<1>3. /\ s \in Text /\ texts \in Seq(Text) /\ l \in 0 .. Cap - 1
      /\ This \in Shallow[Cap - 1] => Within(l, s)
  BY <1>1, AtTop
<1>4. Head(After(s)).is \in Mentions(s)
  BY <1>1, <1>3, Mentioned
<1>5. l = 0
  <2>1. l = Cap - (Len(texts) + 1) /\ ~(Len(texts) - 1 < Cap - 2) /\ Len(texts) \in Nat
    BY <1>1, <1>3 DEF Level, Room
  <2> HIDE DEF l, texts
  <2> QED
    BY <1>3, <2>1, CapAssumption
<1>6. This \notin Shallow[Cap - 1]
  BY <1>3, <1>4, <1>5 DEF Within
<1> QED
  BY <1>1, <1>2, <1>6, EndStep

LEMMA FailUndefinedKeeps == FullInv /\ FailUndefined => FullInv'
<1> SUFFICES ASSUME FullInv, FailUndefined PROVE FullInv'
  OBVIOUS
<1> DEFINE s == Head(stack)
           v == Head(After(s)).is
<1>1. /\ Pops /\ outcome = "running" /\ After(s) # <<>> /\ Head(After(s)).kind = "ref"
      /\ lookup(v) = {} /\ UNCHANGED <<input, base>> /\ outcome' = "undefined"
  BY DEF FailUndefined, AtRef, Pops, Name
<1>2. ExpandInv'
  BY RemainderInv DEF FullInv
<1>3. IsInput(input) /\ s \in Text /\ Led(s)
  BY <1>1, AtTop
<1>4. v \in Mentions(s)
  BY <1>1, <1>3, Mentioned
<1>5. v \notin DOMAIN Bound
  <2> HIDE DEF v
  <2>1. lookup(v) = IF v \in DOMAIN Bound THEN {Bound[v]} ELSE {}
    BY <1>3, BoundFacts
  <2> QED
    BY <1>1, <2>1
<1>6. LeadsToUndefined(This)
  BY <1>3, <1>4, <1>5 DEF Led, LeadsToUndefined
<1> QED
  BY <1>1, <1>2, <1>6, EndStep

\* Of a field that was not begun, nothing is printed.
LEMMA NewField ==
  IsInput(input) /\ This \in Texts /\ stack = <<This>> /\ out = <<>>
    => Completes(stack, out) /\ Fits(stack) /\ Comes(stack)
<1> SUFFICES ASSUME IsInput(input), This \in Texts, stack = <<This>>, out = <<>>
             PROVE  Completes(stack, out) /\ Fits(stack) /\ Comes(stack)
  OBVIOUS
<1> DEFINE none == <<>>
           t == This
<1>1. none \in Seq(Text) /\ Len(none) = 0 /\ none \in Output
  BY DEF Output
<1>2. t \in Texts /\ t \in Text
  BY BoundFacts
<1>3. stack = <<t>> \o none
  BY <1>2
<1>4. \A k \in 1 .. Len(none) : FALSE
  BY <1>1
<1> HIDE DEF t
<1>5. Rest(none, none)
  BY RestNone
<1> HIDE DEF none
<1>6. Level(none) = Cap - 1 /\ Cap - 1 \in 0 .. Cap - 1
  BY <1>1, CapAssumption DEF Level
<1>7. Fine(none) /\ Fits(none) /\ Comes(none)
  BY <1>4, Zenon DEF Fine, Fits, Comes
<1>8. ASSUME Fine(stack)
      PROVE  Good(Cap - 1, t) /\ \E r \in Output : Rest(stack, r) /\ Means(Cap - 1, t) = none \o r
  <2> DEFINE m == Means(Cap - 1, t)
  <2>1. Good(Cap - 1, t)
    BY <1>1, <1>2, <1>3, <1>6, <1>8, FinePushed
  <2>2. m \in Output
    BY <1>2, <1>6, <2>1, MeansType
  <2>3. Rest(stack, m \o none)
    BY <1>1, <1>2, <1>3, <1>5, <1>6, <2>2, RestPush
  <2> HIDE DEF m
  <2>4. m \o none = m /\ none \o m = m
    BY <2>2 DEF none, Output
  <2> QED
    BY <2>1, <2>2, <2>3, <2>4 DEF m
<1>9. Completes(stack, out)
  BY <1>8 DEF Completes, none, t
<1>10. Fits(stack)
  <2>1. Shallow[Cap - 1] = {text \in Texts : \A w \in Mentions(text) :
          Cap - 1 > 0 /\ (w \in DOMAIN Bound => Bound[w] \in Shallow[(Cap - 1) - 1])}
    BY <1>6, ShallowSteps
  <2>2. t \in Shallow[Cap - 1] => Within(Cap - 1, t)
    BY <2>1 DEF Within
  <2> QED
    BY <1>1, <1>2, <1>3, <1>6, <1>7, <2>2, FitsPushed DEF t
<1>11. Comes(stack)
  <2>1. Led(t)
    BY <1>2, LeadsSelf DEF Led, t
  <2> QED
    BY <1>1, <1>2, <1>3, <1>7, <2>1, ComesPushed
<1> QED
  BY <1>9, <1>10, <1>11

LEMMA InitFull == Init => FullInv
<1> SUFFICES ASSUME Init PROVE FullInv
  OBVIOUS
<1>1. ExpandInv
  BY InitInv
<1>2. IsInput(input) /\ base = <<>> /\ stack = <<input.fields[1]>> /\ out = <<>>
      /\ outcome = "running"
  BY <1>1 DEF Init, ExpandInv, TypeOK
<1>3. Len(base) = 0 /\ DOMAIN base = {}
  BY <1>2
<1>4. This = input.fields[1]
  BY <1>3 DEF This
<1>5. This \in Texts
  <2>1. 1 \in DOMAIN input.fields
    BY <1>2 DEF IsInput
  <2> QED
    BY <1>2, <1>4, <2>1, BoundFacts
<1>6. RunInv
  BY <1>2, <1>4, <1>5, NewField DEF RunInv
<1> QED
  BY <1>1, <1>2, <1>3, <1>6 DEF FullInv, BaseInv, EndInv

LEMMA FieldKeeps == FullInv /\ (NextField \/ Finish) => FullInv'
<1> SUFFICES ASSUME FullInv, NextField \/ Finish PROVE FullInv'
  OBVIOUS
<1>1. /\ outcome = "running" /\ stack = <<>> /\ base' = Append(base, out) /\ UNCHANGED input
      /\ IsInput(input) /\ out \in Output /\ base \in Seq(Output)
      /\ Len(base) < Len(input.fields)
  BY DEF NextField, Finish, FieldDone, FullInv, ExpandInv, TypeOK, Output
<1>2. ExpandInv' /\ IsInput(input)'
  BY FieldInv DEF FullInv, ExpandInv, TypeOK
<1>3. /\ Len(base) \in Nat /\ Len(base') = Len(base) + 1 /\ DOMAIN base' = 1 .. Len(base) + 1
      /\ DOMAIN base = 1 .. Len(base)
      /\ base'[Len(base) + 1] = out /\ \A i \in 1 .. Len(base) : base'[i] = base[i]
  BY <1>1
<1>4. Good(Cap - 1, This) /\ out = Means(Cap - 1, This)
  <2>1. Fine(stack)
    BY <1>1 DEF Fine
  <2>2. Good(Cap - 1, This) /\ \E r \in Output : Rest(<<>>, r) /\ Means(Cap - 1, This) = out \o r
    BY <1>1, <2>1 DEF FullInv, RunInv, Completes
  <2>3. Means(Cap - 1, This) = out \o <<>>
    BY <2>2, RestNone
  <2>4. out \o <<>> = out
    BY <1>1 DEF Output
  <2> QED
    BY <2>2, <2>3, <2>4
<1>5. BaseInv'
  <2>1. \A i \in DOMAIN base' :
          Good(Cap - 1, input.fields[i]) /\ base'[i] = Means(Cap - 1, input.fields[i])
    <3> SUFFICES ASSUME NEW i \in 1 .. Len(base) + 1
                 PROVE  /\ Good(Cap - 1, input.fields[i])
                        /\ base'[i] = Means(Cap - 1, input.fields[i])
      BY <1>3
    <3>1. i \in 1 .. Len(base) \/ i = Len(base) + 1
      BY <1>3
    <3>2. ASSUME i = Len(base) + 1
          PROVE  /\ Good(Cap - 1, input.fields[i])
                 /\ base'[i] = Means(Cap - 1, input.fields[i])
      BY <1>3, <1>4, <3>2 DEF This
    <3>3. ASSUME i \in 1 .. Len(base)
          PROVE  /\ Good(Cap - 1, input.fields[i])
                 /\ base'[i] = Means(Cap - 1, input.fields[i])
      BY <1>3, <3>3 DEF FullInv, BaseInv
    <3> QED
      BY <3>1, <3>2, <3>3
  <2>2. /\ \A n, s : Good(n, s)' <=> Good(n, s)
        /\ \A n, s : Means(n, s)' = Means(n, s)
    BY <1>1, SameInput
  <2> QED
    BY <1>1, <2>1, <2>2 DEF BaseInv
<1>6. CASE NextField
  <2>1. /\ stack' = <<This>>' /\ out' = <<>> /\ outcome' = "running"
        /\ Len(base') < Len(input.fields)
    BY <1>1, <1>6 DEF NextField, This
  <2>2. (This \in Texts)'
    <3>1. Len(base') + 1 \in DOMAIN input.fields
      BY <1>1, <1>3, <2>1 DEF IsInput
    <3>2. input.fields[Len(base') + 1] \in Texts
      BY <1>1, <3>1, BoundFacts
    <3>3. Texts' = Texts
      BY <1>1, SameInput
    <3> QED
      BY <1>1, <3>2, <3>3 DEF This
  <2>3. (IsInput(input) /\ This \in Texts /\ stack = <<This>> /\ out = <<>>
           => Completes(stack, out) /\ Fits(stack) /\ Comes(stack))'
    BY NewField, PTL
  <2>4. RunInv'
    BY <1>2, <2>1, <2>2, <2>3 DEF RunInv
  <2>5. EndInv'
    BY <2>1 DEF EndInv
  <2> QED
    BY <1>2, <1>5, <2>4, <2>5 DEF FullInv
<1>7. CASE Finish
  <2>1. outcome' = "ok"
    BY <1>7 DEF Finish
  <2> QED
    BY <1>2, <1>5, <2>1 DEF FullInv, RunInv, EndInv
<1> QED
  BY <1>6, <1>7

LEMMA StoppedKeeps == FullInv /\ UNCHANGED vars => FullInv'
<1> SUFFICES ASSUME FullInv, UNCHANGED vars PROVE FullInv'
  OBVIOUS
<1>1. UNCHANGED <<input, base>> /\ stack' = stack /\ out' = out /\ outcome' = outcome
  BY DEF vars
<1>2. ExpandInv'
  BY <1>1 DEF FullInv, ExpandInv, TypeOK, IsInput, IsEnv
<1>3. BaseInv'
  BY <1>1, SameField DEF FullInv
<1>4. RunInv'
  BY <1>1, SameField DEF FullInv, RunInv
<1>5. EndInv'
  BY <1>1, SameField DEF FullInv, EndInv
<1> QED
  BY <1>2, <1>3, <1>4, <1>5 DEF FullInv

LEMMA NextFull == FullInv /\ [Next]_vars => FullInv'
BY PrintPlainKeeps, ReferenceKeeps, EscapedKeeps, FailRecursionKeeps, FailUndefinedKeeps,
   FieldKeeps, StoppedKeeps DEF Next, Stopped

\* A field that is complete is among the texts.
LEMMA FieldsDone ==
  ASSUME FullInv, NEW i \in DOMAIN base
  PROVE  IsInput(input) /\ input.fields[i] \in Texts
<1>1. IsInput(input) /\ base \in Seq(Output) /\ Len(base) <= Len(input.fields)
      /\ input.fields \in Seq(Text)
  BY DEF FullInv, ExpandInv, TypeOK, IsInput, Output
<1>2. i \in DOMAIN input.fields
  BY <1>1
<1> QED
  BY <1>1, <1>2, BoundFacts

(***************************************************************************)
(* Whatever the variables and however they refer to each other, a field    *)
(* that expand() completes is exactly its text with the references         *)
(* replaced all the way down, and nothing of another field is in it.       *)
(***************************************************************************)
THEOREM ExpansionCorrect == Spec => []ExpandedExactly
<1>1. FullInv => ExpandedExactly
  <2> SUFFICES ASSUME FullInv, NEW i \in DOMAIN base
               PROVE  base[i] = Meaning[Cap][input.fields[i]]
    BY DEF ExpandedExactly
  <2>1. input.fields[i] \in Texts
    BY FieldsDone
  <2>2. base[i] = Means(Cap - 1, input.fields[i])
    BY DEF FullInv, BaseInv
  <2>3. Cap - 1 \in 0 .. Cap - 1 /\ (Cap - 1) + 1 = Cap
    BY CapAssumption
  <2>4. Meaning[Cap][input.fields[i]] = Means(Cap - 1, input.fields[i])
    BY <2>1, <2>3, MeaningSteps DEF Means
  <2> QED
    BY <2>2, <2>4
<1> QED
  BY <1>1, InitFull, NextFull, PTL DEF Spec

(***************************************************************************)
(* Expansion stops at an undefined variable only if the field leads to     *)
(* one, and for lack of entries only if its references are nested too      *)
(* deep for them; neither holds of a field that it completes.              *)
(***************************************************************************)
THEOREM FailuresCorrect == Spec => []FailsRightly
<1>1. FullInv => FailsRightly
  <2> SUFFICES ASSUME FullInv PROVE FailsRightly
    OBVIOUS
  <2>1. ASSUME NEW i \in DOMAIN base
        PROVE  ~LeadsToUndefined(input.fields[i]) /\ input.fields[i] \in Shallow[Cap - 1]
    <3>1. IsInput(input) /\ input.fields[i] \in Texts
      BY FieldsDone
    <3>2. Good(Cap - 1, input.fields[i]) /\ Cap - 1 \in 0 .. Cap - 1
      BY CapAssumption DEF FullInv, BaseInv
    <3> QED
      BY <3>1, <3>2, GoodText
  <2> QED
    BY <2>1 DEF FullInv, EndInv, FailsRightly, This
<1> QED
  BY <1>1, InitFull, NextFull, PTL DEF Spec

=============================================================================
