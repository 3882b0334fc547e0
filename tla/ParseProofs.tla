------------------------------ MODULE ParseProofs ---------------------------
(***************************************************************************)
(* The tree of Trie is a map, whatever the hash of names is, and           *)
(* parsepackage() finds in a file what its lines say, however they are     *)
(* written down.                                                           *)
(***************************************************************************)
EXTENDS Parse, FiniteSetTheorems, WellFoundedInduction, SequenceTheorems, TLAPS

(***************************************************************************)
(* The tree of Trie is a map: to bind a name changes what is found for     *)
(* this name, and for no other. This is why the other modules may take the *)
(* packages that are loaded, and the arguments that have a position, as    *)
(* sets.                                                                   *)
(***************************************************************************)
\* n is where the walk for a name ends first.
EndsFirst(tree, key, n) ==
  Ends(tree, key, n) /\ \A m \in 0 .. n - 1 : ~Ends(tree, key, m)

\* Every node is on the way of its name, where the walk for it ends.
WellFormed(tree) ==
  /\ IsFiniteSet(DOMAIN tree)
  /\ \A at \in DOMAIN tree :
       \E n \in Nat : /\ at = Place(tree[at].name, n)
                      /\ EndsFirst(tree, tree[at].name, n)

(***************************************************************************)
(* Places of a name on different steps are different.                      *)
(***************************************************************************)
LEMMA PlacesDiffer ==
  ASSUME NEW key, NEW m \in Nat, NEW n \in Nat, Place(key, m) = Place(key, n)
  PROVE  m = n
<1>1. DOMAIN Place(key, m) = 1 .. m /\ DOMAIN Place(key, n) = 1 .. n
  BY DEF Place
<1>2. 1 .. m = 1 .. n
  BY <1>1
<1> QED
  BY <1>2

(***************************************************************************)
(* A set of numbers has a least one.                                       *)
(***************************************************************************)
LEMMA LeastExists ==
  ASSUME NEW S \in SUBSET Nat, S # {}
  PROVE  \E n \in S : \A m \in S : n <= m
<1>1. PICK n \in S : \A m \in S : <<m, n>> \notin OpToRel(<, Nat)
  BY WFMin, NatLessThanWellFounded
<1>2. \A m \in S : <<m, n>> \in OpToRel(<, Nat) <=> m < n
  BY DEF OpToRel
<1>3. \A m \in S : n \in Nat /\ m \in Nat /\ ~(m < n)
  BY <1>1, <1>2
<1> QED
  BY <1>3

(***************************************************************************)
(* No finite set has room for all places of a name.                        *)
(***************************************************************************)
LEMMA PlacesRunOut ==
  ASSUME NEW D, IsFiniteSet(D), NEW key
  PROVE  \E n \in 0 .. Cardinality(D) : Place(key, n) \notin D
<1>1. Cardinality(D) \in Nat
  BY FS_CardinalityType
<1> DEFINE N == 0 .. Cardinality(D)
           f == [n \in N |-> Place(key, n)]
<1>2. IsFiniteSet(N) /\ Cardinality(N) = Cardinality(D) + 1
  BY <1>1, FS_Interval
<1>3. Cardinality(D) < Cardinality(N)
  BY <1>1, <1>2
<1> SUFFICES ASSUME \A n \in N : Place(key, n) \in D PROVE FALSE
  OBVIOUS
<1>4. f \in [N -> D]
  OBVIOUS
<1>5. \A x, y \in N : f[x] = f[y] => x = y
  BY <1>1, PlacesDiffer
<1> HIDE DEF N, f
<1>6. \E x, y \in N : x # y /\ f[x] = f[y]
  BY <1>2, <1>3, <1>4, FS_PigeonHole
<1> QED
  BY <1>5, <1>6

(***************************************************************************)
(* The walk ends, as there are fewer nodes than steps it could take.       *)
(***************************************************************************)
LEMMA StepsEnd ==
  ASSUME NEW tree, IsFiniteSet(DOMAIN tree), NEW key
  PROVE  Steps(tree, key) \in Nat /\ EndsFirst(tree, key, Steps(tree, key))
<1> DEFINE C == Cardinality(DOMAIN tree)
           S == {n \in 0 .. C : Ends(tree, key, n)}
<1>1. C \in Nat
  BY FS_CardinalityType
<1>2. S # {}
  BY PlacesRunOut DEF Ends
<1> HIDE DEF C
<1>3. S \in SUBSET Nat
  BY <1>1
<1>9. PICK n \in S : \A m \in S : n <= m
  <2> HIDE DEF S
  <2> QED BY <1>2, <1>3, LeastExists
<1>4. n \in 0 .. C /\ Ends(tree, key, n) /\ \A m \in 0 .. n - 1 : ~Ends(tree, key, m)
  BY <1>1, <1>9
<1>5. /\ Steps(tree, key) \in 0 .. C
      /\ Ends(tree, key, Steps(tree, key))
      /\ \A m \in 0 .. Steps(tree, key) - 1 : ~Ends(tree, key, m)
  BY <1>4 DEF Steps, C
<1> QED
  BY <1>1, <1>5 DEF EndsFirst

(***************************************************************************)
(* It ends at one step only.                                               *)
(***************************************************************************)
LEMMA StepsUnique ==
  ASSUME NEW tree, IsFiniteSet(DOMAIN tree), NEW key, NEW n \in Nat,
         EndsFirst(tree, key, n)
  PROVE  Steps(tree, key) = n
<1>1. Steps(tree, key) \in Nat /\ EndsFirst(tree, key, Steps(tree, key))
  BY StepsEnd
<1>2. ~(Steps(tree, key) < n) /\ ~(n < Steps(tree, key))
  BY <1>1 DEF EndsFirst
<1> QED
  BY <1>1, <1>2

\* The names of the nodes stay, and there is a node for this name.
Extends(new, tree, key) ==
  /\ DOMAIN new = DOMAIN tree \cup {Slot(tree, key)}
  /\ IsFiniteSet(DOMAIN new)
  /\ new[Slot(tree, key)].name = key
  /\ \A at \in DOMAIN tree \ {Slot(tree, key)} : new[at] = tree[at]
  /\ \A at \in DOMAIN tree : new[at].name = tree[at].name

(***************************************************************************)
(* What binding a name does to the nodes.                                  *)
(***************************************************************************)
LEMMA BindNodes ==
  ASSUME NEW tree, IsFiniteSet(DOMAIN tree), NEW key, NEW value
  PROVE  Extends(Bind(tree, key, value), tree, key)
<1>1. DOMAIN Bind(tree, key, value) = DOMAIN tree \cup {Slot(tree, key)}
  BY DEF Bind
<1>2. IsFiniteSet(DOMAIN Bind(tree, key, value))
  BY <1>1, FS_AddElement
<1>3. /\ Bind(tree, key, value)[Slot(tree, key)].name = key
      /\ \A at \in DOMAIN tree \ {Slot(tree, key)} : Bind(tree, key, value)[at] = tree[at]
  BY DEF Bind
<1>4. Slot(tree, key) \in DOMAIN tree => tree[Slot(tree, key)].name = key
  BY StepsEnd DEF EndsFirst, Ends, Same, Slot
<1> QED
  BY <1>1, <1>2, <1>3, <1>4 DEF Extends

(***************************************************************************)
(* To bind a name keeps the tree well-formed.                              *)
(***************************************************************************)
THEOREM BindWellFormed ==
  ASSUME NEW tree, WellFormed(tree), NEW key, NEW value
  PROVE  WellFormed(Bind(tree, key, value))
<1> DEFINE new  == Bind(tree, key, value)
<1>0. IsFiniteSet(DOMAIN tree)
  BY DEF WellFormed
<1>1. Extends(new, tree, key)
  BY <1>0, BindNodes
<1> HIDE DEF new
<1>2. ASSUME NEW at \in DOMAIN tree
      PROVE  \E n \in Nat : at = Place(new[at].name, n) /\ EndsFirst(new, new[at].name, n)
  <2>1. PICK n \in Nat : at = Place(tree[at].name, n) /\ EndsFirst(tree, tree[at].name, n)
    BY DEF WellFormed
  <2>2. EndsFirst(new, tree[at].name, n)
    BY <1>0, <1>1, <2>1 DEF EndsFirst, Ends, Same, Extends
  <2> QED
    BY <1>0, <1>1, <2>1, <2>2 DEF Extends
<1>3. \E n \in Nat : /\ Slot(tree, key) = Place(new[Slot(tree, key)].name, n)
                    /\ EndsFirst(new, new[Slot(tree, key)].name, n)
  <2>1. /\ Steps(tree, key) \in Nat
        /\ EndsFirst(tree, key, Steps(tree, key))
        /\ Slot(tree, key) = Place(key, Steps(tree, key))
    BY <1>0, <1>1, StepsEnd DEF Slot, Extends
  <2>2. EndsFirst(new, key, Steps(tree, key))
    BY <1>0, <1>1, <2>1 DEF EndsFirst, Ends, Same, Extends
  <2> QED
    BY <1>0, <1>1, <2>1, <2>2 DEF Extends
<1> QED
  BY <1>0, <1>1, <1>2, <1>3 DEF WellFormed, new, Extends

(***************************************************************************)
(* What is bound to a name is found for it.                                *)
(***************************************************************************)
THEOREM BindFound ==
  ASSUME NEW tree, WellFormed(tree), NEW key, NEW value
  PROVE  Has(Bind(tree, key, value), key) /\ Lookup(Bind(tree, key, value), key) = value
<1> DEFINE new == Bind(tree, key, value)
           s   == Steps(tree, key)
<1>0. IsFiniteSet(DOMAIN tree)
  BY DEF WellFormed
<1>1. Extends(new, tree, key)
  BY <1>0, BindNodes
<1>8. new[Slot(tree, key)].value = value
  BY DEF Bind
<1>2. s \in Nat /\ EndsFirst(tree, key, s) /\ Slot(tree, key) = Place(key, s)
  BY <1>0, <1>1, StepsEnd DEF Slot, Extends
<1> HIDE DEF new, s
<1>3. EndsFirst(new, key, s)
  BY <1>0, <1>1, <1>2 DEF EndsFirst, Ends, Same, Extends
<1>4. Slot(new, key) = Slot(tree, key)
  BY <1>0, <1>1, <1>2, <1>3, StepsUnique DEF Slot, Extends
<1> QED
  BY <1>0, <1>1, <1>4, <1>8 DEF Has, Lookup, new, Extends

(***************************************************************************)
(* To bind a name changes nothing for any other one, even if the node for  *)
(* it is where the walk for the other one used to end.                     *)
(***************************************************************************)
THEOREM BindOthers ==
  ASSUME NEW tree, WellFormed(tree), NEW key, NEW value, NEW other, other # key
  PROVE  Lookup(Bind(tree, key, value), other) = Lookup(tree, other)
<1> DEFINE new  == Bind(tree, key, value)
           n    == Steps(tree, other)
<1>0. IsFiniteSet(DOMAIN tree)
  BY DEF WellFormed
<1>1. Extends(new, tree, key)
  BY <1>0, BindNodes
<1>2. n \in Nat /\ EndsFirst(tree, other, n) /\ Slot(tree, other) = Place(other, n)
  BY <1>0, <1>1, StepsEnd DEF Slot, Extends
<1> HIDE DEF new, n
<1>3. CASE Place(other, n) # Slot(tree, key)
  <2>1. EndsFirst(new, other, n)
    BY <1>0, <1>1, <1>2, <1>3 DEF EndsFirst, Ends, Same, Extends
  <2>2. Slot(new, other) = Place(other, n)
    BY <1>0, <1>1, <1>2, <2>1, StepsUnique DEF Slot, Extends
  <2> QED
    BY <1>0, <1>1, <1>2, <1>3, <2>2 DEF Lookup, Has, new, Extends
<1>4. CASE Place(other, n) = Slot(tree, key)
  <2>1. Slot(tree, key) \notin DOMAIN tree
    <3>1. Slot(tree, key) \in DOMAIN tree =>
            tree[Slot(tree, key)].name = key /\ tree[Slot(tree, key)].name = other
      BY <1>0, <1>1, <1>2, <1>4 DEF EndsFirst, Ends, Same, Extends
    <3> QED
      BY <3>1
  <2>2. Lookup(tree, other) = Null
    BY <1>2, <1>4, <2>1 DEF Lookup, Has
  <2> DEFINE k == Steps(new, other)
  <2>3. k \in Nat /\ EndsFirst(new, other, k) /\ Slot(new, other) = Place(other, k)
    BY <1>0, <1>1, StepsEnd DEF Slot, Extends
  <2> HIDE DEF k
  <2>4. \A m \in 0 .. n : ~Ends(new, other, m)
    <3>1. \A m \in 0 .. n - 1 : ~Ends(new, other, m)
      BY <1>0, <1>1, <1>2 DEF EndsFirst, Ends, Same, Extends
    <3>2. ~Ends(new, other, n)
      BY <1>0, <1>1, <1>4 DEF Ends, Same, Extends
    <3> QED
      BY <1>2, <3>1, <3>2
  <2>5. n < k
    BY <1>2, <2>3, <2>4 DEF EndsFirst
  <2>6. Place(other, k) \notin DOMAIN new
    <3> SUFFICES ASSUME Place(other, k) \in DOMAIN new PROVE FALSE
      OBVIOUS
    <3>1. new[Place(other, k)].name = other
      BY <2>3 DEF EndsFirst, Ends, Same
    <3>2. Place(other, k) \in DOMAIN tree /\ tree[Place(other, k)].name = other
      BY <1>0, <1>1, <3>1 DEF Extends
    <3>3. PICK j \in Nat : Place(other, k) = Place(other, j) /\ EndsFirst(tree, other, j)
      BY <3>2 DEF WellFormed
    <3>4. j = k
      BY <2>3, <3>3, PlacesDiffer
    <3>5. Place(other, n) \in DOMAIN tree
      BY <1>2, <2>5, <3>3, <3>4 DEF EndsFirst, Ends
    <3> QED
      BY <1>4, <2>1, <3>5
  <2> QED
    BY <2>2, <2>3, <2>6 DEF Lookup, Has, new
<1> QED
  BY <1>3, <1>4

(***************************************************************************)
(* No name has two nodes.                                                  *)
(***************************************************************************)
THEOREM NamesOnce ==
  ASSUME NEW tree, WellFormed(tree), NEW at \in DOMAIN tree, NEW to \in DOMAIN tree,
         tree[at].name = tree[to].name
  PROVE  at = to
<1>1. PICK m \in Nat : at = Place(tree[at].name, m) /\ EndsFirst(tree, tree[at].name, m)
  BY DEF WellFormed
<1>2. PICK n \in Nat : to = Place(tree[at].name, n) /\ EndsFirst(tree, tree[at].name, n)
  BY DEF WellFormed
<1>3. ~(m < n) /\ ~(n < m)
  BY <1>1, <1>2 DEF EndsFirst
<1> QED
  BY <1>1, <1>2, <1>3

-----------------------------------------------------------------------------
(***************************************************************************)
(* The texts that FlattenSeq joins, and where they are in the joined one.  *)
(***************************************************************************)
\* What holds of 0, and of n + 1 if of n, holds of all numbers.
LEMMA NaturalsFrom0 ==
  ASSUME NEW S, 0 \in S, \A n \in Nat : n \in S => n + 1 \in S
  PROVE  Nat \subseteq S
<1> SUFFICES ASSUME Nat \ S # {} PROVE FALSE
  OBVIOUS
<1>1. PICK x \in Nat \ S : \A i \in Nat \ S : x <= i
  <2> DEFINE T == Nat \ S
  <2>1. T \subseteq Nat /\ T # {}
    OBVIOUS
  <2> HIDE DEF T
  <2>2. \E x \in T : \A i \in T : x <= i
    BY <2>1, LeastExists
  <2> QED
    BY <2>2 DEF T
<1>2. x - 1 \in Nat /\ (x - 1) + 1 = x /\ x - 1 \in S
  BY <1>1
<1> QED
  BY <1>1, <1>2

\* f joins the first of the parts, up to each of them.
JoinsAt(f, parts, i) == IF i = 1 THEN parts[i] ELSE f[i-1] \o parts[i]
Joins(f, parts, n) == f = [i \in 1 .. n |-> JoinsAt(f, parts, i)]
Joined(parts) == CHOOSE f : Joins(f, parts, Len(parts))

\* The joined parts are the last of the sequences that the parts make, one after the other.
LEMMA JoinedIs ==
  ASSUME NEW parts, Len(parts) # 0
  PROVE  FlattenSeq(parts) = Joined(parts)[Len(parts)]
BY DEF FlattenSeq, Joined, Joins, JoinsAt

\* There are these sequences.
LEMMA JoinsExist ==
  ASSUME NEW parts
  PROVE  \A n \in Nat : \E f : Joins(f, parts, n)
<1> DEFINE S == {n \in Nat : \E f : Joins(f, parts, n)}
<1>1. 0 \in S
  <2> DEFINE f == [i \in 1 .. 0 |-> 0]
  <2>1. f = [i \in 1 .. 0 |-> JoinsAt(f, parts, i)]
    <3>1. \A i \in 1 .. 0 : FALSE
      OBVIOUS
    <3> QED
      BY <3>1
  <2> QED
    BY <2>1 DEF Joins
<1>2. ASSUME NEW n \in Nat, n \in S PROVE n + 1 \in S
  <2>1. PICK f : Joins(f, parts, n)
    BY <1>2
  <2> DEFINE next == JoinsAt(f, parts, n + 1)
             t == [i \in 1 .. n + 1 |-> IF i = n + 1 THEN next ELSE f[i]]
  <2> HIDE DEF next
  <2>2. /\ t[n + 1] = next
        /\ \A i \in 1 .. n : t[i] = f[i] /\ f[i] = JoinsAt(f, parts, i)
        /\ \A i \in 1 .. n + 1 : i \in 1 .. n \/ i = n + 1
        /\ \A i \in 1 .. n + 1 : i = 1 \/ i - 1 \in 1 .. n
        /\ (n + 1) - 1 = n
    BY <2>1 DEF Joins
  <2>3. t = [i \in 1 .. n + 1 |-> t[i]]
    OBVIOUS
  <2> HIDE DEF t
  <2>4. ASSUME NEW i \in 1 .. n + 1
        PROVE  t[i] = JoinsAt(t, parts, i)
    <3>1. JoinsAt(t, parts, i) = JoinsAt(f, parts, i)
      <4>1. i = 1 \/ t[i-1] = f[i-1]
        BY <2>2
      <4> QED
        BY <4>1, Zenon DEF JoinsAt
    <3> QED
      BY <2>2, <3>1, Zenon DEF next
  <2>5. Joins(t, parts, n + 1)
    BY <2>3, <2>4, Zenon DEF Joins
  <2> QED
    BY <2>5
<1>3. Nat \subseteq S
  <2> HIDE DEF S
  <2> QED
    BY <1>1, <1>2, NaturalsFrom0
<1> QED
  BY <1>3

\* Each part of what is joined begins where the ones before it end.
AreStarts(at, parts, whole) ==
  /\ at \in [1 .. Len(parts) + 1 -> Nat]
  /\ at[1] = 0 /\ at[Len(parts) + 1] = Len(whole)
  /\ \A i \in DOMAIN parts :
       /\ at[i + 1] = at[i] + Len(parts[i])
       /\ \A j \in DOMAIN parts[i] : at[i] + j \in DOMAIN whole /\ whole[at[i] + j] = parts[i][j]

\* ... and so do the first n of them.
GoodUpTo(f, at, parts, S, n) ==
  /\ f[n] \in Seq(S)
  /\ at[n] \in Nat /\ at[n + 1] = Len(f[n]) /\ at[n + 1] = at[n] + Len(parts[n])
  /\ \A i \in 1 .. n : \A j \in DOMAIN parts[i] :
       at[i] + j \in DOMAIN f[n] /\ f[n][at[i] + j] = parts[i][j]

\* Where the bytes of two sequences are when they are joined.
LEMMA CatBytes ==
  ASSUME NEW S, NEW a \in Seq(S), NEW b \in Seq(S)
  PROVE  /\ a \o b \in Seq(S) /\ Len(a \o b) = Len(a) + Len(b) /\ Len(a) \in Nat /\ Len(b) \in Nat
         /\ \A j \in DOMAIN a : j \in DOMAIN (a \o b) /\ (a \o b)[j] = a[j]
         /\ \A j \in DOMAIN b : Len(a) + j \in DOMAIN (a \o b) /\ (a \o b)[Len(a) + j] = b[j]
<1>1. a \o b \in Seq(S) /\ Len(a \o b) = Len(a) + Len(b) /\ Len(a) \in Nat /\ Len(b) \in Nat
      /\ DOMAIN a = 1 .. Len(a) /\ DOMAIN b = 1 .. Len(b)
  OBVIOUS
<1>2. DOMAIN (a \o b) = 1 .. Len(a) + Len(b)
  BY <1>1
<1>3. \A j \in 1 .. Len(a) : (a \o b)[j] = a[j]
  BY <1>1
<1>4. \A j \in 1 .. Len(b) : (a \o b)[Len(a) + j] = b[j]
  BY <1>1
<1> QED
  BY <1>1, <1>2, <1>3, <1>4

\* Where the first n parts are, and the one after them is.
LEMMA OnePartMore ==
  ASSUME NEW S, NEW parts, NEW f, NEW at, NEW n \in Nat \ {0}, GoodUpTo(f, at, parts, S, n),
         parts[n + 1] \in Seq(S), f[n + 1] = f[n] \o parts[n + 1], at[n + 2] = Len(f[n + 1])
  PROVE  GoodUpTo(f, at, parts, S, n + 1)
<1> DEFINE a == f[n]
           b == parts[n + 1]
<1>1. a \in Seq(S) /\ b \in Seq(S) /\ at[n + 1] = Len(a) /\ f[n + 1] = a \o b
  BY DEF GoodUpTo
<1> HIDE DEF a, b
<1>2. /\ f[n + 1] \in Seq(S) /\ Len(f[n + 1]) = Len(a) + Len(b) /\ Len(a) \in Nat
      /\ \A j \in DOMAIN a : j \in DOMAIN f[n + 1] /\ f[n + 1][j] = a[j]
      /\ \A j \in DOMAIN b : Len(a) + j \in DOMAIN f[n + 1] /\ f[n + 1][Len(a) + j] = b[j]
  <2> DEFINE c == a \o b
  <2>1. /\ c \in Seq(S) /\ Len(c) = Len(a) + Len(b) /\ Len(a) \in Nat
        /\ \A j \in DOMAIN a : j \in DOMAIN c /\ c[j] = a[j]
        /\ \A j \in DOMAIN b : Len(a) + j \in DOMAIN c /\ c[Len(a) + j] = b[j]
    <3>1. a \in Seq(S) /\ b \in Seq(S)
      BY <1>1
    <3> QED
      BY <3>1, CatBytes
  <2>2. f[n + 1] = c
    BY <1>1
  <2> HIDE DEF c
  <2> QED
    BY <2>1, <2>2, Zenon
<1>3. /\ (n + 1) + 1 = n + 2
      /\ \A i \in 1 .. n + 1 : i \in 1 .. n \/ i = n + 1
  OBVIOUS
<1>4. ASSUME NEW i \in 1 .. n + 1, NEW j \in DOMAIN parts[i]
      PROVE  at[i] + j \in DOMAIN f[n + 1] /\ f[n + 1][at[i] + j] = parts[i][j]
  <2>1. CASE i \in 1 .. n
    <3>1. at[i] + j \in DOMAIN a /\ a[at[i] + j] = parts[i][j]
      BY <2>1 DEF GoodUpTo, a
    <3> QED
      BY <1>2, <3>1, Zenon
  <2>2. CASE i = n + 1
    <3>1. j \in DOMAIN b /\ parts[i][j] = b[j] /\ at[i] = Len(a)
      BY <1>1, <2>2 DEF b
    <3> QED
      BY <1>2, <3>1, Zenon
  <2> QED
    BY <1>3, <2>1, <2>2
<1>5. at[n + 2] = at[n + 1] + Len(b) /\ at[n + 1] \in Nat
  BY <1>1, <1>2
<1> QED
  BY <1>2, <1>3, <1>4, <1>5 DEF GoodUpTo, b

\* FlattenSeq puts every part at a place of its own, one after the other, and nothing else.
LEMMA JoinedParts ==
  ASSUME NEW S, NEW parts \in Seq(Seq(S))
  PROVE  /\ FlattenSeq(parts) \in Seq(S)
         /\ \E at : AreStarts(at, parts, FlattenSeq(parts))
<1>1. Len(parts) \in Nat /\ DOMAIN parts = 1 .. Len(parts)
      /\ \A i \in 1 .. Len(parts) : parts[i] \in Seq(S)
  OBVIOUS
<1>2. CASE Len(parts) = 0
  <2>1. parts = <<>> /\ FlattenSeq(parts) = <<>>
    BY <1>2 DEF FlattenSeq
  <2> DEFINE at == [i \in 1 .. 1 |-> 0]
  <2>2. at \in [1 .. Len(parts) + 1 -> Nat] /\ at[1] = 0 /\ at[Len(parts) + 1] = Len(<<>>)
    BY <1>2
  <2>3. \A i \in DOMAIN parts : FALSE
    BY <1>1, <1>2
  <2>4. AreStarts(at, parts, <<>>)
    BY <2>2, <2>3 DEF AreStarts
  <2>5. <<>> \in Seq(S)
    OBVIOUS
  <2> QED
    BY <2>1, <2>4, <2>5, Zenon
<1>3. CASE Len(parts) # 0
  <2> DEFINE f == Joined(parts)
             L == Len(parts)
             at == [i \in 1 .. L + 1 |-> IF i = 1 THEN 0 ELSE Len(f[i-1])]
  <2>1. Joins(f, parts, L)
    BY <1>1, JoinsExist, Zenon DEF Joined
  <2>10. FlattenSeq(parts) = f[L]
    BY <1>3, JoinedIs
  <2> HIDE DEF f
  <2>11. L \in Nat \ {0} /\ 1 \in 1 .. L /\ L \in 1 .. L
    BY <1>1, <1>3
  <2> HIDE DEF L
  <2>2. ASSUME NEW i \in 1 .. L PROVE f[i] = JoinsAt(f, parts, i)
    BY <2>1 DEF Joins
  <2>3. f[1] = parts[1]
    BY <2>2, <2>11 DEF JoinsAt
  <2>4. ASSUME NEW i \in 1 .. L, i # 1 PROVE f[i] = f[i-1] \o parts[i]
    BY <2>2, <2>4 DEF JoinsAt
  <2>5. at[1] = 0 /\ \A i \in 1 .. L : at[i + 1] = Len(f[i])
    BY <2>11
  <2>12. DOMAIN at = 1 .. L + 1 /\ at = [i \in 1 .. L + 1 |-> at[i]]
    OBVIOUS
  <2> HIDE DEF at
  <2> DEFINE T == {n \in Nat : n + 1 \in 1 .. L => GoodUpTo(f, at, parts, S, n + 1)}
  <2>6. 0 \in T
    <3>1. f[1] \in Seq(S) /\ at[1] = 0 /\ at[1 + 1] = Len(f[1]) /\ Len(f[1]) = at[1] + Len(parts[1])
      BY <1>1, <2>3, <2>5, <2>11 DEF L
    <3>2. \A i \in 1 .. 1 : i = 1
      OBVIOUS
    <3>3. \A j \in DOMAIN parts[1] : at[1] + j = j
      BY <1>1, <2>11, <3>1 DEF L
    <3>4. GoodUpTo(f, at, parts, S, 1)
      BY <2>3, <3>1, <3>2, <3>3 DEF GoodUpTo
    <3> QED
      BY <3>4
  <2>7. ASSUME NEW m \in Nat, m \in T PROVE m + 1 \in T
    <3> SUFFICES ASSUME m + 2 \in 1 .. L PROVE GoodUpTo(f, at, parts, S, m + 2)
      OBVIOUS
    <3> DEFINE n == m + 1
    <3>1. n \in Nat \ {0} /\ n \in 1 .. L /\ n + 1 \in 1 .. L /\ n + 1 = m + 2 /\ n + 1 # 1
          /\ (n + 1) - 1 = n /\ (n + 1) + 1 = n + 2
      BY <2>11
    <3>2. GoodUpTo(f, at, parts, S, n)
      BY <2>7, <3>1
    <3> HIDE DEF n
    <3>3. f[n + 1] = f[n] \o parts[n + 1]
      BY <2>4, <3>1
    <3>4. parts[n + 1] \in Seq(S)
      BY <1>1, <3>1 DEF L
    <3>5. at[n + 2] = Len(f[n + 1])
      BY <2>5, <3>1
    <3>6. GoodUpTo(f, at, parts, S, n + 1)
      BY <3>1, <3>2, <3>3, <3>4, <3>5, OnePartMore
    <3> QED
      BY <3>1, <3>6
  <2>8. Nat \subseteq T
    <3> HIDE DEF T
    <3> QED
      BY <2>6, <2>7, NaturalsFrom0
  <2>9. ASSUME NEW n \in 1 .. L PROVE GoodUpTo(f, at, parts, S, n)
    <3>1. n - 1 \in Nat /\ (n - 1) + 1 = n
      BY <2>11
    <3>2. n - 1 \in T
      BY <2>8, <3>1
    <3> QED
      BY <3>1, <3>2
  <2>13. at \in [1 .. L + 1 -> Nat]
    <3>1. ASSUME NEW i \in 1 .. L + 1 PROVE at[i] \in Nat
      <4>1. CASE i \in 1 .. L
        BY <2>9, <4>1 DEF GoodUpTo
      <4>2. CASE i = L + 1
        <5>1. f[L] \in Seq(S)
          BY <2>9, <2>11 DEF GoodUpTo
        <5> QED
          BY <2>5, <2>11, <4>2, <5>1
      <4> QED
        BY <2>11, <4>1, <4>2
    <3> QED
      BY <2>12, <3>1
  <2>14. \A i \in DOMAIN parts :
           /\ at[i + 1] = at[i] + Len(parts[i])
           /\ \A j \in DOMAIN parts[i] : at[i] + j \in DOMAIN f[L] /\ f[L][at[i] + j] = parts[i][j]
    BY <1>1, <2>9, <2>11 DEF GoodUpTo, L
  <2>15. f[L] \in Seq(S) /\ at[1] = 0 /\ at[L + 1] = Len(f[L])
    BY <2>5, <2>9, <2>11 DEF GoodUpTo
  <2>16. AreStarts(at, parts, f[L])
    BY <2>13, <2>14, <2>15, Zenon DEF AreStarts, L
  <2> QED
    BY <2>10, <2>15, <2>16, Zenon
<1> QED
  BY <1>2, <1>3

-----------------------------------------------------------------------------
(***************************************************************************)
(* Where the lines of a file are in it.                                    *)
(***************************************************************************)
\* The bytes t are in s, from position i on.
Lies(s, i, t) == \A j \in DOMAIN t : i + j - 1 \in DOMAIN s /\ s[i + j - 1] = t[j]

\* Where two texts lie that are joined.
LEMMA LiesCat ==
  ASSUME NEW S, NEW a \in Seq(S), NEW b \in Seq(S), NEW i \in Nat, NEW s, Lies(s, i, a \o b)
  PROVE  Lies(s, i, a) /\ Lies(s, i + Len(a), b)
<1> DEFINE c == a \o b
<1>1. /\ Len(a) \in Nat /\ Len(b) \in Nat /\ DOMAIN b = 1 .. Len(b)
      /\ \A j \in DOMAIN a : j \in DOMAIN c /\ c[j] = a[j]
      /\ \A j \in DOMAIN b : Len(a) + j \in DOMAIN c /\ c[Len(a) + j] = b[j]
  BY CatBytes
<1>2. \A j \in DOMAIN c : i + j - 1 \in DOMAIN s /\ s[i + j - 1] = c[j]
  BY DEF Lies
<1> HIDE DEF c
<1>3. Lies(s, i, a)
  BY <1>1, <1>2, Zenon DEF Lies
<1>4. ASSUME NEW j \in DOMAIN b
      PROVE  (i + Len(a)) + j - 1 \in DOMAIN s /\ s[(i + Len(a)) + j - 1] = b[j]
  <2>1. (i + Len(a)) + j - 1 = i + (Len(a) + j) - 1
    BY <1>1
  <2> QED
    BY <1>1, <1>2, <2>1
<1> QED
  BY <1>3, <1>4 DEF Lies

\* Which byte is at a place of a text.
LEMMA LiesRange ==
  ASSUME NEW t \in Seq(Byte), NEW i \in Nat, NEW s, Lies(s, i, t)
  PROVE  \A q \in i .. i + Len(t) - 1 :
           q - i + 1 \in DOMAIN t /\ q \in DOMAIN s /\ s[q] = t[q - i + 1]
<1> SUFFICES ASSUME NEW q \in i .. i + Len(t) - 1
             PROVE  q - i + 1 \in DOMAIN t /\ q \in DOMAIN s /\ s[q] = t[q - i + 1]
  OBVIOUS
<1>1. q - i + 1 \in 1 .. Len(t) /\ i + (q - i + 1) - 1 = q /\ DOMAIN t = 1 .. Len(t)
  OBVIOUS
<1> QED
  BY <1>1 DEF Lies

-----------------------------------------------------------------------------
(***************************************************************************)
(* A line in its file.                                                     *)
(***************************************************************************)
FullText(in, k) ==
  LineText(in.lines[k]) \o IF k = Len(in.lines) /\ ~in.final THEN <<>> ELSE in.lines[k].style.eol

Starts(in) == CHOOSE at : AreStarts(at, [k \in DOMAIN in.lines |-> FullText(in, k)], FileOf(in))

Start(in, k) == Starts(in)[k] + 1

\* How the i-th byte of a value is written.
ByteText(value, joint, i) ==
  (IF value[i] = "#" THEN <<"\\", "#">> ELSE <<value[i]>>) \o (IF i = 1 THEN joint ELSE <<>>)

\* What a line consists of.
LEMMA Types ==
  ASSUME NEW l \in Line
  PROVE  /\ l.kind \in {"=", ":", "ignored", "comment"} /\ l.name \in File /\ l.value \in File
         /\ l.style.indent \in File /\ l.style.mid \in File /\ l.style.post \in File
         /\ l.style.joint \in File /\ l.style.trail \in File /\ l.style.eol \in File
         /\ l.style \in Style
<1>1. /\ l.kind \in {"=", ":", "ignored", "comment"} /\ l.name \in File /\ l.value \in File
      /\ l.style \in Style
  BY DEF Line
<1>2. ASSUME NEW s \in Style
      PROVE  /\ s.indent \in File /\ s.mid \in File /\ s.post \in File /\ s.trail \in File
             /\ s.eol \in NewLine /\ s.joint \in File
  BY DEF Style
<1>3. \A eol \in NewLine : eol \in File
  <2>1. "\n" \in Byte /\ "\r" \in Byte
    BY DEF Byte
  <2>2. <<"\n">> \in Seq(Byte) /\ <<"\r", "\n">> \in Seq(Byte)
    BY <2>1
  <2> QED
    BY <2>2 DEF NewLine, File
<1> QED
  BY <1>1, <1>2, <1>3

\* What a file is written from.
LEMMA InputTypes ==
  ASSUME NEW in \in Input
  PROVE  /\ Len(in.lines) \in Nat /\ DOMAIN in.lines = 1 .. Len(in.lines)
         /\ \A k \in 1 .. Len(in.lines) : in.lines[k] \in Line
BY DEF Input

\* What is written for a byte is a text.
LEMMA ByteTextType ==
  ASSUME NEW value \in File, NEW joint \in File, NEW i \in DOMAIN value
  PROVE  ByteText(value, joint, i) \in File
<1>1. value[i] \in Byte
  BY DEF File
<1>2. <<"\\", "#">> \in File /\ <<value[i]>> \in File /\ <<>> \in File
  <2>1. "\\" \in Byte /\ "#" \in Byte
    BY DEF Byte
  <2> QED
    BY <1>1, <2>1 DEF File
<1> QED
  BY <1>2 DEF ByteText, File

\* What is written for a value is a text, in which every byte of the value has its place.
LEMMA WrittenType ==
  ASSUME NEW value \in File, NEW joint \in File
  PROVE  /\ Written(value, joint) \in File
         /\ \E at : AreStarts(at, [i \in DOMAIN value |-> ByteText(value, joint, i)],
                              Written(value, joint))
<1> DEFINE parts == [i \in DOMAIN value |-> ByteText(value, joint, i)]
<1>1. Written(value, joint) = FlattenSeq(parts)
  BY DEF Written, ByteText
<1>2. parts \in Seq(Seq(Byte))
  <2>1. DOMAIN value = 1 .. Len(value) /\ Len(value) \in Nat
    BY DEF File
  <2>2. \A i \in DOMAIN value : ByteText(value, joint, i) \in Seq(Byte)
    BY ByteTextType DEF File
  <2> QED
    BY <2>1, <2>2
<1> HIDE DEF parts
<1>3. FlattenSeq(parts) \in Seq(Byte) /\ \E at : AreStarts(at, parts, FlattenSeq(parts))
  BY <1>2, JoinedParts
<1> QED
  BY <1>1, <1>3 DEF File, parts

\* Two texts make a text.
LEMMA CatType ==
  ASSUME NEW a \in File, NEW b \in File PROVE a \o b \in File
BY DEF File

\* A line is a text.
LEMMA LineTextType == ASSUME NEW l \in Line PROVE LineText(l) \in File
<1>1. /\ l.name \in File /\ l.value \in File /\ l.style.indent \in File /\ l.style.mid \in File
      /\ l.style.post \in File /\ l.style.joint \in File /\ l.style.trail \in File
      /\ l.kind \in {"=", ":", "ignored", "comment"}
  BY Types
<1>2. <<"#">> \in File /\ <<"=">> \in File /\ <<":">> \in File
  BY DEF File, Byte
<1>3. Written(l.value, l.style.joint) \in File
  BY <1>1, WrittenType
<1>4. CASE l.kind = "comment"
  <2>1. LineText(l) = l.style.indent \o (<<"#">> \o l.name \o <<"=">> \o l.value)
    BY <1>4 DEF LineText
  <2> QED
    BY <1>1, <1>2, <2>1, CatType
<1>5. CASE l.kind = "ignored"
  <2>1. LineText(l) = l.style.indent \o l.name
    BY <1>5 DEF LineText
  <2> QED
    BY <1>1, <2>1, CatType
<1>6. CASE l.kind \in {"=", ":"}
  <2>1. LineText(l) = l.style.indent \o
          (l.name \o l.style.mid \o <<l.kind>> \o l.style.post
             \o Written(l.value, l.style.joint) \o l.style.trail)
    BY <1>6 DEF LineText
  <2>2. <<l.kind>> \in File
    BY <1>2, <1>6
  <2> QED
    BY <1>1, <1>3, <2>1, <2>2, CatType
<1> QED
  BY <1>1, <1>4, <1>5, <1>6

\* And so it is with its end.
LEMMA FullTextType ==
  ASSUME NEW in \in Input, NEW k \in 1 .. Len(in.lines) PROVE FullText(in, k) \in File
<1>1. LineText(in.lines[k]) \in File /\ in.lines[k].style.eol \in File
  BY InputTypes, LineTextType, Types
<1>2. <<>> \in File
  BY DEF File
<1> QED
  BY <1>1, <1>2, CatType DEF FullText

\* Where the lines of a file are.
LEMMA FileLines ==
  ASSUME NEW in \in Input
  PROVE  /\ FileOf(in) \in File
         /\ Start(in, 1) = 1 /\ Start(in, Len(in.lines) + 1) = Len(FileOf(in)) + 1
         /\ \A k \in 1 .. Len(in.lines) + 1 : Start(in, k) \in Nat \ {0}
         /\ \A k \in 1 .. Len(in.lines) :
              /\ Start(in, k + 1) = Start(in, k) + Len(FullText(in, k))
              /\ Lies(FileOf(in), Start(in, k), FullText(in, k))
<1> DEFINE parts == [k \in DOMAIN in.lines |-> FullText(in, k)]
           N == Len(in.lines)
<1>1. FileOf(in) = FlattenSeq(parts)
  BY DEF FileOf, FullText
<1>2. N \in Nat /\ DOMAIN in.lines = 1 .. N
  BY InputTypes
<1>3. parts \in Seq(Seq(Byte)) /\ Len(parts) = N /\ DOMAIN parts = 1 .. N
      /\ \A k \in 1 .. N : parts[k] = FullText(in, k)
  <2>1. \A k \in 1 .. N : FullText(in, k) \in Seq(Byte)
    BY FullTextType DEF File
  <2> QED
    BY <1>2, <2>1
<1> HIDE DEF parts
<1>4. FileOf(in) \in Seq(Byte) /\ \E at : AreStarts(at, parts, FileOf(in))
  BY <1>1, <1>3, JoinedParts
<1> DEFINE at == Starts(in)
<1>5. AreStarts(at, parts, FileOf(in))
  BY <1>4, Zenon DEF Starts, parts
<1> HIDE DEF at, N
<1>6. /\ at \in [1 .. N + 1 -> Nat] /\ at[1] = 0 /\ at[N + 1] = Len(FileOf(in))
      /\ \A k \in 1 .. N :
           /\ at[k + 1] = at[k] + Len(FullText(in, k))
           /\ \A j \in DOMAIN FullText(in, k) :
                at[k] + j \in DOMAIN FileOf(in) /\ FileOf(in)[at[k] + j] = FullText(in, k)[j]
  <2>1. /\ at \in [1 .. Len(parts) + 1 -> Nat] /\ at[1] = 0
        /\ at[Len(parts) + 1] = Len(FileOf(in))
        /\ \A k \in DOMAIN parts :
             /\ at[k + 1] = at[k] + Len(parts[k])
             /\ \A j \in DOMAIN parts[k] :
                  at[k] + j \in DOMAIN FileOf(in) /\ FileOf(in)[at[k] + j] = parts[k][j]
    BY <1>5, Zenon DEF AreStarts
  <2>2. /\ at \in [1 .. N + 1 -> Nat] /\ at[1] = 0 /\ at[N + 1] = Len(FileOf(in))
    BY <1>3, <2>1
  <2>3. ASSUME NEW k \in 1 .. N
        PROVE  /\ at[k + 1] = at[k] + Len(FullText(in, k))
               /\ \A j \in DOMAIN FullText(in, k) :
                    at[k] + j \in DOMAIN FileOf(in) /\ FileOf(in)[at[k] + j] = FullText(in, k)[j]
    <3>1. k \in DOMAIN parts /\ parts[k] = FullText(in, k)
      BY <1>3
    <3> QED
      BY <2>1, <3>1, Zenon
  <2> QED
    BY <2>2, <2>3
<1>7. \A k \in 1 .. N + 1 : at[k] + 1 \in Nat \ {0}
  BY <1>2, <1>6
<1>8. ASSUME NEW k \in 1 .. N PROVE at[k + 1] + 1 = (at[k] + 1) + Len(FullText(in, k))
  <2>1. FullText(in, k) \in Seq(Byte)
    BY FullTextType DEF File, N
  <2>2. at[k] \in Nat /\ Len(FullText(in, k)) \in Nat /\ at[k + 1] = at[k] + Len(FullText(in, k))
    BY <1>2, <1>6, <2>1
  <2> QED
    BY <2>2
<1>9. ASSUME NEW k \in 1 .. N PROVE Lies(FileOf(in), at[k] + 1, FullText(in, k))
  <2>1. FullText(in, k) \in Seq(Byte)
    BY FullTextType DEF File, N
  <2>2. \A j \in DOMAIN FullText(in, k) : (at[k] + 1) + j - 1 = at[k] + j
    <3> SUFFICES ASSUME NEW j \in DOMAIN FullText(in, k) PROVE (at[k] + 1) + j - 1 = at[k] + j
      OBVIOUS
    <3> DEFINE n == at[k]
    <3>1. n \in Nat
      BY <1>2, <1>6
    <3>2. j \in Nat
      BY <2>1
    <3> HIDE DEF n
    <3>3. (n + 1) + j - 1 = n + j
      BY <3>1, <3>2
    <3> QED
      BY <3>3 DEF n
  <2> QED
    BY <1>6, <2>2 DEF Lies
<1>10. 1 = 0 + 1 /\ N + 1 \in 1 .. N + 1
  BY <1>2
<1> QED
  BY <1>4, <1>6, <1>7, <1>8, <1>9, <1>10, Zenon DEF Start, File, at, N

EolAt(in, k) == Start(in, k) + Len(LineText(in.lines[k]))

Body(in, k) ==
  IF k \in DOMAIN in.lines THEN Start(in, k) + Len(in.lines[k].style.indent) ELSE Start(in, k)

\* What a line begins with, and ends with.
AfterIndent(l) ==
  CASE l.kind = "comment" -> <<"#">> \o l.name \o <<"=">> \o l.value
    [] l.kind = "ignored" -> l.name
    [] OTHER -> l.name \o l.style.mid \o <<l.kind>> \o l.style.post
                  \o Written(l.value, l.style.joint) \o l.style.trail

\* A line begins with its indentation.
LEMMA IndentFirst ==
  ASSUME NEW l \in Line
  PROVE  LineText(l) = l.style.indent \o AfterIndent(l) /\ AfterIndent(l) \in File
<1>1. /\ l.name \in File /\ l.value \in File /\ l.style.indent \in File /\ l.style.mid \in File
      /\ l.style.post \in File /\ l.style.joint \in File /\ l.style.trail \in File
      /\ l.kind \in {"=", ":", "ignored", "comment"}
  BY Types
<1>2. <<"#">> \in File /\ <<"=">> \in File /\ <<":">> \in File
  BY DEF File, Byte
<1>3. Written(l.value, l.style.joint) \in File
  BY <1>1, WrittenType
<1>4. CASE l.kind = "comment"
  <2>1. AfterIndent(l) = <<"#">> \o l.name \o <<"=">> \o l.value
    BY <1>4 DEF AfterIndent
  <2> QED
    BY <1>1, <1>2, <2>1, CatType DEF LineText, AfterIndent
<1>5. CASE l.kind = "ignored"
  <2>1. AfterIndent(l) = l.name
    BY <1>5 DEF AfterIndent
  <2> QED
    BY <1>1, <2>1, CatType DEF LineText, AfterIndent
<1>6. CASE l.kind \in {"=", ":"}
  <2>1. AfterIndent(l) = l.name \o l.style.mid \o <<l.kind>> \o l.style.post
             \o Written(l.value, l.style.joint) \o l.style.trail
    BY <1>6 DEF AfterIndent
  <2>2. <<l.kind>> \in File
    BY <1>2, <1>6
  <2>3. AfterIndent(l) \in File
    BY <1>1, <1>3, <2>1, <2>2, CatType
  <2> QED
    BY <2>3 DEF LineText, AfterIndent
<1> QED
  BY <1>1, <1>4, <1>5, <1>6

\* Where a line begins and ends in the file, and what is in front of it and behind.
LEMMA LineShape ==
  ASSUME NEW in \in Input, NEW k \in 1 .. Len(in.lines)
  PROVE  LET f    == FileOf(in)
             next == Start(in, k + 1)
             eol  == EolAt(in, k)
         IN  /\ f \in File /\ Start(in, k) \in Nat \ {0} /\ next \in Nat \ {0} /\ eol \in Nat
             /\ Body(in, k) \in Nat
             /\ Start(in, k) <= Body(in, k) /\ Body(in, k) <= eol /\ eol <= next
             /\ next <= Len(f) + 1
             /\ \A q \in Start(in, k) .. Body(in, k) - 1 : whitespace(f[q])
             /\ Lies(f, Body(in, k), AfterIndent(in.lines[k]))
             /\ eol = Body(in, k) + Len(AfterIndent(in.lines[k]))
             /\ \/ eol = next /\ next = Len(f) + 1
                \/ /\ next - 1 \in DOMAIN f /\ f[next - 1] = "\n" /\ eol <= next - 1
                   /\ \A q \in eol .. next - 2 : f[q] = "\r"
<1> DEFINE f == FileOf(in)
           l == in.lines[k]
           a == l.style.indent
           b == AfterIndent(l)
           c == IF k = Len(in.lines) /\ ~in.final THEN <<>> ELSE l.style.eol
           s == Start(in, k)
           n == Start(in, k + 1)
           e == EolAt(in, k)
           bo == Body(in, k)
<1>1. /\ l \in Line /\ k \in DOMAIN in.lines /\ Len(in.lines) \in Nat
      /\ k + 1 \in 1 .. Len(in.lines) + 1
  BY InputTypes
<1>2. /\ a \in File /\ b \in File /\ c \in File /\ LineText(l) = a \o b
      /\ FullText(in, k) = (a \o b) \o c
  <2>1. <<>> \in File
    BY DEF File
  <2> QED
    BY <1>1, <2>1, Types, IndentFirst DEF FullText
<1>3. /\ f \in File /\ s \in Nat \ {0} /\ n \in Nat \ {0}
      /\ n = s + Len(FullText(in, k)) /\ Lies(f, s, FullText(in, k))
  BY <1>1, FileLines
<1>4. e = s + Len(a \o b) /\ bo = s + Len(a)
  BY <1>1, <1>2 DEF EolAt, Body
<1>5. \A q \in DOMAIN a : whitespace(a[q])
  BY <1>1, Types DEF Style
<1>6. (c = <<>> /\ k = Len(in.lines)) \/ c \in NewLine
  <2>1. l.style.eol \in NewLine
    BY <1>1, Types DEF Style
  <2> QED
    BY <2>1
<1>7. Start(in, Len(in.lines) + 1) = Len(f) + 1
  BY FileLines
<1> HIDE DEF f, l, a, b, c, s, n, e, bo
<1>8. /\ a \o b \in File /\ Len(a \o b) = Len(a) + Len(b) /\ Len(a) \in Nat /\ Len(b) \in Nat
      /\ Len(c) \in Nat
      /\ Len((a \o b) \o c) = Len(a \o b) + Len(c)
  BY <1>2 DEF File
<1>9. Lies(f, s, a \o b) /\ Lies(f, s + Len(a \o b), c)
  <2>1. a \o b \in Seq(Byte) /\ c \in Seq(Byte)
    BY <1>2, <1>8 DEF File
  <2>2. s \in Nat /\ Lies(f, s, (a \o b) \o c)
    BY <1>2, <1>3
  <2> QED
    BY <2>1, <2>2, LiesCat, Zenon
<1>10. Lies(f, s, a) /\ Lies(f, s + Len(a), b)
  BY <1>2, <1>3, <1>9, LiesCat DEF File
<1>11. e \in Nat /\ bo \in Nat /\ s <= bo /\ bo <= e /\ e <= n /\ e = bo + Len(b) /\ n = e + Len(c)
  BY <1>2, <1>3, <1>4, <1>8
<1>12. Lies(f, bo, b) /\ Lies(f, e, c)
  BY <1>4, <1>9, <1>10
<1>13. \A q \in s .. bo - 1 : whitespace(f[q])
  <2>1. \A q \in s .. s + Len(a) - 1 : q - s + 1 \in DOMAIN a /\ f[q] = a[q - s + 1]
    BY <1>2, <1>3, <1>10, LiesRange DEF File
  <2>2. bo = s + Len(a)
    BY <1>4
  <2>3. ASSUME NEW q \in s .. s + Len(a) - 1 PROVE whitespace(f[q])
    <3>1. q - s + 1 \in DOMAIN a /\ f[q] = a[q - s + 1]
      BY <2>1, Zenon
    <3> QED
      BY <1>5, <3>1, Zenon
  <2>4. s .. bo - 1 = s .. s + Len(a) - 1
    BY <1>3, <1>8, <1>11, <2>2
  <2> QED
    BY <2>3, <2>4
<1>14. CASE c = <<>> /\ k = Len(in.lines)
  <2>1. e = n /\ n = Len(f) + 1
    BY <1>7, <1>11, <1>14 DEF n
  <2> QED
    BY <1>3, <1>11, <1>12, <1>13, <2>1 DEF f, s, n, e, bo, b, l
<1>15. CASE c = <<"\n">>
  <2>1. n = e + 1 /\ e \in DOMAIN f /\ f[e] = "\n" /\ n - 1 = e
    <3>1. Len(c) = 1 /\ DOMAIN c = 1 .. 1 /\ c[1] = "\n"
      BY <1>15
    <3>2. e + 1 - 1 \in DOMAIN f /\ f[e + 1 - 1] = "\n"
      BY <1>12, <3>1 DEF Lies
    <3> QED
      BY <1>11, <3>1, <3>2
  <2>2. n <= Len(f) + 1
    BY <1>3, <2>1 DEF File
  <2>3. n - 1 \in DOMAIN f /\ f[n - 1] = "\n" /\ e <= n - 1 /\ \A q \in e .. n - 2 : f[q] = "\r"
    BY <1>11, <2>1
  <2> QED
    BY <1>3, <1>11, <1>12, <1>13, <2>2, <2>3 DEF f, s, n, e, bo, b, l
<1>16. CASE c = <<"\r", "\n">>
  <2>1. n = e + 2 /\ e + 1 \in DOMAIN f /\ f[e] = "\r" /\ f[e + 1] = "\n" /\ n - 1 = e + 1
    <3>1. Len(c) = 2 /\ DOMAIN c = 1 .. 2 /\ c[1] = "\r" /\ c[2] = "\n"
      BY <1>16
    <3>2. f[e + 1 - 1] = "\r" /\ e + 2 - 1 \in DOMAIN f /\ f[e + 2 - 1] = "\n"
      BY <1>12, <3>1 DEF Lies
    <3>3. e + 1 - 1 = e /\ e + 2 - 1 = e + 1
      BY <1>11
    <3> QED
      BY <1>11, <3>1, <3>2, <3>3
  <2>2. n <= Len(f) + 1
    BY <1>3, <1>11, <2>1 DEF File
  <2>3. n - 1 \in DOMAIN f /\ f[n - 1] = "\n" /\ e <= n - 1 /\ \A q \in e .. n - 2 : f[q] = "\r"
    <3>1. \A q \in e .. n - 2 : q = e
      BY <1>11, <2>1
    <3> QED
      BY <1>11, <2>1, <3>1
  <2> QED
    BY <1>3, <1>11, <1>12, <1>13, <2>2, <2>3 DEF f, s, n, e, bo, b, l
<1> QED
  BY <1>6, <1>14, <1>15, <1>16 DEF NewLine

\* The parts of a definition: their places.
NameEnd(in, k) == Body(in, k) + Len(in.lines[k].name)
SepAt(in, k)   == NameEnd(in, k) + Len(in.lines[k].style.mid)
PostAt(in, k)  == SepAt(in, k) + 1
TextAt(in, k)  == PostAt(in, k) + Len(in.lines[k].style.post)
TrailAt(in, k) == TextAt(in, k) + Len(Written(in.lines[k].value, in.lines[k].style.joint))

\* Where the parts of a definition are in the file.
LEMMA DefinitionShape ==
  ASSUME NEW in \in Input, NEW k \in 1 .. Len(in.lines), in.lines[k].kind \in {"=", ":"}
  PROVE  LET f == FileOf(in)
             l == in.lines[k]
         IN  /\ NameEnd(in, k) \in Nat /\ SepAt(in, k) \in Nat /\ PostAt(in, k) \in Nat
             /\ TextAt(in, k) \in Nat /\ TrailAt(in, k) \in Nat
             /\ Body(in, k) <= NameEnd(in, k) /\ NameEnd(in, k) <= SepAt(in, k)
             /\ PostAt(in, k) <= TextAt(in, k) /\ TextAt(in, k) <= TrailAt(in, k)
             /\ TrailAt(in, k) <= EolAt(in, k) /\ EolAt(in, k) = TrailAt(in, k) + Len(l.style.trail)
             /\ Lies(f, Body(in, k), l.name) /\ Lies(f, NameEnd(in, k), l.style.mid)
             /\ SepAt(in, k) \in DOMAIN f /\ f[SepAt(in, k)] = l.kind
             /\ Lies(f, PostAt(in, k), l.style.post)
             /\ Lies(f, TextAt(in, k), Written(l.value, l.style.joint))
             /\ Lies(f, TrailAt(in, k), l.style.trail)
<1> DEFINE f == FileOf(in)
           l == in.lines[k]
           t1 == l.name
           t2 == l.style.mid
           t3 == <<l.kind>>
           t4 == l.style.post
           t5 == Written(l.value, l.style.joint)
           t6 == l.style.trail
           p1 == Body(in, k)
           p2 == NameEnd(in, k)
           p3 == SepAt(in, k)
           p4 == PostAt(in, k)
           p5 == TextAt(in, k)
           p6 == TrailAt(in, k)
           e  == EolAt(in, k)
<1>1. l \in Line
  BY InputTypes
<1>2. /\ t1 \in Seq(Byte) /\ t2 \in Seq(Byte) /\ t3 \in Seq(Byte) /\ t4 \in Seq(Byte)
      /\ t5 \in Seq(Byte) /\ t6 \in Seq(Byte)
  <2>1. l.kind \in Byte
    BY DEF Byte
  <2>2. t5 \in File
    BY <1>1, Types, WrittenType
  <2> QED
    BY <1>1, <2>1, <2>2, Types DEF File
<1>3. AfterIndent(l) = ((((t1 \o t2) \o t3) \o t4) \o t5) \o t6
  BY DEF AfterIndent
<1>4. /\ p1 \in Nat /\ Lies(f, p1, ((((t1 \o t2) \o t3) \o t4) \o t5) \o t6)
      /\ e = p1 + Len(((((t1 \o t2) \o t3) \o t4) \o t5) \o t6)
  BY <1>3, LineShape
<1>5. /\ p2 = p1 + Len(t1) /\ p3 = p2 + Len(t2) /\ p4 = p3 + 1 /\ p5 = p4 + Len(t4)
      /\ p6 = p5 + Len(t5)
  BY DEF NameEnd, SepAt, PostAt, TextAt, TrailAt
<1>6. t3[1] = l.kind /\ Len(t3) = 1 /\ 1 \in DOMAIN t3
  OBVIOUS
<1> HIDE DEF f, l, t1, t2, t3, t4, t5, t6, p1, p2, p3, p4, p5, p6, e
<1> DEFINE u2 == t1 \o t2
           u3 == u2 \o t3
           u4 == u3 \o t4
           u5 == u4 \o t5
<1>7. /\ Len(t1) \in Nat /\ Len(t2) \in Nat /\ Len(t3) \in Nat /\ Len(t4) \in Nat /\ Len(t5) \in Nat
      /\ Len(t6) \in Nat
  BY <1>2
<1>8. u2 \in Seq(Byte) /\ Len(u2) = Len(t1) + Len(t2)
  BY <1>2
<1> HIDE DEF u2
<1>9. u3 \in Seq(Byte) /\ Len(u3) = Len(u2) + Len(t3)
  <2>1. u2 \in Seq(Byte) /\ t3 \in Seq(Byte)
    BY <1>2, <1>8
  <2> QED
    BY <2>1, CatBytes
<1> HIDE DEF u3
<1>10. u4 \in Seq(Byte) /\ Len(u4) = Len(u3) + Len(t4)
  <2>1. u3 \in Seq(Byte) /\ t4 \in Seq(Byte)
    BY <1>2, <1>9
  <2> QED
    BY <2>1, CatBytes
<1> HIDE DEF u4
<1>11. u5 \in Seq(Byte) /\ Len(u5) = Len(u4) + Len(t5)
  <2>1. u4 \in Seq(Byte) /\ t5 \in Seq(Byte)
    BY <1>2, <1>10
  <2> QED
    BY <2>1, CatBytes
<1> HIDE DEF u5
<1>12. Lies(f, p1, u5 \o t6) /\ e = p1 + Len(u5 \o t6) /\ Len(u5 \o t6) = Len(u5) + Len(t6)
  BY <1>2, <1>4, <1>11 DEF u2, u3, u4, u5
<1>13. Lies(f, p1, u5) /\ Lies(f, p1 + Len(u5), t6)
  BY <1>2, <1>4, <1>11, <1>12, LiesCat
<1>14. Lies(f, p1, u4) /\ Lies(f, p1 + Len(u4), t5)
  BY <1>2, <1>4, <1>10, <1>13, LiesCat DEF u5
<1>15. Lies(f, p1, u3) /\ Lies(f, p1 + Len(u3), t4)
  BY <1>2, <1>4, <1>9, <1>14, LiesCat DEF u4
<1>16. Lies(f, p1, u2) /\ Lies(f, p1 + Len(u2), t3)
  BY <1>2, <1>4, <1>8, <1>15, LiesCat DEF u3
<1>17. Lies(f, p1, t1) /\ Lies(f, p1 + Len(t1), t2)
  BY <1>2, <1>4, <1>16, LiesCat DEF u2
<1>18. /\ p2 = p1 + Len(t1) /\ p3 = p1 + Len(u2) /\ p4 = p1 + Len(u3) /\ p5 = p1 + Len(u4)
       /\ p6 = p1 + Len(u5) /\ e = p6 + Len(t6)
       /\ p2 \in Nat /\ p3 \in Nat /\ p4 \in Nat /\ p5 \in Nat /\ p6 \in Nat
       /\ p1 <= p2 /\ p2 <= p3 /\ p4 <= p5 /\ p5 <= p6 /\ p6 <= e
  <2>1. e = p1 + (Len(u5) + Len(t6)) /\ Len(t3) = 1
    BY <1>6, <1>12
  <2>2. /\ Len(u2) = Len(t1) + Len(t2) /\ Len(u3) = Len(u2) + 1 /\ Len(u4) = Len(u3) + Len(t4)
        /\ Len(u5) = Len(u4) + Len(t5)
    BY <1>8, <1>9, <1>10, <1>11, <2>1
  <2> DEFINE x1 == Len(t1)  x2 == Len(t2)  x4 == Len(t4)  x5 == Len(t5)  x6 == Len(t6)
             y2 == Len(u2)  y3 == Len(u3)  y4 == Len(u4)  y5 == Len(u5)
  <2>3. /\ x1 \in Nat /\ x2 \in Nat /\ x4 \in Nat /\ x5 \in Nat /\ x6 \in Nat /\ p1 \in Nat
        /\ e = p1 + (y5 + x6) /\ y2 = x1 + x2 /\ y3 = y2 + 1 /\ y4 = y3 + x4 /\ y5 = y4 + x5
        /\ p2 = p1 + x1 /\ p3 = p2 + x2 /\ p4 = p3 + 1 /\ p5 = p4 + x4 /\ p6 = p5 + x5
    BY <1>4, <1>5, <1>7, <2>1, <2>2
  <2> HIDE DEF x1, x2, x4, x5, x6, y2, y3, y4, y5
  <2>4. /\ p2 = p1 + x1 /\ p3 = p1 + y2 /\ p4 = p1 + y3 /\ p5 = p1 + y4
        /\ p6 = p1 + y5 /\ e = p6 + x6
        /\ p2 \in Nat /\ p3 \in Nat /\ p4 \in Nat /\ p5 \in Nat /\ p6 \in Nat
        /\ p1 <= p2 /\ p2 <= p3 /\ p4 <= p5 /\ p5 <= p6 /\ p6 <= e
    BY <2>3
  <2> QED
    BY <2>4 DEF x1, x2, x4, x5, x6, y2, y3, y4, y5
<1>19. p3 \in DOMAIN f /\ f[p3] = l.kind
  <2>1. p3 + 1 - 1 \in DOMAIN f /\ f[p3 + 1 - 1] = l.kind
    BY <1>6, <1>16, <1>18 DEF Lies
  <2>2. p3 + 1 - 1 = p3
    BY <1>18
  <2> QED
    BY <2>1, <2>2
<1> QED
  BY <1>13, <1>14, <1>15, <1>16, <1>17, <1>18, <1>19
  DEF f, l, t1, t2, t4, t5, t6, p1, p2, p3, p4, p5, p6, e

\* A text that lies in a file is the part of it from there on.
LEMMA SubSeqIs ==
  ASSUME NEW f \in Seq(Byte), NEW a \in Seq(Byte), NEW b \in Nat \ {0}, NEW n \in Nat,
         n = b + Len(a), \A q \in b .. n - 1 : q \in DOMAIN f /\ f[q] = a[q - b + 1]
  PROVE  SubSeq(f, b, n - 1) = a
<1> DEFINE x == SubSeq(f, b, n - 1)
           c == Len(a)
<1>1. c \in Nat /\ DOMAIN a = 1 .. c /\ n - 1 \in Int /\ b \in Int /\ n = b + c
  OBVIOUS
<1>2. \A q \in b .. n - 1 : f[q] \in Byte
  OBVIOUS
<1>3. /\ x \in Seq(Byte) /\ Len(x) = (IF b <= n - 1 THEN (n - 1) - b + 1 ELSE 0)
      /\ \A i \in 1 .. (n - 1) - b + 1 : x[i] = f[b + i - 1]
  BY <1>1, <1>2, SubSeqProperties
<1> HIDE DEF x, c
<1>4. Len(x) = c /\ (n - 1) - b + 1 = c
  BY <1>1, <1>3
<1>5. ASSUME NEW i \in 1 .. c PROVE x[i] = a[i]
  <2>1. b + i - 1 \in b .. n - 1 /\ (b + i - 1) - b + 1 = i
    BY <1>1
  <2>2. f[b + i - 1] = a[i]
    BY <2>1
  <2> QED
    BY <1>3, <1>4, <2>2
<1>6. Len(a) = c
  BY DEF c
<1>7. x = a
  <2>1. x \in Seq(Byte) /\ Len(x) = Len(a) /\ \A i \in 1 .. Len(x) : x[i] = a[i]
    BY <1>3, <1>4, <1>5, <1>6
  <2> QED
    BY <2>1, SeqEqual
<1> QED
  BY <1>7 DEF x

\* The line feed that ends a line, or the end of the file.
StopAt(in, k) == IF EolAt(in, k) = Start(in, k + 1) THEN EolAt(in, k) ELSE Start(in, k + 1) - 1

\* Where the line end of a line is.
LEMMA StopShape ==
  ASSUME NEW in \in Input, NEW k \in 1 .. Len(in.lines)
  PROVE  LET f    == FileOf(in)
             stop == StopAt(in, k)
         IN  /\ stop \in Nat /\ EolAt(in, k) \in Nat /\ Body(in, k) \in Nat \ {0}
             /\ Body(in, k) <= EolAt(in, k) /\ EolAt(in, k) <= stop
             /\ \A q \in Body(in, k) .. stop - 1 : q \in DOMAIN f
             /\ \A q \in EolAt(in, k) .. stop - 1 : f[q] = "\r"
             /\ \/ stop = Len(f) + 1 /\ Start(in, k + 1) = stop /\ stop \notin DOMAIN f
                \/ stop \in DOMAIN f /\ f[stop] = "\n" /\ Start(in, k + 1) = stop + 1
<1> DEFINE f == FileOf(in)
           e == EolAt(in, k)
           n == Start(in, k + 1)
           b == Body(in, k)
           s == StopAt(in, k)
<1>1. /\ f \in File /\ Start(in, k) \in Nat \ {0} /\ n \in Nat \ {0} /\ e \in Nat /\ b \in Nat
      /\ Start(in, k) <= b /\ b <= e /\ e <= n /\ n <= Len(f) + 1
      /\ \/ e = n /\ n = Len(f) + 1
         \/ /\ n - 1 \in DOMAIN f /\ f[n - 1] = "\n" /\ e <= n - 1
            /\ \A q \in e .. n - 2 : f[q] = "\r"
  BY LineShape, Zenon
<1>2. s = IF e = n THEN e ELSE n - 1
  BY DEF StopAt
<1> HIDE DEF f, e, n, b, s
<1>3. DOMAIN f = 1 .. Len(f) /\ Len(f) \in Nat /\ b \in Nat \ {0}
  BY <1>1 DEF File
<1>4. CASE e = n
  <2>1. s = e /\ n = Len(f) + 1 /\ s \notin DOMAIN f
    BY <1>1, <1>2, <1>3, <1>4
  <2>2. \A q \in e .. s - 1 : FALSE
    BY <1>1, <2>1
  <2>3. \A q \in b .. s - 1 : q \in DOMAIN f
    BY <1>1, <1>3, <2>1
  <2> QED
    BY <1>1, <1>3, <1>4, <2>1, <2>2, <2>3 DEF f, e, n, b, s
<1>5. CASE e # n
  <2>1. s = n - 1 /\ n = s + 1 /\ s \in DOMAIN f /\ f[s] = "\n" /\ e <= s /\ s \in Nat
    BY <1>1, <1>2, <1>3, <1>5
  <2>2. \A q \in e .. s - 1 : f[q] = "\r"
    BY <1>1, <1>3, <1>5, <2>1
  <2>3. \A q \in b .. s - 1 : q \in DOMAIN f
    BY <1>1, <1>3, <2>1
  <2> QED
    BY <1>1, <1>3, <2>1, <2>2, <2>3 DEF f, e, n, b, s
<1> QED
  BY <1>4, <1>5

\* From anywhere in a line that ends there, the next line is the one after it.
LEMMA NextLineIs ==
  ASSUME input \in Input, src = FileOf(input), NEW k \in 1 .. Len(input.lines),
         NEW i \in Nat, i <= StopAt(input, k),
         \A q \in i .. StopAt(input, k) - 1 : src[q] # "\n"
  PROVE  NextLine(i) = Start(input, k + 1)
<1> DEFINE s == StopAt(input, k)
           n == Start(input, k + 1)
<1>1. /\ s \in Nat
      /\ \/ s = Len(src) + 1 /\ n = s /\ s \notin DOMAIN src
         \/ s \in DOMAIN src /\ src[s] = "\n" /\ n = s + 1
  BY StopShape, Zenon
<1>2. DOMAIN src = 1 .. Len(src) /\ Len(src) \in Nat
  BY FileLines DEF File
<1>3. i <= s /\ \A q \in i .. s - 1 : src[q] # "\n"
  OBVIOUS
<1> HIDE DEF s, n
<1>4. CASE s = Len(src) + 1 /\ n = s
  <2>1. ~ \E q \in i .. Len(src) : src[q] = "\n"
    BY <1>1, <1>2, <1>3, <1>4
  <2> QED
    BY <1>4, <2>1 DEF NextLine, n
<1>5. CASE s \in DOMAIN src /\ src[s] = "\n" /\ n = s + 1
  <2>1. s \in i .. Len(src)
    BY <1>2, <1>3, <1>5
  <2> DEFINE First(q) == q \in i .. Len(src) /\ src[q] = "\n" /\ \A j \in i .. q - 1 : src[j] # "\n"
             c == CHOOSE q \in i .. Len(src) : src[q] = "\n" /\ \A j \in i .. q - 1 : src[j] # "\n"
  <2>2. First(s)
    BY <1>3, <1>5, <2>1
  <2>3. First(c)
    BY <2>2
  <2> HIDE DEF c
  <2>4. c = s
    <3>1. ~(c < s)
      BY <1>1, <1>3, <2>3
    <3>2. ~(s < c)
      BY <1>1, <1>5, <2>1, <2>3
    <3> QED
      BY <1>1, <2>3, <3>1, <3>2
  <2>5. NextLine(i) = 1 + c
    BY <1>5, <2>1 DEF NextLine, c
  <2> QED
    BY <1>1, <1>5, <2>4, <2>5 DEF n
<1> QED
  BY <1>1, <1>4, <1>5

\* A comment begins with "#" and is all of its line.
LEMMA CommentShape ==
  ASSUME NEW in \in Input, NEW k \in 1 .. Len(in.lines), in.lines[k].kind = "comment"
  PROVE  LET f == FileOf(in)
         IN  /\ Body(in, k) < StopAt(in, k)
             /\ f[Body(in, k)] = "#"
             /\ \A q \in Body(in, k) .. StopAt(in, k) - 1 : f[q] # "\n"
<1> DEFINE f == FileOf(in)
           l == in.lines[k]
           b == Body(in, k)
           e == EolAt(in, k)
           s == StopAt(in, k)
           a == <<"#">> \o l.name \o <<"=">> \o l.value
<1>1. l \in Line /\ l.name \in File /\ l.value \in File
  BY InputTypes, Types
<1>2. ~Holds(l.name, {"\n"}) /\ ~Holds(l.value, {"\n"})
  BY <1>1 DEF Line
<1>3. AfterIndent(l) = a
  BY DEF AfterIndent
<1>4. b \in Nat /\ Lies(f, b, a) /\ e = b + Len(a) /\ e \in Nat
  BY <1>3, LineShape, Zenon
<1>5. s \in Nat /\ e <= s /\ \A q \in e .. s - 1 : f[q] = "\r"
  BY StopShape, Zenon
<1>6. /\ a \in Seq(Byte) /\ Len(a) \in Nat /\ Len(a) >= 1 /\ a[1] = "#"
      /\ \A i \in DOMAIN a : a[i] # "\n"
  <2> DEFINE u == l.name
             v == l.value
             u1 == <<"#">> \o u
             u2 == u1 \o <<"=">>
  <2>1. u \in Seq(Byte) /\ v \in Seq(Byte) /\ (\A i \in DOMAIN u : u[i] # "\n")
        /\ (\A i \in DOMAIN v : v[i] # "\n")
    BY <1>1, <1>2 DEF Holds, File
  <2>0. "#" \in Byte /\ "=" \in Byte
    BY DEF Byte
  <2> HIDE DEF u, v
  <2>2. u1 \in Seq(Byte) /\ u1[1] = "#" /\ Len(u1) >= 1 /\ (\A i \in DOMAIN u1 : u1[i] # "\n")
    BY <2>0, <2>1
  <2> HIDE DEF u1
  <2>3. u2 \in Seq(Byte) /\ u2[1] = "#" /\ Len(u2) >= 1 /\ (\A i \in DOMAIN u2 : u2[i] # "\n")
    BY <2>0, <2>2
  <2>5. a = u2 \o v
    BY DEF u1, u, v
  <2> HIDE DEF u2
  <2>4. /\ u2 \o v \in Seq(Byte) /\ (u2 \o v)[1] = "#" /\ Len(u2 \o v) >= 1
        /\ (\A i \in DOMAIN (u2 \o v) : (u2 \o v)[i] # "\n")
    BY <2>1, <2>3
  <2> HIDE DEF a
  <2> QED
    BY <2>4, <2>5
<1> HIDE DEF f, l, a, b, e, s
<1>7. \A q \in b .. e - 1 : f[q] = a[q - b + 1] /\ q - b + 1 \in DOMAIN a
  BY <1>4, <1>6, LiesRange
<1>8. f[b] = "#" /\ b < s
  <2>1. b \in b .. e - 1 /\ b - b + 1 = 1 /\ b < s
    BY <1>4, <1>5, <1>6
  <2> QED
    BY <1>6, <1>7, <2>1
<1>9. \A q \in b .. s - 1 : f[q] # "\n"
  <2> SUFFICES ASSUME NEW q \in b .. s - 1 PROVE f[q] # "\n"
    OBVIOUS
  <2>1. CASE q < e
    <3>1. q \in b .. e - 1
      BY <1>4, <1>5, <2>1
    <3>2. a[q - b + 1] # "\n"
      BY <1>6, <1>7, <3>1
    <3> QED
      BY <1>7, <3>1, <3>2
  <2>2. CASE q >= e
    <3>1. q \in e .. s - 1
      BY <1>4, <1>5, <2>2
    <3> QED
      BY <1>5, <3>1
  <2> QED
    BY <1>4, <1>5, <2>1, <2>2
<1> QED
  BY <1>8, <1>9 DEF f, b, s

\* A line that is ignored has no separator in it.
LEMMA IgnoredShape ==
  ASSUME NEW in \in Input, NEW k \in 1 .. Len(in.lines), in.lines[k].kind = "ignored"
  PROVE  LET f == FileOf(in)
         IN  /\ Body(in, k) < StopAt(in, k)
             /\ ~whitespace(f[Body(in, k)]) /\ f[Body(in, k)] # "#"
             /\ \A q \in Body(in, k) .. StopAt(in, k) - 1 : f[q] \notin Separator
<1> DEFINE f == FileOf(in)
           l == in.lines[k]
           b == Body(in, k)
           e == EolAt(in, k)
           s == StopAt(in, k)
           a == l.name
<1>1. l \in Line /\ a \in File
  BY InputTypes, Types
<1>2. NameText(a)
  BY <1>1 DEF Line
<1>3. AfterIndent(l) = a
  BY DEF AfterIndent
<1>4. b \in Nat /\ Lies(f, b, a) /\ e = b + Len(a) /\ e \in Nat
  BY <1>3, LineShape, Zenon
<1>5. s \in Nat /\ e <= s /\ \A q \in e .. s - 1 : f[q] = "\r"
  BY StopShape, Zenon
<1>6. /\ a \in Seq(Byte) /\ Len(a) \in Nat /\ Len(a) >= 1 /\ ~whitespace(a[1]) /\ a[1] # "#"
      /\ \A i \in DOMAIN a : a[i] \notin Separator
  BY <1>1, <1>2 DEF NameText, Holds, File, Separator
<1> HIDE DEF f, l, a, b, e, s
<1>7. \A q \in b .. e - 1 : f[q] = a[q - b + 1] /\ q - b + 1 \in DOMAIN a
  BY <1>4, <1>6, LiesRange
<1>8. b < s /\ ~whitespace(f[b]) /\ f[b] # "#"
  <2>1. b \in b .. e - 1 /\ b - b + 1 = 1 /\ b < s
    BY <1>4, <1>5, <1>6
  <2>2. f[b] = a[1]
    BY <1>7, <2>1
  <2> QED
    BY <1>6, <2>1, <2>2
<1>9. \A q \in b .. s - 1 : f[q] \notin Separator
  <2> SUFFICES ASSUME NEW q \in b .. s - 1 PROVE f[q] \notin Separator
    OBVIOUS
  <2>1. CASE q < e
    <3>1. q \in b .. e - 1
      BY <1>4, <1>5, <2>1
    <3>2. a[q - b + 1] \notin Separator
      BY <1>6, <1>7, <3>1
    <3> QED
      BY <1>7, <3>1, <3>2
  <2>2. CASE q >= e
    <3>1. q \in e .. s - 1
      BY <1>4, <1>5, <2>2
    <3> QED
      BY <1>5, <3>1 DEF Separator
  <2> QED
    BY <1>4, <1>5, <2>1, <2>2
<1> QED
  BY <1>8, <1>9 DEF f, b, s

\* A name is followed by white space and the separator, and there is none before.
LEMMA NameShape ==
  ASSUME NEW in \in Input, NEW k \in 1 .. Len(in.lines), in.lines[k].kind \in {"=", ":"}
  PROVE  LET f == FileOf(in)
             b == Body(in, k)
             n == NameEnd(in, k)
             s == SepAt(in, k)
         IN  /\ b \in Nat \ {0} /\ n \in Nat /\ s \in Nat /\ b < n /\ n <= s
             /\ s \in DOMAIN f /\ f[s] = in.lines[k].kind
             /\ ~whitespace(f[b]) /\ f[b] # "#" /\ ~whitespace(f[n - 1])
             /\ \A q \in b .. s - 1 : f[q] \notin Separator
             /\ \A q \in n .. s - 1 : whitespace(f[q])
             /\ SubSeq(f, b, n - 1) = in.lines[k].name
<1> DEFINE f == FileOf(in)
           l == in.lines[k]
           a == l.name
           m == l.style.mid
           b == Body(in, k)
           n == NameEnd(in, k)
           s == SepAt(in, k)
<1>1. l \in Line /\ a \in Seq(Byte) /\ m \in Seq(Byte)
  BY InputTypes, Types DEF File
<1>2. NameText(a) /\ ~whitespace(a[Len(a)])
  BY <1>1 DEF Line
<1>3. \A i \in DOMAIN m : m[i] \in Blank
  BY <1>1, Types DEF Style
<1>4. /\ b \in Nat \ {0} /\ n \in Nat /\ s \in Nat /\ b <= n /\ n <= s
      /\ Lies(f, b, a) /\ Lies(f, n, m) /\ s \in DOMAIN f /\ f[s] = l.kind
  BY StopShape, DefinitionShape, Zenon
<1>5. n = b + Len(a) /\ s = n + Len(m)
  BY DEF NameEnd, SepAt
<1>6. f \in File
  BY FileLines
<1> HIDE DEF f, l, a, m, b, n, s
<1>7. /\ Len(a) \in Nat /\ Len(a) >= 1 /\ ~whitespace(a[1]) /\ a[1] # "#"
      /\ \A i \in DOMAIN a : a[i] \notin Separator
  BY <1>1, <1>2 DEF NameText, Holds, Separator
<1>8. \A q \in b .. n - 1 : q - b + 1 \in DOMAIN a /\ q \in DOMAIN f /\ f[q] = a[q - b + 1]
  BY <1>1, <1>4, <1>5, LiesRange
<1>9. \A q \in n .. s - 1 : q - n + 1 \in DOMAIN m /\ f[q] = m[q - n + 1]
  <2>1. m \in Seq(Byte) /\ n \in Nat /\ Lies(f, n, m) /\ s = n + Len(m)
    BY <1>1, <1>4, <1>5
  <2>2. \A q \in n .. n + Len(m) - 1 : q - n + 1 \in DOMAIN m /\ f[q] = m[q - n + 1]
    BY <2>1, LiesRange
  <2> QED
    BY <2>1, <2>2
<1>10. \A q \in n .. s - 1 : f[q] \in Blank
  BY <1>3, <1>9
<1>11. b < n /\ ~whitespace(f[b]) /\ f[b] # "#" /\ ~whitespace(f[n - 1])
  <2> DEFINE c == Len(a)
  <2>0. b \in Nat /\ n = b + c /\ c \in Nat /\ c >= 1
    BY <1>4, <1>5, <1>7
  <2> HIDE DEF c
  <2>3. b \in b .. n - 1 /\ n - 1 \in b .. n - 1 /\ b - b + 1 = 1 /\ (n - 1) - b + 1 = c /\ b < n
    BY <2>0
  <2>1. b \in b .. n - 1 /\ n - 1 \in b .. n - 1 /\ b - b + 1 = 1 /\ (n - 1) - b + 1 = Len(a)
        /\ b < n
    BY <2>3 DEF c
  <2>2. f[b] = a[1] /\ f[n - 1] = a[Len(a)]
    BY <1>8, <2>1
  <2> QED
    BY <1>2, <1>4, <1>7, <2>1, <2>2
<1>12. \A q \in b .. s - 1 : f[q] \notin Separator
  <2> SUFFICES ASSUME NEW q \in b .. s - 1 PROVE f[q] \notin Separator
    OBVIOUS
  <2>1. CASE q < n
    <3>1. q \in b .. n - 1
      BY <1>4, <2>1
    <3> QED
      BY <1>7, <1>8, <3>1
  <2>2. CASE q >= n
    <3>1. q \in n .. s - 1
      BY <1>4, <2>2
    <3> QED
      BY <1>10, <3>1 DEF Separator, Blank
  <2> QED
    BY <1>4, <2>1, <2>2
<1>13. SubSeq(f, b, n - 1) = a
  <2>1. a \in Seq(Byte) /\ f \in Seq(Byte) /\ b \in Nat \ {0} /\ n \in Nat /\ n = b + Len(a)
        /\ \A q \in b .. n - 1 : q \in DOMAIN f /\ f[q] = a[q - b + 1]
    BY <1>1, <1>4, <1>5, <1>6, <1>8 DEF File
  <2> QED
    BY <2>1, SubSeqIs
<1>14. \A q \in n .. s - 1 : whitespace(f[q])
  BY <1>10 DEF Blank, whitespace
<1> QED
  BY <1>4, <1>11, <1>12, <1>13, <1>14 DEF f, l, a, b, n, s

-----------------------------------------------------------------------------
(***************************************************************************)
(* Line ends that are escaped, before a value and in it.                   *)
(***************************************************************************)
LEMMA Joints == Joint = {<<"\\", "\n">>, <<"\\", "\r", "\n">>}
<1>1. Joint = {<<"\\">> \o <<"\n">>, <<"\\">> \o <<"\r", "\n">>}
  BY DEF Joint, NewLine
<1> DEFINE a == <<"\\">>
           b == <<"\n">>
           c == <<"\r", "\n">>
<1>3. /\ a \in Seq(Byte) /\ b \in Seq(Byte) /\ c \in Seq(Byte)
      /\ Len(a) = 1 /\ Len(b) = 1 /\ Len(c) = 2
      /\ DOMAIN a = 1 .. 1 /\ DOMAIN b = 1 .. 1 /\ DOMAIN c = 1 .. 2
      /\ a[1] = "\\" /\ b[1] = "\n" /\ c[1] = "\r" /\ c[2] = "\n"
  BY DEF Byte
<1> HIDE DEF a, b, c
<1>4. a \o b = <<"\\", "\n">>
  <2> DEFINE x == a \o b
  <2>1. /\ x \in Seq(Byte) /\ Len(x) = 2 /\ x[1] = a[1] /\ x[1 + 1] = b[1]
    BY <1>3, CatBytes
  <2> HIDE DEF x
  <2>2. x = <<"\\", "\n">>
    BY <1>3, <2>1
  <2> QED
    BY <2>2 DEF x
<1>5. a \o c = <<"\\", "\r", "\n">>
  <2> DEFINE x == a \o c
  <2>1. /\ x \in Seq(Byte) /\ Len(x) = 3 /\ x[1] = a[1] /\ x[1 + 1] = c[1] /\ x[1 + 2] = c[2]
    BY <1>3, CatBytes
  <2> HIDE DEF x
  <2>2. x = <<"\\", "\r", "\n">>
    BY <1>3, <2>1
  <2> QED
    BY <2>2 DEF x
<1>2. <<"\\">> \o <<"\n">> = <<"\\", "\n">> /\ <<"\\">> \o <<"\r", "\n">> = <<"\\", "\r", "\n">>
  BY <1>4, <1>5 DEF a, b, c
<1> QED
  BY <1>1, <1>2

\* The bytes of a line end that is escaped.
LEMMA JointBytes ==
  ASSUME NEW s \in Seq(Byte), NEW i \in 1 .. Len(s), NEW n \in {1, 2}, i + n \in DOMAIN s,
         SubSeq(s, i, i + n) \in Joint
  PROVE  /\ s[i] = "\\"
         /\ n = 1 => s[i + 1] = "\n"
         /\ n = 2 => s[i + 1] = "\r" /\ s[i + 2] = "\n"
<1> DEFINE x == SubSeq(s, i, i + n)
<1>1. i \in Int /\ i + n \in Int /\ i <= i + n /\ (i + n) - i + 1 = n + 1
      /\ \A q \in i .. i + n : s[q] \in Byte
  OBVIOUS
<1>2. Len(x) = n + 1 /\ \A q \in 1 .. n + 1 : x[q] = s[i + q - 1]
  BY <1>1, SubSeqProperties
<1>3. x \in {<<"\\", "\n">>, <<"\\", "\r", "\n">>}
  BY Joints
<1> HIDE DEF x
<1>4. CASE x = <<"\\", "\n">>
  <2>1. n = 1
    BY <1>2, <1>4
  <2>2. x[1] = s[i + 1 - 1] /\ x[2] = s[i + 2 - 1] /\ i + 1 - 1 = i /\ i + 2 - 1 = i + 1
    BY <1>2, <2>1
  <2> QED
    BY <1>4, <2>1, <2>2
<1>5. CASE x = <<"\\", "\r", "\n">>
  <2>1. n = 2
    BY <1>2, <1>5
  <2>2. x[1] = s[i + 1 - 1] /\ x[2] = s[i + 2 - 1] /\ x[3] = s[i + 3 - 1]
        /\ i + 1 - 1 = i /\ i + 2 - 1 = i + 1 /\ i + 3 - 1 = i + 2
    BY <1>2, <2>1
  <2> QED
    BY <1>5, <2>1, <2>2
<1> QED
  BY <1>3, <1>4, <1>5

\* Position i is not in the middle of an escape.
Clear(s, i) ==
  /\ i \in 1 .. Len(s) + 1
  /\ i # 1 => s[i-1] # "\\"
  /\ i # Len(s) + 1 => s[i] # "\n"

\* What may precede a value is skipped step by step: blanks, and line ends that are escaped.
LEMMA SkippedSteps ==
  ASSUME NEW s \in Seq(Byte), Skipped(s)
  PROVE  /\ Clear(s, 1)
         /\ \A i \in 1 .. Len(s) : Clear(s, i) =>
              \/ s[i] \in Blank /\ Clear(s, i + 1)
              \/ s[i] = "\\" /\ s[i + 1] = "\n" /\ Clear(s, i + 2)
              \/ s[i] = "\\" /\ s[i + 1] = "\r" /\ s[i + 2] = "\n" /\ Clear(s, i + 3)
<1> DEFINE L == Len(s)
<1>1. L \in Nat /\ DOMAIN s = 1 .. L
  OBVIOUS
<1>2. ASSUME NEW i \in 1 .. L
      PROVE  \/ s[i] \in Blank
             \/ /\ s[i] = "\\"
                /\ \/ i + 1 <= L /\ s[i + 1] = "\n"
                   \/ i + 2 <= L /\ s[i + 1] = "\r" /\ s[i + 2] = "\n"
             \/ /\ s[i] = "\n"
                /\ \/ i > 1 /\ s[i - 1] = "\\"
                   \/ i > 2 /\ s[i - 2] = "\\" /\ s[i - 1] = "\r"
  <2>1. CASE s[i] \in Blank
    BY <2>1
  <2>2. CASE s[i] = "\\" /\ \E k \in {1, 2} : i + k \in DOMAIN s /\ SubSeq(s, i, i + k) \in Joint
    <3>1. PICK n \in {1, 2} : i + n \in DOMAIN s /\ SubSeq(s, i, i + n) \in Joint
      BY <2>2
    <3>2. /\ n = 1 => s[i + 1] = "\n"
          /\ n = 2 => s[i + 1] = "\r" /\ s[i + 2] = "\n"
      BY <3>1, JointBytes
    <3> QED
      BY <1>1, <2>2, <3>1, <3>2
  <2>3. CASE s[i] = "\n" /\ \E k \in {1, 2} : i - k \in DOMAIN s /\ SubSeq(s, i - k, i) \in Joint
    <3>1. PICK n \in {1, 2} : i - n \in DOMAIN s /\ SubSeq(s, i - n, i) \in Joint
      BY <2>3
    <3> DEFINE h == i - n
    <3>2. h \in 1 .. L /\ h + n = i /\ h + n \in DOMAIN s
      BY <1>1, <3>1
    <3>3. SubSeq(s, h, h + n) \in Joint
      BY <3>1, <3>2
    <3> HIDE DEF h
    <3>4. s[h] = "\\" /\ (n = 2 => s[h + 1] = "\r")
      BY <3>2, <3>3, JointBytes
    <3>5. CASE n = 1
      BY <1>1, <2>3, <3>2, <3>4, <3>5
    <3>6. CASE n = 2
      <4>1. h = i - 2 /\ h + 1 = i - 1 /\ i > 2
        BY <1>1, <3>2, <3>6
      <4> QED
        BY <2>3, <3>4, <3>6, <4>1
    <3> QED
      BY <3>5, <3>6
  <2> QED
    BY <1>1, <2>1, <2>2, <2>3 DEF Skipped
<1>3. Clear(s, 1)
  <2>1. CASE L = 0
    BY <1>1, <2>1 DEF Clear
  <2>2. CASE L # 0
    <3>1. 1 \in 1 .. L
      BY <1>1, <2>2
    <3>2. ASSUME NEW i \in 1 .. L, i = 1 PROVE s[i] # "\n"
      <4>1. ~(i > 1) /\ ~(i > 2)
        BY <3>2
      <4>2. s[i] \in Blank \/ s[i] = "\\"
        BY <1>2, <4>1, Zenon
      <4> QED
        BY <4>2 DEF Blank
    <3> QED
      BY <1>1, <3>1, <3>2 DEF Clear
  <2> QED
    BY <2>1, <2>2
\* What may be a line feed at i.
<1>4. ASSUME NEW i \in 1 .. L + 1, i # L + 1 => s[i] # "\n", i # 1 => s[i-1] # "\\"
      PROVE  Clear(s, i)
  BY <1>1, <1>4 DEF Clear
<1>5. ASSUME NEW i \in 1 .. L, Clear(s, i)
      PROVE  \/ s[i] \in Blank /\ Clear(s, i + 1)
             \/ s[i] = "\\" /\ s[i + 1] = "\n" /\ Clear(s, i + 2)
             \/ s[i] = "\\" /\ s[i + 1] = "\r" /\ s[i + 2] = "\n" /\ Clear(s, i + 3)
  <2>1. s[i] # "\n" /\ (i # 1 => s[i-1] # "\\")
    BY <1>1, <1>5 DEF Clear
  <2>2. CASE s[i] \in Blank
    <3>1. i + 1 \in 1 .. L + 1 /\ (i + 1) - 1 = i /\ (i + 1) - 2 = i - 1
      BY <1>1
    <3>2. s[i] # "\\"
      BY <2>2 DEF Blank
    <3>3. i + 1 # L + 1 => s[i + 1] # "\n"
      <4> SUFFICES ASSUME i + 1 # L + 1, s[i + 1] = "\n" PROVE FALSE
        OBVIOUS
      <4>1. i + 1 \in 1 .. L
        BY <3>1
      <4>2. i + 1 > 2 /\ s[i - 1] = "\\"
        BY <1>2, <3>1, <3>2, <4>1 DEF Blank
      <4> QED
        BY <1>1, <2>1, <4>2
    <3>4. Clear(s, i + 1)
      BY <1>4, <3>1, <3>2, <3>3
    <3> QED
      BY <2>2, <3>4
  <2>3. CASE s[i] = "\\" /\ i + 1 <= L /\ s[i + 1] = "\n"
    <3>1. i + 2 \in 1 .. L + 1 /\ (i + 2) - 1 = i + 1 /\ (i + 2) - 2 = i
      BY <1>1, <2>3
    <3>2. i + 2 # L + 1 => s[i + 2] # "\n"
      <4> SUFFICES ASSUME i + 2 # L + 1, s[i + 2] = "\n" PROVE FALSE
        OBVIOUS
      <4>1. i + 2 \in 1 .. L
        BY <3>1
      <4> QED
        BY <1>2, <2>3, <3>1, <4>1 DEF Blank
    <3>3. Clear(s, i + 2)
      BY <1>4, <2>3, <3>1, <3>2
    <3> QED
      BY <2>3, <3>3
  <2>4. CASE s[i] = "\\" /\ i + 2 <= L /\ s[i + 1] = "\r" /\ s[i + 2] = "\n"
    <3>1. i + 3 \in 1 .. L + 1 /\ (i + 3) - 1 = i + 2 /\ (i + 3) - 2 = i + 1
      BY <1>1, <2>4
    <3>2. i + 3 # L + 1 => s[i + 3] # "\n"
      <4> SUFFICES ASSUME i + 3 # L + 1, s[i + 3] = "\n" PROVE FALSE
        OBVIOUS
      <4>1. i + 3 \in 1 .. L
        BY <3>1
      <4> QED
        BY <1>2, <2>4, <3>1, <4>1 DEF Blank
    <3>3. Clear(s, i + 3)
      BY <1>4, <2>4, <3>1, <3>2
    <3> QED
      BY <2>4, <3>3
  <2> QED
    BY <1>2, <2>1, <2>2, <2>3, <2>4
<1> QED
  BY <1>3, <1>5

\* A joint in a text is an escape, of all of it.
LEMMA JointEscape ==
  ASSUME NEW f \in Seq(Byte), NEW q \in Nat \ {0}, NEW joint \in Joint, Lies(f, q, joint)
  PROVE  /\ q \in DOMAIN f /\ f[q] = "\\" /\ q + 1 \in DOMAIN f /\ f[q + 1] # "#"
         /\ escaped(f, q) = Len(joint) /\ Len(joint) \in Nat /\ Len(joint) > 0
<1>1. joint = <<"\\", "\n">> \/ joint = <<"\\", "\r", "\n">>
  BY Joints
<1>2. CASE joint = <<"\\", "\n">>
  <2>1. Len(joint) = 2 /\ DOMAIN joint = 1 .. 2 /\ joint[1] = "\\" /\ joint[2] = "\n"
    BY <1>2
  <2>2. q + 1 - 1 = q /\ q + 2 - 1 = q + 1
    OBVIOUS
  <2>3. q \in DOMAIN f /\ f[q] = "\\" /\ q + 1 \in DOMAIN f /\ f[q + 1] = "\n"
    BY <2>1, <2>2 DEF Lies
  <2> QED
    BY <2>1, <2>3 DEF escaped
<1>3. CASE joint = <<"\\", "\r", "\n">>
  <2>1. Len(joint) = 3 /\ DOMAIN joint = 1 .. 3 /\ joint[1] = "\\" /\ joint[2] = "\r"
        /\ joint[3] = "\n"
    BY <1>3
  <2>2. q + 1 - 1 = q /\ q + 2 - 1 = q + 1 /\ q + 3 - 1 = q + 2
    OBVIOUS
  <2>3. q \in DOMAIN f /\ f[q] = "\\" /\ q + 1 \in DOMAIN f /\ f[q + 1] = "\r"
        /\ q + 2 \in DOMAIN f /\ f[q + 2] = "\n"
    BY <2>1, <2>2 DEF Lies
  <2> QED
    BY <2>1, <2>3 DEF escaped
<1> QED
  BY <1>1, <1>2, <1>3

\* Where a value may begin: not in the middle of an escape before it.
ClearAt(in, k, q) == Clear(in.lines[k].style.post, q - PostAt(in, k) + 1)

\* The same where it lies in the file.
LEMMA PostShape ==
  ASSUME NEW in \in Input, NEW k \in 1 .. Len(in.lines), in.lines[k].kind \in {"=", ":"}
  PROVE  LET f == FileOf(in)
         IN  /\ ClearAt(in, k, PostAt(in, k))
             /\ \A q \in PostAt(in, k) .. TextAt(in, k) - 1 : ClearAt(in, k, q) =>
                  /\ q \in DOMAIN f
                  /\ \/ f[q] \in Blank /\ ClearAt(in, k, q + 1)
                     \/ f[q] = "\\" /\ escaped(f, q) \in {2, 3} /\ ClearAt(in, k, q + escaped(f, q))
<1> DEFINE f == FileOf(in)
           l == in.lines[k]
           s == l.style.post
           b == PostAt(in, k)
           e == TextAt(in, k)
<1>1. l \in Line /\ s \in Seq(Byte) /\ f \in Seq(Byte)
  BY InputTypes, Types, FileLines DEF File
<1>2. Skipped(s)
  BY <1>1, Types DEF Style
<1>3. b \in Nat /\ e \in Nat /\ Lies(f, b, s)
  BY DefinitionShape, Zenon
<1>4. e = b + Len(s)
  BY DEF TextAt
<1>5. SepAt(in, k) \in Nat
  BY DefinitionShape, Zenon
<1>6. b \in Nat \ {0}
  BY <1>5 DEF PostAt
<1> HIDE DEF f, l, s, b, e
<1>7. /\ Clear(s, 1)
      /\ \A i \in 1 .. Len(s) : Clear(s, i) =>
           \/ s[i] \in Blank /\ Clear(s, i + 1)
           \/ s[i] = "\\" /\ s[i + 1] = "\n" /\ Clear(s, i + 2)
           \/ s[i] = "\\" /\ s[i + 1] = "\r" /\ s[i + 2] = "\n" /\ Clear(s, i + 3)
  BY <1>1, <1>2, SkippedSteps
<1>8. \A i \in 1 .. Len(s) : b + i - 1 \in DOMAIN f /\ f[b + i - 1] = s[i]
  BY <1>1, <1>3 DEF Lies
<1>9. Clear(s, b - b + 1)
  BY <1>6, <1>7
<1>10. ASSUME NEW q \in b .. e - 1, Clear(s, q - b + 1)
       PROVE  /\ q \in DOMAIN f
              /\ \/ f[q] \in Blank /\ Clear(s, (q + 1) - b + 1)
                 \/ f[q] = "\\" /\ escaped(f, q) \in {2, 3} /\ Clear(s, (q + escaped(f, q)) - b + 1)
  <2> DEFINE i == q - b + 1
  <2>1. i \in 1 .. Len(s) /\ b + i - 1 = q /\ b + (i + 1) - 1 = q + 1 /\ b + (i + 2) - 1 = q + 2
        /\ (q + 1) - b + 1 = i + 1 /\ (q + 2) - b + 1 = i + 2 /\ (q + 3) - b + 1 = i + 3
    BY <1>1, <1>3, <1>4, <1>6
  <2>2. Clear(s, i)
    BY <1>10
  <2> HIDE DEF i
  <2>3. q \in DOMAIN f /\ f[q] = s[i]
    BY <1>8, <2>1
  <2>4. CASE s[i] \in Blank /\ Clear(s, i + 1)
    BY <2>1, <2>3, <2>4
  <2>5. CASE s[i] = "\\" /\ s[i + 1] = "\n" /\ Clear(s, i + 2)
    <3>1. i + 1 \in 1 .. Len(s)
      BY <1>1, <2>1, <2>5 DEF Clear
    <3>2. q + 1 \in DOMAIN f /\ f[q + 1] = "\n"
      BY <1>8, <2>1, <2>5, <3>1
    <3>3. escaped(f, q) = 2
      BY <2>3, <2>5, <3>2 DEF escaped
    <3> QED
      BY <2>1, <2>3, <2>5, <3>3
  <2>6. CASE s[i] = "\\" /\ s[i + 1] = "\r" /\ s[i + 2] = "\n" /\ Clear(s, i + 3)
    <3>1. i + 1 \in 1 .. Len(s) /\ i + 2 \in 1 .. Len(s)
      BY <1>1, <2>1, <2>6 DEF Clear
    <3>2. q + 1 \in DOMAIN f /\ f[q + 1] = "\r" /\ q + 2 \in DOMAIN f /\ f[q + 2] = "\n"
      BY <1>8, <2>1, <2>6, <3>1
    <3>3. escaped(f, q) = 3
      BY <2>3, <2>6, <3>2 DEF escaped
    <3> QED
      BY <2>1, <2>3, <2>6, <3>3
  <2> QED
    BY <1>7, <2>1, <2>2, <2>4, <2>5, <2>6
<1> QED
  BY <1>9, <1>10 DEF ClearAt, f, s, l, b, e

\* What follows a value: blanks up to a comment, or up to the line end.
LEMMA TrailShape ==
  ASSUME NEW in \in Input, NEW k \in 1 .. Len(in.lines), in.lines[k].kind \in {"=", ":"}
  PROVE  LET f == FileOf(in)
             t == TrailAt(in, k)
             s == StopAt(in, k)
         IN  /\ t \in Nat \ {0} /\ t <= s
             /\ \A q \in t .. s - 1 : q \in DOMAIN f /\ f[q] # "\n"
             /\ \A q \in t .. s - 1 : (\A r \in t .. q - 1 : f[r] \in Blank)
                  => f[q] \in Blank \cup {"#"}
<1> DEFINE f == FileOf(in)
           l == in.lines[k]
           a == l.style.trail
           t == TrailAt(in, k)
           e == EolAt(in, k)
           s == StopAt(in, k)
           b == Body(in, k)
<1>1. l \in Line /\ a \in Seq(Byte)
  BY InputTypes, Types DEF File
<1>2. NoMore(a)
  BY <1>1, Types DEF Style
<1>3. t \in Nat /\ t <= e /\ e = t + Len(a) /\ Lies(f, t, a)
  BY DefinitionShape, Zenon
<1>4. /\ s \in Nat /\ e \in Nat /\ b \in Nat \ {0} /\ e <= s
      /\ \A q \in b .. s - 1 : q \in DOMAIN f
      /\ \A q \in e .. s - 1 : f[q] = "\r"
  BY StopShape, Zenon
<1>5. b <= t
  <2>1. /\ NameEnd(in, k) \in Nat /\ SepAt(in, k) \in Nat /\ PostAt(in, k) \in Nat
        /\ TextAt(in, k) \in Nat
        /\ b <= NameEnd(in, k) /\ NameEnd(in, k) <= SepAt(in, k)
        /\ PostAt(in, k) <= TextAt(in, k) /\ TextAt(in, k) <= t
    BY DefinitionShape, Zenon
  <2>2. PostAt(in, k) = SepAt(in, k) + 1
    BY DEF PostAt
  <2> HIDE DEF b, t
  <2> QED
    BY <1>3, <1>4, <2>1, <2>2
<1> HIDE DEF f, l, a, t, e, s, b
<1>6. \A q \in t .. e - 1 : q - t + 1 \in DOMAIN a /\ f[q] = a[q - t + 1]
  <2>1. \A q \in t .. t + Len(a) - 1 : q - t + 1 \in DOMAIN a /\ f[q] = a[q - t + 1]
    BY <1>1, <1>3, LiesRange
  <2> QED
    BY <1>3, <2>1
<1>7. ASSUME NEW q \in t .. s - 1 PROVE q \in DOMAIN f /\ f[q] # "\n"
  <2>1. q \in b .. s - 1
    BY <1>3, <1>4, <1>5
  <2>2. CASE q < e
    <3>1. q \in t .. e - 1
      BY <1>3, <1>4, <2>2
    <3>2. a[q - t + 1] # "\n"
      BY <1>2, <1>6, <3>1 DEF NoMore
    <3> QED
      BY <1>4, <1>6, <2>1, <3>1, <3>2
  <2>3. CASE q >= e
    <3>1. q \in e .. s - 1
      BY <1>3, <1>4, <2>3
    <3> QED
      BY <1>4, <2>1, <3>1
  <2> QED
    BY <1>3, <1>4, <2>2, <2>3
<1>8. ASSUME NEW q \in t .. s - 1, \A r \in t .. q - 1 : f[r] \in Blank
      PROVE  f[q] \in Blank \cup {"#"}
  <2>2. CASE q < e
    <3>1. q \in t .. e - 1
      BY <1>3, <1>4, <2>2
    <3> DEFINE i == q - t + 1
    <3>2. i \in DOMAIN a /\ f[q] = a[i] /\ DOMAIN a = 1 .. Len(a)
      BY <1>1, <1>6, <3>1
    <3>3. a[i] \in Blank \/ \E j \in 1 .. i : a[j] = "#"
      BY <1>2, <3>2 DEF NoMore
    <3>4. ASSUME NEW j \in 1 .. i, a[j] = "#" PROVE j = i
      <4> SUFFICES ASSUME j # i PROVE FALSE
        OBVIOUS
      <4> DEFINE r == t + j - 1
      <4>1. r \in t .. q - 1 /\ r \in t .. e - 1 /\ r - t + 1 = j
        BY <1>3, <3>1
      <4>2. f[r] = a[j]
        BY <1>6, <4>1
      <4> QED
        BY <1>8, <3>4, <4>1, <4>2 DEF Blank
    <3> HIDE DEF i
    <3> QED
      BY <3>2, <3>3, <3>4
  <2>3. CASE q >= e
    <3>1. q \in e .. s - 1
      BY <1>3, <1>4, <2>3
    <3> QED
      BY <1>4, <3>1 DEF Blank
  <2> QED
    BY <1>3, <1>4, <2>2, <2>3
<1>9. t \in Nat \ {0} /\ t <= s
  BY <1>3, <1>4, <1>5
<1> QED
  BY <1>7, <1>8, <1>9 DEF f, t, s

-----------------------------------------------------------------------------
(***************************************************************************)
(* The bytes of a value where it is written.                               *)
(***************************************************************************)
ByteStarts(value, joint) ==
  CHOOSE at : AreStarts(at, [i \in DOMAIN value |-> ByteText(value, joint, i)],
                        Written(value, joint))

Width(c) == IF c = "#" THEN 2 ELSE 1

\* Where the i-th byte of a value that begins at t is written, and ends.
ByteFrom(value, joint, t, i) == t + ByteStarts(value, joint)[i]
ByteTo(value, joint, t, i)   == ByteFrom(value, joint, t, i) + Width(value[i])

\* Where the bytes of a value are in the file, and how they are written.
LEMMA ValueShape ==
  ASSUME NEW value \in File, NEW joint \in File, NEW f \in Seq(Byte), NEW t \in Nat \ {0},
         Lies(f, t, Written(value, joint))
  PROVE  /\ ByteFrom(value, joint, t, 1) = t
         /\ ByteFrom(value, joint, t, Len(value) + 1) = t + Len(Written(value, joint))
         /\ \A i \in 1 .. Len(value) + 1 : ByteFrom(value, joint, t, i) \in Nat \ {0}
         /\ \A i \in 1 .. Len(value) :
              LET from == ByteFrom(value, joint, t, i)
                  to   == ByteTo(value, joint, t, i)
              IN  /\ to \in Nat
                  /\ from \in DOMAIN f /\ f[from] = (IF value[i] = "#" THEN "\\" ELSE value[i])
                  /\ value[i] = "#" => from + 1 \in DOMAIN f /\ f[from + 1] = "#" /\ to = from + 2
                  /\ value[i] # "#" => to = from + 1
                  /\ i = 1 => Lies(f, to, joint)
                  /\ i = 1 => ByteFrom(value, joint, t, i + 1) = to + Len(joint)
                  /\ i # 1 => ByteFrom(value, joint, t, i + 1) = to
<1> DEFINE parts == [i \in DOMAIN value |-> ByteText(value, joint, i)]
           at    == ByteStarts(value, joint)
           w     == Written(value, joint)
<1>1. w \in Seq(Byte) /\ AreStarts(at, parts, w)
  BY WrittenType, Zenon DEF ByteStarts, File
<1>2. /\ DOMAIN value = 1 .. Len(value) /\ Len(value) \in Nat
      /\ \A i \in DOMAIN value : value[i] \in Byte
  BY DEF File
<1>3. parts \in Seq(Seq(Byte)) /\ Len(parts) = Len(value) /\ DOMAIN parts = 1 .. Len(value)
      /\ \A i \in 1 .. Len(value) : parts[i] = ByteText(value, joint, i)
  <2>1. \A i \in DOMAIN value : ByteText(value, joint, i) \in Seq(Byte)
    BY ByteTextType DEF File
  <2> QED
    BY <1>2, <2>1
<1> HIDE DEF parts, w
<1>4. /\ at \in [1 .. Len(value) + 1 -> Nat]
      /\ at[1] = 0 /\ at[Len(value) + 1] = Len(w)
      /\ \A i \in 1 .. Len(value) :
           /\ at[i + 1] = at[i] + Len(parts[i])
           /\ \A j \in DOMAIN parts[i] : at[i] + j \in DOMAIN w /\ w[at[i] + j] = parts[i][j]
  BY <1>1, <1>3, Zenon DEF AreStarts
<1> HIDE DEF at
<1>5. ASSUME NEW i \in 1 .. Len(value) + 1 PROVE t + at[i] \in Nat \ {0}
  <2>1. at[i] \in Nat
    BY <1>4
  <2> QED
    BY <2>1
<1>6. ASSUME NEW i \in 1 .. Len(value)
      PROVE  LET from == t + at[i]
                 to   == t + at[i] + Width(value[i])
             IN  /\ to \in Nat
                 /\ from \in DOMAIN f /\ f[from] = (IF value[i] = "#" THEN "\\" ELSE value[i])
                 /\ value[i] = "#" => from + 1 \in DOMAIN f /\ f[from + 1] = "#" /\ to = from + 2
                 /\ value[i] # "#" => to = from + 1
                 /\ i = 1 => Lies(f, to, joint)
                 /\ i = 1 => t + at[i + 1] = to + Len(joint)
                 /\ i # 1 => t + at[i + 1] = to
  <2> DEFINE a == at[i]
             x == IF value[i] = "#" THEN <<"\\", "#">> ELSE <<value[i]>>
             y == IF i = 1 THEN joint ELSE <<>>
             n == at[i + 1]
  <2>1. a \in Nat /\ n \in Nat
    BY <1>2, <1>4
  <2>2. parts[i] = x \o y
    BY <1>3 DEF ByteText
  <2>3. x \in Seq(Byte) /\ y \in Seq(Byte) /\ Len(x) = Width(value[i]) /\ DOMAIN x = 1 .. Len(x)
        /\ x[1] = (IF value[i] = "#" THEN "\\" ELSE value[i])
        /\ (value[i] = "#" => x[2] = "#")
    <3>1. value[i] \in Byte /\ "\\" \in Byte /\ "#" \in Byte
      BY <1>2 DEF Byte
    <3>2. y \in Seq(Byte)
      BY DEF File
    <3>3. CASE value[i] = "#"
      <4>1. x = <<"\\", "#">> /\ Width(value[i]) = 2
        BY <3>3 DEF Width
      <4> HIDE DEF x
      <4>2. x \in Seq(Byte) /\ Len(x) = 2 /\ DOMAIN x = 1 .. 2 /\ x[1] = "\\" /\ x[2] = "#"
        BY <3>1, <4>1
      <4> QED
        BY <3>2, <3>3, <4>1, <4>2
    <3>4. CASE value[i] # "#"
      <4>1. x = <<value[i]>> /\ Width(value[i]) = 1
        BY <3>4 DEF Width
      <4> HIDE DEF x
      <4>2. x \in Seq(Byte) /\ Len(x) = 1 /\ DOMAIN x = 1 .. 1 /\ x[1] = value[i]
        BY <3>1, <4>1
      <4> QED
        BY <3>2, <3>4, <4>1, <4>2
    <3> QED
      BY <3>3, <3>4
  <2>4. n = a + Len(parts[i])
        /\ \A j \in DOMAIN parts[i] : a + j \in DOMAIN w /\ w[a + j] = parts[i][j]
    BY <1>4
  <2>5. \A j \in DOMAIN w : t + j - 1 \in DOMAIN f /\ f[t + j - 1] = w[j]
    BY DEF Lies, w
  <2>0. (i = 1 => y = joint) /\ (i # 1 => Len(y) = 0)
    BY <1>3
  <2> HIDE DEF a, x, y, n
  <2>6. Lies(f, t + a, x \o y)
    <3>1. ASSUME NEW j \in DOMAIN parts[i]
          PROVE  (t + a) + j - 1 \in DOMAIN f /\ f[(t + a) + j - 1] = parts[i][j]
      <4>1. a + j \in DOMAIN w /\ w[a + j] = parts[i][j]
        BY <2>4
      <4>2. j \in Int
        BY <2>2, <2>3
      <4>3. t + (a + j) - 1 = (t + a) + j - 1
        BY <2>1, <4>2
      <4> QED
        BY <2>5, <4>1, <4>3
    <3> QED
      BY <2>2, <3>1 DEF Lies
  <2>7. Lies(f, t + a, x) /\ Lies(f, (t + a) + Len(x), y)
    <3>1. x \in Seq(Byte) /\ y \in Seq(Byte) /\ t + a \in Nat
      BY <2>1, <2>3
    <3> QED
      BY <2>6, <3>1, LiesCat
  <2>8. /\ Len(x \o y) = Len(x) + Len(y) /\ Len(x) \in Nat /\ Len(y) \in Nat
        /\ n = a + (Len(x) + Len(y))
    <3>1. Len(x \o y) = Len(x) + Len(y) /\ Len(x) \in Nat /\ Len(y) \in Nat
      <4>1. x \in Seq(Byte) /\ y \in Seq(Byte)
        BY <2>3
      <4> QED
        BY <4>1, CatBytes
    <3> QED
      BY <2>2, <2>4, <3>1
  <2>9. Width(value[i]) = (IF value[i] = "#" THEN 2 ELSE 1)
    BY DEF Width
  <2>10. t + a \in DOMAIN f /\ f[t + a] = x[1]
    <3>1. 1 \in DOMAIN x /\ (t + a) + 1 - 1 = t + a
      BY <2>1, <2>3, <2>9
    <3> QED
      BY <2>7, <3>1 DEF Lies
  <2>11. value[i] = "#" => t + a + 1 \in DOMAIN f /\ f[t + a + 1] = "#"
    <3> SUFFICES ASSUME value[i] = "#" PROVE t + a + 1 \in DOMAIN f /\ f[t + a + 1] = "#"
      OBVIOUS
    <3>1. 2 \in DOMAIN x /\ (t + a) + 2 - 1 = t + a + 1
      BY <2>1, <2>3, <2>9
    <3> QED
      BY <2>3, <2>7, <3>1 DEF Lies
  <2>12. i = 1 => Lies(f, t + a + Width(value[i]), joint)
    BY <2>0, <2>3, <2>7
  <2>13. i = 1 => t + n = t + a + Width(value[i]) + Len(joint)
    <3> SUFFICES ASSUME i = 1 PROVE t + n = t + a + Width(value[i]) + Len(joint)
      OBVIOUS
    <3> DEFINE c == Len(x)  d == Len(joint)
    <3>1. c \in Nat /\ d \in Nat /\ n = a + (c + d) /\ c = Width(value[i])
      BY <2>0, <2>3, <2>8
    <3> HIDE DEF c, d
    <3>2. t + n = t + a + c + d
      BY <2>1, <3>1
    <3> QED
      BY <3>1, <3>2 DEF d
  <2>14. i # 1 => t + n = t + a + Width(value[i])
    <3> SUFFICES ASSUME i # 1 PROVE t + n = t + a + Width(value[i])
      OBVIOUS
    <3> QED
      BY <2>0, <2>1, <2>3, <2>8, <2>9
  <2>15. t + a + Width(value[i]) \in Nat
    BY <2>1, <2>9
  <2> QED
    BY <2>1, <2>3, <2>9, <2>10, <2>11, <2>12, <2>13, <2>14, <2>15 DEF a, n
<1>7. t + at[1] = t /\ t + at[Len(value) + 1] = t + Len(w)
  BY <1>4
<1> QED
  BY <1>5, <1>6, <1>7 DEF ByteFrom, ByteTo, at, w

\* What joins two lines is a text.
LEMMA JointType == ASSUME NEW joint \in Joint \cup {<<>>} PROVE joint \in File
<1>1. "\\" \in Byte /\ "\n" \in Byte /\ "\r" \in Byte
  BY DEF Byte
<1>2. <<"\\", "\n">> \in Seq(Byte) /\ <<"\\", "\r", "\n">> \in Seq(Byte) /\ <<>> \in Seq(Byte)
  BY <1>1
<1> QED
  BY <1>2, Joints DEF File

\* What is written for a value are no escapes of line ends, but for the joint.
LEMMA ValueEscapes ==
  ASSUME NEW value \in File, ValueText(value), NEW joint \in Joint \cup {<<>>},
         NEW f \in Seq(Byte), NEW t \in Nat \ {0}, Lies(f, t, Written(value, joint)),
         NEW i \in 1 .. Len(value)
  PROVE  LET from == ByteFrom(value, joint, t, i)
         IN  /\ escaped(f, from) = 0
             /\ value[i] = "\\" => from + 1 \in DOMAIN f /\ f[from + 1] # "#"
             /\ value[i] # "\n"
<1> DEFINE From(n) == ByteFrom(value, joint, t, n)
           To(n) == ByteTo(value, joint, t, n)
           L == Len(value)
           q == From(i)
<1>1. joint \in File
  BY JointType
<1>0. i \in 1 .. L
  OBVIOUS
<1>2. /\ \A n \in 1 .. L + 1 : From(n) \in Nat \ {0}
      /\ \A n \in 1 .. L :
           /\ From(n) \in DOMAIN f /\ f[From(n)] = (IF value[n] = "#" THEN "\\" ELSE value[n])
           /\ value[n] = "#" => From(n) + 1 \in DOMAIN f /\ f[From(n) + 1] = "#"
           /\ value[n] # "#" => To(n) = From(n) + 1
           /\ n = 1 => Lies(f, To(n), joint)
           /\ n = 1 => From(n + 1) = To(n) + Len(joint)
           /\ n # 1 => From(n + 1) = To(n)
  <2>1. \A n \in 1 .. L + 1 : From(n) \in Nat \ {0}
    BY <1>1, ValueShape, Zenon
  <2>2. ASSUME NEW n \in 1 .. L
        PROVE  /\ From(n) \in DOMAIN f /\ f[From(n)] = (IF value[n] = "#" THEN "\\" ELSE value[n])
               /\ value[n] = "#" => From(n) + 1 \in DOMAIN f /\ f[From(n) + 1] = "#"
               /\ value[n] # "#" => To(n) = From(n) + 1
               /\ n = 1 => Lies(f, To(n), joint)
               /\ n = 1 => From(n + 1) = To(n) + Len(joint)
               /\ n # 1 => From(n + 1) = To(n)
    BY <1>1, ValueShape
  <2> QED
    BY <2>1, <2>2
<1>3. /\ L \in Nat /\ \A n \in 1 .. L : value[n] # "\n"
      /\ ~whitespace(value[L]) /\ value[L] # "\\"
  BY DEF ValueText, Holds, File
<1> HIDE DEF L, From, To, q
<1>4. f[q] = (IF value[i] = "#" THEN "\\" ELSE value[i]) /\ q \in Nat \ {0}
  BY <1>0, <1>2, <1>3 DEF q
<1>5. CASE value[i] = "#"
  <2>1. f[q + 1] = "#"
    BY <1>0, <1>2, <1>5 DEF q
  <2>2. escaped(f, q) = 0
    BY <2>1 DEF escaped
  <2> QED
    BY <1>5, <2>2 DEF q, From
<1>6. CASE value[i] = "\\"
  <2>1. i + 1 \in 1 .. L /\ i # L
    BY <1>3, <1>6 DEF L
  <2>2. To(i) = q + 1
    BY <1>0, <1>2, <1>6 DEF q
  <2>3. CASE i = 1 /\ joint # <<>>
    <3>1. joint \in Joint /\ Lies(f, q + 1, joint) /\ q + 1 \in Nat \ {0}
      BY <1>0, <1>2, <1>4, <2>2, <2>3
    <3>2. q + 1 \in DOMAIN f /\ f[q + 1] = "\\"
      BY <3>1, JointEscape
    <3>3. escaped(f, q) = 0
      BY <3>2 DEF escaped
    <3> QED
      BY <1>6, <3>2, <3>3 DEF q, From
  <2>4. CASE ~(i = 1 /\ joint # <<>>)
    <3>1. From(i + 1) = q + 1
      <4>1. joint = <<>> => Len(joint) = 0
        OBVIOUS
      <4> QED
        BY <1>0, <1>2, <1>4, <2>2, <2>4, <4>1
    <3>2. q + 1 \in DOMAIN f /\ f[q + 1] = (IF value[i + 1] = "#" THEN "\\" ELSE value[i + 1])
      BY <1>2, <2>1, <3>1
    <3>3. f[q + 1] # "#" /\ f[q + 1] # "\n"
      BY <1>3, <2>1, <3>2
    <3>4. ASSUME f[q + 1] = "\r" PROVE ~(q + 2 \in DOMAIN f /\ f[q + 2] = "\n")
      <4>1. value[i + 1] = "\r"
        BY <3>2, <3>4
      <4>2. i + 2 \in 1 .. L /\ i + 1 # 1 /\ (i + 1) + 1 = i + 2
        <5>1. i + 1 # L
          BY <1>3, <4>1 DEF whitespace
        <5> QED
          BY <1>3, <2>1, <5>1
      <4>3. From(i + 2) = (q + 1) + 1
        <5>1. From((i + 1) + 1) = To(i + 1) /\ To(i + 1) = From(i + 1) + 1
          BY <1>2, <2>1, <4>1, <4>2
        <5> QED
          BY <3>1, <4>2, <5>1
      <4>4. f[From(i + 2)] = (IF value[i + 2] = "#" THEN "\\" ELSE value[i + 2])
        BY <1>2, <4>2
      <4>5. (q + 1) + 1 = q + 2
        BY <1>4
      <4> QED
        BY <1>3, <4>2, <4>3, <4>4, <4>5
    <3>5. escaped(f, q) = 0
      BY <3>3, <3>4 DEF escaped
    <3> QED
      BY <1>6, <3>2, <3>3, <3>5 DEF q, From
  <2> QED
    BY <2>3, <2>4
<1>7. CASE value[i] # "#" /\ value[i] # "\\"
  <2>1. escaped(f, q) = 0
    BY <1>4, <1>7 DEF escaped
  <2>2. value[i] # "\n"
    BY <1>3 DEF L
  <2> QED
    BY <1>7, <2>1, <2>2 DEF q, From
<1> QED
  BY <1>5, <1>6, <1>7

-----------------------------------------------------------------------------
(***************************************************************************)
(* What stripescapes() makes of what is written for a value.               *)
(***************************************************************************)
StripAt(f, s, i) ==
  IF i > Len(s) THEN <<>>
  ELSE IF escaped(s, i) > 0 THEN f[i + escaped(s, i)]
  ELSE IF s[i] = "\\" /\ i < Len(s) /\ s[i+1] = "#" THEN f[i + 1]
  ELSE <<s[i]>> \o f[i + 1]

Strips(f, s, b) == f = [i \in b .. Len(s) + 1 |-> StripAt(f, s, i)]

Stripped(s) == CHOOSE f : Strips(f, s, 1)

\* stripescapes() is the first of the texts that are left from every place on.
LEMMA StrippedIs == ASSUME NEW s PROVE stripescapes(s) = Stripped(s)[1]
BY DEF stripescapes, Stripped, Strips, StripAt

\* From the last of the numbers up to M down to the first.
LEMMA DownToOne ==
  ASSUME NEW M \in Nat, NEW S, M \in S,
         \A k \in 1 .. M - 1 : k + 1 \in S => k \in S
  PROVE  \A k \in 1 .. M : k \in S
<1> SUFFICES ASSUME NEW b \in 1 .. M, b \notin S PROVE FALSE
  OBVIOUS
<1> DEFINE I == {d \in Nat : d <= M - 1 /\ M - d \notin S}
<1>1. M - b \in I
  OBVIOUS
<1>2. PICK d \in I : \A e \in I : d <= e
  <2>1. I \subseteq Nat /\ I # {}
    BY <1>1
  <2> HIDE DEF I
  <2> QED
    BY <2>1, LeastExists
<1>3. d # 0 /\ d \in Nat /\ d <= M - 1 /\ M - d \notin S
  <2>1. M - 0 = M
    OBVIOUS
  <2> QED
    BY <1>2, <2>1
<1>4. d - 1 \notin I
  BY <1>2, <1>3
<1>5. M - (d - 1) \in S
  BY <1>3, <1>4
<1>6. M - (d - 1) = (M - d) + 1 /\ M - d \in 1 .. M - 1
  BY <1>3
<1> QED
  BY <1>3, <1>5, <1>6

\* An escaped line end is a part of the text.
LEMMA EscapedRange ==
  ASSUME NEW s \in Seq(Byte), NEW i \in 1 .. Len(s)
  PROVE  \/ escaped(s, i) = 0
         \/ escaped(s, i) \in Nat /\ i + escaped(s, i) \in i + 1 .. Len(s) + 1
<1>1. CASE i + 1 \in DOMAIN s /\ s[i] = "\\" /\ s[i+1] = "\n"
  <2>1. escaped(s, i) = 2
    BY <1>1 DEF escaped
  <2> QED
    BY <1>1, <2>1
<1>2. CASE ~(i + 1 \in DOMAIN s /\ s[i] = "\\" /\ s[i+1] = "\n")
  <2>1. CASE i + 2 \in DOMAIN s /\ s[i] = "\\" /\ s[i+1] = "\r" /\ s[i+2] = "\n"
    <3>1. escaped(s, i) = 3
      BY <2>1 DEF escaped
    <3> QED
      BY <2>1, <3>1
  <2>2. CASE ~(i + 2 \in DOMAIN s /\ s[i] = "\\" /\ s[i+1] = "\r" /\ s[i+2] = "\n")
    <3>1. escaped(s, i) = 0
      BY <1>2, <2>2 DEF escaped
    <3> QED
      BY <3>1
  <2> QED
    BY <2>1, <2>2
<1> QED
  BY <1>1, <1>2

\* What is left from a place on depends on the places after it only.
LEMMA StripAgrees ==
  ASSUME NEW s \in Seq(Byte), NEW i \in 1 .. Len(s) + 1, NEW f, NEW g,
         \A j \in i + 1 .. Len(s) + 1 : f[j] = g[j]
  PROVE  StripAt(f, s, i) = StripAt(g, s, i)
<1>1. CASE i > Len(s)
  BY <1>1 DEF StripAt
<1>2. CASE ~(i > Len(s))
  <2>1. i \in 1 .. Len(s) /\ i + 1 \in i + 1 .. Len(s) + 1
    BY <1>2
  <2>2. f[i + 1] = g[i + 1]
    BY <2>1
  <2> DEFINE n == escaped(s, i)
  <2>3. n > 0 => i + n \in i + 1 .. Len(s) + 1
    BY <2>1, EscapedRange
  <2> HIDE DEF n
  <2>4. n > 0 => f[i + n] = g[i + n]
    BY <2>3
  <2> QED
    BY <1>2, <2>2, <2>4, Zenon DEF StripAt, n
<1> QED
  BY <1>1, <1>2

\* There are these texts.
LEMMA StripsExist == ASSUME NEW s \in Seq(Byte) PROVE \E f : Strips(f, s, 1)
<1> DEFINE E == Len(s) + 1
           S == {b \in 1 .. E : \E f : Strips(f, s, b)}
<1>1. E \in Nat /\ E >= 1
  OBVIOUS
<1>2. E \in S
  <2> DEFINE none == [i \in {} |-> 0]
             f == [i \in E .. E |-> StripAt(none, s, i)]
  <2>1. ASSUME NEW i \in E .. E PROVE StripAt(none, s, i) = StripAt(f, s, i)
    <3> HIDE DEF none, f
    <3>1. i \in 1 .. E /\ \A j \in i + 1 .. E : none[j] = f[j]
      BY <1>1
    <3> QED
      BY <3>1, StripAgrees
  <2>2. Strips(f, s, E)
    BY <2>1, Zenon DEF Strips
  <2> QED
    BY <1>1, <2>2
<1>3. ASSUME NEW k \in 1 .. E - 1, k + 1 \in S PROVE k \in S
  <2>1. PICK f : Strips(f, s, k + 1)
    BY <1>3
  <2> DEFINE first == StripAt(f, s, k)
             h == [i \in k .. E |-> IF i = k THEN first ELSE f[i]]
  <2> HIDE DEF first
  <2>2. /\ k \in k .. E /\ h[k] = first
        /\ \A i \in k + 1 .. E : h[i] = f[i]
        /\ \A i \in k .. E : i = k \/ i \in k + 1 .. E
        /\ \A i \in k .. E : i \in 1 .. E
        /\ \A i \in k .. E : \A j \in i + 1 .. E : j \in k + 1 .. E
    BY <1>1
  <2>3. h = [i \in k .. E |-> h[i]]
    OBVIOUS
  <2> HIDE DEF h
  <2>4. \A i \in k + 1 .. E : f[i] = StripAt(f, s, i)
    BY <2>1 DEF Strips
  <2>5. ASSUME NEW i \in k .. E PROVE h[i] = StripAt(h, s, i)
    <3>1. \A j \in i + 1 .. E : h[j] = f[j]
      BY <2>2, Zenon
    <3>2. StripAt(h, s, i) = StripAt(f, s, i)
      BY <2>2, <3>1, StripAgrees
    <3> QED
      BY <2>2, <2>4, <3>2 DEF first
  <2>6. Strips(h, s, k)
    BY <2>3, <2>5, Zenon DEF Strips
  <2> QED
    BY <1>1, <2>6
<1>4. \A b \in 1 .. E : b \in S
  <2> HIDE DEF S, E
  <2> QED
    BY <1>1, <1>2, <1>3, DownToOne
<1> QED
  BY <1>1, <1>4

\* What is left from every place on.
LEMMA StripSteps ==
  ASSUME NEW s \in Seq(Byte)
  PROVE  \A i \in 1 .. Len(s) + 1 : Stripped(s)[i] = StripAt(Stripped(s), s, i)
<1> DEFINE f == Stripped(s)
<1>1. Strips(f, s, 1)
  BY StripsExist, Zenon DEF Stripped
<1> HIDE DEF f
<1> QED
  BY <1>1 DEF Strips, f

\* The escapes are what a value is written with.
LEMMA StripWritten ==
  ASSUME NEW value \in File, ValueText(value), NEW joint \in Joint \cup {<<>>},
         Len(value) = 1 => joint = <<>>
  PROVE  stripescapes(Written(value, joint)) = value
<1> DEFINE s == Written(value, joint)
           f == Stripped(s)
           L == Len(value)
           From(n) == ByteFrom(value, joint, 1, n)
           To(n) == ByteTo(value, joint, 1, n)
<1>1. joint \in File /\ s \in Seq(Byte)
  BY JointType, WrittenType DEF File
<1>2. Lies(s, 1, s)
  <2> HIDE DEF s
  <2>1. \A j \in DOMAIN s : 1 + j - 1 = j
    BY <1>1
  <2> QED
    BY <2>1 DEF Lies
<1>3. /\ From(1) = 1 /\ From(L + 1) = 1 + Len(s)
      /\ \A n \in 1 .. L + 1 : From(n) \in Nat \ {0}
  BY <1>1, <1>2, ValueShape
<1>4. ASSUME NEW n \in 1 .. L
      PROVE  /\ To(n) \in Nat
             /\ From(n) \in DOMAIN s /\ s[From(n)] = (IF value[n] = "#" THEN "\\" ELSE value[n])
             /\ value[n] = "#" => From(n) + 1 \in DOMAIN s /\ s[From(n) + 1] = "#"
             /\ value[n] = "#" => To(n) = From(n) + 2
             /\ value[n] # "#" => To(n) = From(n) + 1
             /\ n = 1 => Lies(s, To(n), joint)
             /\ n = 1 => From(n + 1) = To(n) + Len(joint)
             /\ n # 1 => From(n + 1) = To(n)
             /\ escaped(s, From(n)) = 0
             /\ value[n] = "\\" => s[From(n) + 1] # "#"
  <2>1. /\ To(n) \in Nat
        /\ From(n) \in DOMAIN s /\ s[From(n)] = (IF value[n] = "#" THEN "\\" ELSE value[n])
        /\ value[n] = "#" => From(n) + 1 \in DOMAIN s /\ s[From(n) + 1] = "#"
        /\ value[n] = "#" => To(n) = From(n) + 2
        /\ value[n] # "#" => To(n) = From(n) + 1
        /\ n = 1 => Lies(s, To(n), joint)
        /\ n = 1 => From(n + 1) = To(n) + Len(joint)
        /\ n # 1 => From(n + 1) = To(n)
    BY <1>1, <1>2, ValueShape
  <2>2. escaped(s, From(n)) = 0 /\ (value[n] = "\\" => s[From(n) + 1] # "#")
    BY <1>1, <1>2, ValueEscapes
  <2> QED
    BY <2>1, <2>2
<1>5. \A i \in 1 .. Len(s) + 1 : f[i] = StripAt(f, s, i)
  BY <1>1, StripSteps
<1>6. stripescapes(s) = f[1]
  BY StrippedIs
<1>7. L \in Nat /\ value \in Seq(Byte) /\ \A n \in 1 .. L : value[n] \in Byte
  BY DEF File
<1>8. L = 1 => joint = <<>>
  OBVIOUS
<1> HIDE DEF s, f, L, From, To
<1> DEFINE S == {n \in 1 .. L + 1 : f[From(n)] = SubSeq(value, n, L)}
<1>9. L + 1 \in S
  <2> DEFINE e == Len(s) + 1
  <2>3. e \in 1 .. Len(s) + 1 /\ e > Len(s) /\ e = 1 + Len(s)
    BY <1>1
  <2>4. f[e] = StripAt(f, s, e)
    BY <1>5, <2>3
  <2>1. f[1 + Len(s)] = <<>>
    BY <2>3, <2>4 DEF StripAt
  <2>2. SubSeq(value, L + 1, L) = <<>>
    BY <1>7, SubSeqEmpty
  <2>6. L + 1 \in 1 .. L + 1
    BY <1>7
  <2>5. f[From(L + 1)] = SubSeq(value, L + 1, L) /\ L + 1 \in 1 .. L + 1
    BY <1>3, <2>1, <2>2, <2>6, Zenon
  <2> QED
    BY <2>5
<1>10. ASSUME NEW n \in 1 .. L, n + 1 \in S PROVE n \in S
  <2> DEFINE w == From(n)
             g == To(n)
  <2>1. /\ g \in Nat /\ w \in DOMAIN s /\ s[w] = (IF value[n] = "#" THEN "\\" ELSE value[n])
        /\ value[n] = "#" => w + 1 \in DOMAIN s /\ s[w + 1] = "#" /\ g = w + 2
        /\ value[n] # "#" => g = w + 1
        /\ n = 1 => Lies(s, g, joint)
        /\ n = 1 => From(n + 1) = g + Len(joint)
        /\ n # 1 => From(n + 1) = g
        /\ escaped(s, w) = 0
        /\ value[n] = "\\" => s[w + 1] # "#"
    BY <1>4
  <2>2. f[From(n + 1)] = SubSeq(value, n + 1, L)
    BY <1>10
  <2>3. w \in 1 .. Len(s) /\ g \in Nat \ {0}
    BY <1>1, <2>1
  <2> HIDE DEF w, g
  <2>4. f[g] = f[From(n + 1)]
    <3>1. CASE n = 1 /\ joint # <<>>
      <4>1. /\ g \in DOMAIN s /\ escaped(s, g) = Len(joint) /\ Len(joint) \in Nat /\ Len(joint) > 0
        BY <1>1, <2>1, <2>3, <3>1, JointEscape
      <4>2. f[g] = StripAt(f, s, g) /\ ~(g > Len(s))
        BY <1>1, <1>5, <4>1
      <4>3. f[g] = f[g + Len(joint)]
        BY <4>1, <4>2 DEF StripAt
      <4> QED
        BY <2>1, <3>1, <4>3
    <3>2. CASE n # 1 \/ joint = <<>>
      <4>1. joint = <<>> => Len(joint) = 0
        OBVIOUS
      <4>2. From(n + 1) = g
        BY <2>1, <3>2, <4>1
      <4> QED
        BY <4>2
    <3> QED
      BY <3>1, <3>2
  <2>5. f[w] = <<value[n]>> \o f[g]
    <3>1. f[w] = StripAt(f, s, w) /\ ~(w > Len(s))
      BY <1>1, <1>5, <2>3
    <3>2. CASE value[n] = "#"
      <4>1. s[w] = "\\" /\ w + 1 \in 1 .. Len(s) /\ s[w + 1] = "#" /\ g = w + 2
        BY <1>1, <2>1, <3>2
      <4>2. f[w] = f[w + 1]
        BY <2>1, <2>3, <3>1, <4>1 DEF StripAt
      <4>3. f[w + 1] = StripAt(f, s, w + 1) /\ ~(w + 1 > Len(s)) /\ (w + 1) + 1 = g
        BY <1>1, <1>5, <2>3, <4>1
      <4>6. escaped(s, w + 1) = 0
        BY <4>1 DEF escaped
      <4>4. ~(escaped(s, w + 1) > 0) /\ s[w + 1] # "\\"
        BY <4>1, <4>6
      <4>5. f[w + 1] = <<"#">> \o f[g]
        BY <4>1, <4>3, <4>4, Zenon DEF StripAt
      <4> QED
        BY <3>2, <4>2, <4>5
    <3>3. CASE value[n] # "#"
      <4>1. s[w] = value[n] /\ g = w + 1 /\ ~(s[w] = "\\" /\ w < Len(s) /\ s[w + 1] = "#")
        BY <2>1, <3>3
      <4> QED
        BY <2>1, <3>1, <4>1 DEF StripAt
    <3> QED
      BY <3>2, <3>3
  <2>6. SubSeq(value, n, L) = <<value[n]>> \o SubSeq(value, n + 1, L)
    <3>1. n \in 1 .. Len(value) /\ L \in n .. Len(value)
      BY <1>7 DEF L
    <3> QED
      BY <1>7, <3>1, SubSeqRecursiveFirst
  <2> QED
    BY <1>7, <2>2, <2>4, <2>5, <2>6 DEF w
<1>11. \A n \in 1 .. L + 1 : n \in S
  <2>1. L + 1 \in Nat /\ (L + 1) - 1 = L
    BY <1>7
  <2> HIDE DEF S
  <2> QED
    BY <1>9, <1>10, <2>1, DownToOne
<1>12. f[From(1)] = SubSeq(value, 1, L)
  BY <1>7, <1>11
<1>13. SubSeq(value, 1, L) = value
  BY <1>7, SubSeqFull DEF L
<1> QED
  BY <1>3, <1>6, <1>12, <1>13 DEF s

\* A value without "#" is written as it is.
LEMMA PlainWritten ==
  ASSUME NEW value \in File, \A i \in 1 .. Len(value) : value[i] # "#"
  PROVE  Written(value, <<>>) = value
<1> DEFINE s == Written(value, <<>>)
           L == Len(value)
           From(n) == ByteFrom(value, <<>>, 1, n)
<1>0. <<>> \in File /\ s \in Seq(Byte) /\ Len(<<>>) = 0
  <2>1. <<>> \in File
    BY DEF File
  <2> QED
    BY <2>1, WrittenType DEF File
<1>1. L \in Nat /\ value \in Seq(Byte)
  BY DEF File
<1>2. Lies(s, 1, s)
  <2> HIDE DEF s
  <2>1. \A j \in DOMAIN s : 1 + j - 1 = j
    BY <1>0
  <2> QED
    BY <2>1 DEF Lies
<1>3. From(1) = 1 /\ From(L + 1) = 1 + Len(s)
  BY <1>0, <1>2, ValueShape
<1>4. ASSUME NEW n \in 1 .. L
      PROVE  From(n) \in DOMAIN s /\ s[From(n)] = value[n] /\ From(n + 1) = From(n) + 1
  <2> DEFINE to == ByteTo(value, <<>>, 1, n)
  <2>1. /\ to \in Nat
        /\ From(n) \in DOMAIN s /\ s[From(n)] = (IF value[n] = "#" THEN "\\" ELSE value[n])
        /\ value[n] # "#" => to = From(n) + 1
        /\ n = 1 => From(n + 1) = to + Len(<<>>)
        /\ n # 1 => From(n + 1) = to
    BY <1>0, <1>2, ValueShape
  <2> HIDE DEF to, From
  <2> QED
    BY <1>0, <2>1
<1> HIDE DEF s, L, From
<1> DEFINE S == {n \in Nat : n + 1 \in 1 .. L + 1 => From(n + 1) = n + 1}
<1>5. 0 \in S
  BY <1>3
<1>6. ASSUME NEW n \in Nat, n \in S PROVE n + 1 \in S
  <2> SUFFICES ASSUME n + 2 \in 1 .. L + 1 PROVE From(n + 2) = n + 2
    OBVIOUS
  <2>1. n + 1 \in 1 .. L /\ n + 1 \in 1 .. L + 1 /\ (n + 1) + 1 = n + 2
    BY <1>1
  <2>2. From(n + 1) = n + 1
    BY <1>6, <2>1
  <2>3. From((n + 1) + 1) = From(n + 1) + 1
    BY <1>4, <2>1
  <2> QED
    BY <2>1, <2>2, <2>3
<1>7. Nat \subseteq S
  <2> HIDE DEF S
  <2> QED
    BY <1>5, <1>6, NaturalsFrom0
<1>8. \A n \in 1 .. L + 1 : From(n) = n
  <2> SUFFICES ASSUME NEW n \in 1 .. L + 1 PROVE From(n) = n
    OBVIOUS
  <2>1. n - 1 \in Nat /\ (n - 1) + 1 = n
    BY <1>1
  <2>2. n - 1 \in S
    BY <1>7, <2>1
  <2> QED
    BY <2>1, <2>2
<1>9. Len(s) = L
  <2>1. From(L + 1) = L + 1 /\ Len(s) \in Nat
    BY <1>0, <1>1, <1>8
  <2> QED
    BY <1>1, <1>3, <2>1
<1>10. \A n \in 1 .. L : s[n] = value[n]
  BY <1>1, <1>4, <1>8
<1>11. Len(value) = L
  BY DEF L
<1>12. s = value
  BY <1>0, <1>1, <1>9, <1>10, <1>11
<1> QED
  BY <1>12 DEF s

\* From the first byte of a value to the last is what is written for it, without a joint at its end.
LEMMA SpanIs ==
  ASSUME NEW value \in File, value # <<>>, NEW joint \in Joint \cup {<<>>},
         NEW f \in Seq(Byte), NEW t \in Nat \ {0}, Lies(f, t, Written(value, joint))
  PROVE  SubSeq(f, t, ByteTo(value, joint, t, Len(value)) - 1)
           = Written(value, IF Len(value) = 1 THEN <<>> ELSE joint)
<1> DEFINE L == Len(value)
           w == Written(value, joint)
           to == ByteTo(value, joint, t, L)
<1>1. joint \in File /\ <<>> \in File /\ w \in Seq(Byte) /\ L \in Nat \ {0} /\ Len(<<>>) = 0
  <2>1. joint \in File /\ <<>> \in File
    BY JointType
  <2> QED
    BY <2>1, WrittenType DEF File
<1>2. /\ ByteFrom(value, joint, t, 1) = t
      /\ ByteFrom(value, joint, t, L + 1) = t + Len(w)
  BY <1>1, ValueShape
<1>3. L \in 1 .. Len(value)
  BY <1>1
<1>7. ASSUME NEW n \in 1 .. Len(value)
      PROVE  LET from == ByteFrom(value, joint, t, n)
                 end0 == ByteTo(value, joint, t, n)
             IN  /\ end0 \in Nat
                 /\ from \in DOMAIN f /\ f[from] = (IF value[n] = "#" THEN "\\" ELSE value[n])
                 /\ value[n] = "#" => from + 1 \in DOMAIN f /\ f[from + 1] = "#" /\ end0 = from + 2
                 /\ value[n] # "#" => end0 = from + 1
                 /\ n = 1 => ByteFrom(value, joint, t, n + 1) = end0 + Len(joint)
                 /\ n # 1 => ByteFrom(value, joint, t, n + 1) = end0
  BY <1>1, ValueShape
<1>4. LET from == ByteFrom(value, joint, t, L)
      IN  /\ to \in Nat
          /\ from \in DOMAIN f /\ f[from] = (IF value[L] = "#" THEN "\\" ELSE value[L])
          /\ value[L] = "#" => from + 1 \in DOMAIN f /\ f[from + 1] = "#" /\ to = from + 2
          /\ value[L] # "#" => to = from + 1
          /\ L = 1 => ByteFrom(value, joint, t, L + 1) = to + Len(joint)
          /\ L # 1 => ByteFrom(value, joint, t, L + 1) = to
  BY <1>3, <1>7
<1> HIDE DEF L, w, to
<1>5. CASE L # 1 \/ joint = <<>>
  <2>1. to = t + Len(w) /\ to \in Nat
    BY <1>1, <1>2, <1>4, <1>5
  <2>2. Lies(f, t, w)
    BY DEF w
  <2>3. \A q \in t .. t + Len(w) - 1 : q - t + 1 \in DOMAIN w /\ q \in DOMAIN f
                                       /\ f[q] = w[q - t + 1]
    BY <1>1, <2>2, LiesRange
  <2>4. SubSeq(f, t, to - 1) = w
    BY <1>1, <2>1, <2>3, SubSeqIs
  <2>5. (IF L = 1 THEN <<>> ELSE joint) = joint
    BY <1>5
  <2> QED
    BY <2>4, <2>5 DEF L, w, to
<1>6. CASE L = 1
  <2> DEFINE v == Written(value, <<>>)
             x == ByteFrom(value, <<>>, 1, 1)
             y == ByteTo(value, <<>>, 1, 1)
  <2>1. v \in Seq(Byte)
    BY <1>1, WrittenType DEF File
  <2>2. Lies(v, 1, v)
    <3> HIDE DEF v
    <3>1. \A j \in DOMAIN v : 1 + j - 1 = j
      BY <2>1
    <3> QED
      BY <3>1 DEF Lies
  <2>3. 1 \in 1 .. Len(value) /\ Len(value) = 1
    BY <1>6 DEF L
  <2>11. x = 1 /\ ByteFrom(value, <<>>, 1, Len(value) + 1) = 1 + Len(v)
    BY <1>1, <2>1, <2>2, ValueShape
  <2>4. x = 1 /\ ByteFrom(value, <<>>, 1, 1 + 1) = 1 + Len(v)
    BY <2>3, <2>11
  <2>10. ASSUME NEW n \in 1 .. Len(value)
         PROVE  LET from == ByteFrom(value, <<>>, 1, n)
                    end0 == ByteTo(value, <<>>, 1, n)
                IN  /\ end0 \in Nat
                    /\ v[from] = (IF value[n] = "#" THEN "\\" ELSE value[n])
                    /\ value[n] = "#" => v[from + 1] = "#" /\ end0 = from + 2
                    /\ value[n] # "#" => end0 = from + 1
                    /\ n = 1 => ByteFrom(value, <<>>, 1, n + 1) = end0 + Len(<<>>)
    BY <1>1, <2>1, <2>2, ValueShape
  <2>5. /\ v[x] = (IF value[1] = "#" THEN "\\" ELSE value[1])
        /\ value[1] = "#" => v[x + 1] = "#" /\ y = x + 2
        /\ value[1] # "#" => y = x + 1
        /\ ByteFrom(value, <<>>, 1, 1 + 1) = y + Len(<<>>)
        /\ y \in Nat
    BY <2>3, <2>10
  <2> HIDE DEF v, x, y
  <2>6. Len(v) = (IF value[1] = "#" THEN 2 ELSE 1)
    <3>1. 1 + Len(v) = y /\ Len(v) \in Nat
      BY <1>1, <2>1, <2>4, <2>5
    <3>2. CASE value[1] = "#"
      <4>1. y = x + 2 /\ x = 1
        BY <2>4, <2>5, <3>2
      <4>3. y = 3
        BY <4>1
      <4>4. 1 + Len(v) = 3
        BY <3>1, <4>3
      <4> DEFINE n == Len(v)
      <4>5. n \in Nat /\ 1 + n = 3
        BY <3>1, <4>4
      <4> HIDE DEF n
      <4>6. n = 2
        BY <4>5
      <4>2. Len(v) = 2
        BY <4>6 DEF n
      <4> QED
        BY <3>2, <4>2
    <3>3. CASE value[1] # "#"
      <4> DEFINE n == Len(v)
      <4>1. y = 2
        BY <2>4, <2>5, <3>3
      <4>2. 1 + n = 2 /\ n \in Nat
        BY <3>1, <4>1
      <4> HIDE DEF n
      <4>3. n = 1
        BY <4>2
      <4> QED
        BY <3>3, <4>3 DEF n
    <3> QED
      BY <3>2, <3>3
  <2>7. to = t + Len(v)
    BY <1>2, <1>4, <1>6, <2>6
  <2>8. ASSUME NEW q \in t .. to - 1 PROVE q \in DOMAIN f /\ f[q] = v[q - t + 1]
    <3>1. CASE value[1] = "#"
      <4>1. q = t \/ q = t + 1
        BY <2>6, <2>7, <3>1
      <4>2. f[t] = v[1] /\ f[t + 1] = v[2] /\ t \in DOMAIN f /\ t + 1 \in DOMAIN f
        BY <1>2, <1>4, <1>6, <2>4, <2>5, <3>1
      <4>3. t - t + 1 = 1 /\ (t + 1) - t + 1 = 2
        OBVIOUS
      <4> QED
        BY <4>1, <4>2, <4>3
    <3>2. CASE value[1] # "#"
      <4>1. q = t
        BY <2>6, <2>7, <3>2
      <4>2. f[t] = v[1] /\ t \in DOMAIN f
        BY <1>2, <1>4, <1>6, <2>4, <2>5, <3>2
      <4>3. t - t + 1 = 1
        OBVIOUS
      <4> QED
        BY <4>1, <4>2, <4>3
    <3> QED
      BY <3>1, <3>2
  <2>9. SubSeq(f, t, to - 1) = v
    BY <1>4, <2>1, <2>7, <2>8, SubSeqIs
  <2> QED
    BY <1>6, <2>9 DEF L, v, to
<1> QED
  BY <1>5, <1>6

-----------------------------------------------------------------------------
(***************************************************************************)
(* What the tables hold for the lines that are done.                       *)
(***************************************************************************)
Defines(in, kind) ==
  {k \in DOMAIN in.lines : in.lines[k].kind = kind /\ (kind = ":" => in.lines[k].name \in Known)}

Earlier(in, n, kind) == {k \in Defines(in, kind) : k < n}

Repeats(in) ==
  {k \in Defines(in, "=") \cup Defines(in, ":") :
     \E j \in 1 .. k - 1 : in.lines[j].kind = in.lines[k].kind
                         /\ in.lines[j].name = in.lines[k].name}

NamesIn(tree) == {tree[at].name : at \in DOMAIN tree}

\* The tables are those of the lines before n, and nothing was defined twice up to there; open are
\* names that have a node, but no value yet.
Accounts(in, tree, table, n, open) ==
  /\ WellFormed(tree)
  /\ NamesIn(tree) = {in.lines[k].name : k \in Earlier(in, n, "=")} \cup open
  /\ \A k \in Earlier(in, n, "=") : Lookup(tree, in.lines[k].name) = in.lines[k].value
  /\ DOMAIN table = {in.lines[k].name : k \in Earlier(in, n, ":")}
  /\ \A k \in Earlier(in, n, ":") : table[in.lines[k].name] = in.lines[k].value
  /\ \A k \in Repeats(in) : n <= k

\* To bind a name adds it to the names, and no other.
LEMMA NamesBind ==
  ASSUME NEW tree, WellFormed(tree), NEW n, NEW v
  PROVE  NamesIn(Bind(tree, n, v)) = NamesIn(tree) \cup {n}
<1> DEFINE s == Slot(tree, n)
           t == Bind(tree, n, v)
<1>1. DOMAIN t = DOMAIN tree \cup {s} /\ t[s].name = n
      /\ \A at \in DOMAIN tree \ {s} : t[at] = tree[at]
  BY DEF Bind
<1>2. s \in DOMAIN tree => tree[s].name = n
  <2>1. IsFiniteSet(DOMAIN tree)
    BY DEF WellFormed
  <2>2. Ends(tree, n, Steps(tree, n))
    BY <2>1, StepsEnd DEF EndsFirst
  <2> QED
    BY <2>2 DEF Ends, Slot, Same
<1> HIDE DEF s, t
<1>3. ASSUME NEW x \in NamesIn(t) PROVE x \in NamesIn(tree) \cup {n}
  <2>1. PICK at \in DOMAIN t : x = t[at].name
    BY DEF NamesIn
  <2>2. CASE at = s
    BY <1>1, <2>1, <2>2
  <2>3. CASE at # s
    BY <1>1, <2>1, <2>3 DEF NamesIn
  <2> QED
    BY <2>2, <2>3
<1>4. ASSUME NEW x \in NamesIn(tree) \cup {n} PROVE x \in NamesIn(t)
  <2>1. CASE x = n
    BY <1>1, <2>1 DEF NamesIn
  <2>2. CASE x # n
    <3>1. PICK at \in DOMAIN tree : x = tree[at].name
      BY <2>2 DEF NamesIn
    <3>2. at # s
      BY <1>2, <2>2, <3>1
    <3> QED
      BY <1>1, <3>1, <3>2 DEF NamesIn
  <2> QED
    BY <2>1, <2>2
<1> QED
  BY <1>3, <1>4 DEF t

\* What has a value is one of the names.
LEMMA Bound ==
  ASSUME NEW tree, WellFormed(tree), NEW n, Lookup(tree, n) # Null
  PROVE  n \in NamesIn(tree)
<1>1. Slot(tree, n) \in DOMAIN tree
  BY DEF Lookup, Has
<1>2. IsFiniteSet(DOMAIN tree)
  BY DEF WellFormed
<1>3. Ends(tree, n, Steps(tree, n))
  BY <1>2, StepsEnd DEF EndsFirst
<1>4. tree[Slot(tree, n)].name = n
  BY <1>1, <1>3 DEF Ends, Slot, Same
<1> QED
  BY <1>1, <1>4 DEF NamesIn

\* Before the first line there is nothing.
LEMMA AccountsInit ==
  ASSUME NEW in \in Input PROVE Accounts(in, NoNodes, <<>>, 1, {})
<1>1. DOMAIN NoNodes = {} /\ DOMAIN <<>> = {}
  BY DEF NoNodes
<1>2. WellFormed(NoNodes) /\ NamesIn(NoNodes) = {}
  <2>1. IsFiniteSet({})
    BY FS_EmptySet
  <2> QED
    BY <1>1, <2>1 DEF WellFormed, NamesIn
<1>3. DOMAIN in.lines = 1 .. Len(in.lines) /\ Len(in.lines) \in Nat
  BY InputTypes
<1>4. Earlier(in, 1, "=") = {} /\ Earlier(in, 1, ":") = {}
  BY <1>3 DEF Earlier, Defines
<1>5. \A k \in Repeats(in) : 1 <= k
  BY <1>3 DEF Repeats, Defines
<1> QED
  BY <1>1, <1>2, <1>4, <1>5 DEF Accounts

\* The next line is one that defines, or not.
LEMMA EarlierMore ==
  ASSUME NEW in \in Input, NEW k \in 1 .. Len(in.lines), NEW kind
  PROVE  Earlier(in, k + 1, kind)
           = Earlier(in, k, kind) \cup (IF k \in Defines(in, kind) THEN {k} ELSE {})
<1>1. DOMAIN in.lines = 1 .. Len(in.lines) /\ Len(in.lines) \in Nat
  BY InputTypes
<1>2. Defines(in, kind) \subseteq 1 .. Len(in.lines)
  BY <1>1 DEF Defines
<1>3. \A j \in Defines(in, kind) : j < k + 1 <=> (j < k \/ j = k)
  BY <1>1, <1>2
<1> QED
  BY <1>3 DEF Earlier

\* If a line is no duplicate, the first duplicate is after it.
LEMMA RepeatsMore ==
  ASSUME NEW in \in Input, NEW k \in 1 .. Len(in.lines), \A j \in Repeats(in) : k <= j,
         k \notin Repeats(in)
  PROVE  \A j \in Repeats(in) : k + 1 <= j
<1>1. DOMAIN in.lines = 1 .. Len(in.lines) /\ Len(in.lines) \in Nat
  BY InputTypes
<1>2. Repeats(in) \subseteq 1 .. Len(in.lines)
  BY <1>1 DEF Repeats, Defines
<1> QED
  BY <1>1, <1>2

\* A line without a definition changes nothing.
LEMMA AccountsMore ==
  ASSUME NEW in \in Input, NEW k \in 1 .. Len(in.lines), NEW tree, NEW table,
         Accounts(in, tree, table, k, {}), in.lines[k].kind \notin {"=", ":"}
  PROVE  Accounts(in, tree, table, k + 1, {})
<1>1. k \notin Defines(in, "=") /\ k \notin Defines(in, ":")
  BY DEF Defines
<1>2. Earlier(in, k + 1, "=") = Earlier(in, k, "=") /\ Earlier(in, k + 1, ":") = Earlier(in, k, ":")
  <2>1. \A kind : Earlier(in, k + 1, kind)
          = Earlier(in, k, kind) \cup (IF k \in Defines(in, kind) THEN {k} ELSE {})
    BY EarlierMore
  <2> QED
    BY <1>1, <2>1
<1>3. k \notin Repeats(in)
  BY <1>1 DEF Repeats
<1>4. \A j \in Repeats(in) : k + 1 <= j
  BY <1>3, RepeatsMore DEF Accounts
<1> QED
  BY <1>2, <1>4 DEF Accounts

\* What an earlier line has defined is found, and what is found an earlier line has defined.
LEMMA RepeatFound ==
  ASSUME NEW in \in Input, NEW k \in 1 .. Len(in.lines), NEW tree, NEW table,
         Accounts(in, tree, table, k, {}), in.lines[k].kind \in {"=", ":"}
  PROVE  LET l == in.lines[k]
         IN  k \in Repeats(in) <=>
               \/ l.kind = "=" /\ Lookup(tree, l.name) # Null
               \/ l.kind = ":" /\ l.name \in DOMAIN table
<1> DEFINE l == in.lines[k]
<1>1. DOMAIN in.lines = 1 .. Len(in.lines) /\ Len(in.lines) \in Nat
      /\ \A j \in 1 .. Len(in.lines) : in.lines[j] \in Line
  BY InputTypes
<1>2. ASSUME k \in Repeats(in)
      PROVE  \/ l.kind = "=" /\ Lookup(tree, l.name) # Null
             \/ l.kind = ":" /\ l.name \in DOMAIN table
  <2>1. PICK j \in 1 .. k - 1 : in.lines[j].kind = l.kind /\ in.lines[j].name = l.name
    BY <1>2 DEF Repeats
  <2>2. k \in Defines(in, l.kind)
    BY <1>2 DEF Repeats, Defines
  <2>3. j \in 1 .. Len(in.lines) /\ j < k
    BY <1>1
  <2>4. j \in Earlier(in, k, l.kind)
    BY <1>1, <2>1, <2>2, <2>3 DEF Earlier, Defines
  <2>5. CASE l.kind = "="
    <3>1. Lookup(tree, l.name) = in.lines[j].value
      BY <2>1, <2>4, <2>5 DEF Accounts
    <3>2. in.lines[j].value \in File
      BY <1>1, <2>3, Types
    <3> QED
      BY <2>5, <3>1, <3>2, NullAssumption
  <2>6. CASE l.kind = ":"
    BY <2>1, <2>4, <2>6 DEF Accounts
  <2> QED
    BY <2>5, <2>6
<1>3. ASSUME NEW kind \in {"=", ":"}, l.kind = kind, NEW j \in Earlier(in, k, kind),
             in.lines[j].name = l.name
      PROVE  k \in Repeats(in)
  <2>1. j \in 1 .. k - 1 /\ in.lines[j].kind = kind
    BY <1>1 DEF Earlier, Defines
  <2>2. kind = ":" => l.name \in Known
    BY <1>3 DEF Earlier, Defines
  <2>3. k \in Defines(in, kind)
    BY <1>1, <1>3, <2>2 DEF Defines
  <2> QED
    BY <1>3, <2>1, <2>3 DEF Repeats
<1>4. ASSUME l.kind = "=", Lookup(tree, l.name) # Null PROVE k \in Repeats(in)
  <2>1. l.name \in NamesIn(tree)
    BY <1>4, Bound DEF Accounts
  <2>2. PICK j \in Earlier(in, k, "=") : in.lines[j].name = l.name
    BY <2>1 DEF Accounts
  <2> QED
    BY <1>3, <1>4, <2>2
<1>5. ASSUME l.kind = ":", l.name \in DOMAIN table PROVE k \in Repeats(in)
  <2>2. PICK j \in Earlier(in, k, ":") : in.lines[j].name = l.name
    BY <1>5 DEF Accounts
  <2> QED
    BY <1>3, <1>5, <2>2
<1> QED
  BY <1>2, <1>4, <1>5

\* A name that is new has a node from then on.
LEMMA AccountsOpen ==
  ASSUME NEW in \in Input, NEW k \in 1 .. Len(in.lines), NEW tree, NEW table,
         Accounts(in, tree, table, k, {}), in.lines[k].kind = "=", k \notin Repeats(in)
  PROVE  Accounts(in, Insert(tree, in.lines[k].name), table, k, {in.lines[k].name})
<1> DEFINE name0 == in.lines[k].name
           t == Bind(tree, name0, Lookup(tree, name0))
<1>1. Insert(tree, name0) = t
  BY DEF Insert
<1>2. WellFormed(tree)
  BY DEF Accounts
<1>3. WellFormed(t)
  BY <1>2, BindWellFormed
<1>4. NamesIn(t) = {in.lines[j].name : j \in Earlier(in, k, "=")} \cup {name0}
  BY <1>2, NamesBind DEF Accounts
<1>5. ASSUME NEW j \in Earlier(in, k, "=")
      PROVE  Lookup(t, in.lines[j].name) = in.lines[j].value
  <2>1. Lookup(tree, in.lines[j].name) = in.lines[j].value
    BY DEF Accounts
  <2>2. CASE in.lines[j].name = name0
    BY <1>2, <2>1, <2>2, BindFound
  <2>3. CASE in.lines[j].name # name0
    BY <1>2, <2>1, <2>3, BindOthers
  <2> QED
    BY <2>2, <2>3
<1> HIDE DEF t, name0
<1> QED
  BY <1>1, <1>3, <1>4, <1>5 DEF Accounts, name0

\* The names of earlier lines are others.
LEMMA OtherNames ==
  ASSUME NEW in \in Input, NEW k \in 1 .. Len(in.lines), NEW kind \in {"=", ":"},
         k \in Defines(in, kind), k \notin Repeats(in), NEW j \in Earlier(in, k, kind)
  PROVE  in.lines[j].name # in.lines[k].name
<1>1. DOMAIN in.lines = 1 .. Len(in.lines) /\ Len(in.lines) \in Nat
  BY InputTypes
<1>2. j \in 1 .. k - 1 /\ in.lines[j].kind = kind /\ in.lines[k].kind = kind
  BY <1>1 DEF Earlier, Defines
<1> QED
  BY <1>2 DEF Repeats

\* The end of a line that defines a variable.
LEMMA AccountsVariable ==
  ASSUME NEW in \in Input, NEW k \in 1 .. Len(in.lines), NEW tree, NEW table,
         in.lines[k].kind = "=", k \notin Repeats(in),
         Accounts(in, tree, table, k, {in.lines[k].name})
  PROVE  Accounts(in, Bind(tree, in.lines[k].name, in.lines[k].value), table, k + 1, {})
<1> DEFINE name0 == in.lines[k].name
           value == in.lines[k].value
           t == Bind(tree, name0, value)
<1>1. k \in Defines(in, "=") /\ k \notin Defines(in, ":")
  BY InputTypes DEF Defines
<1>2. Earlier(in, k + 1, "=") = Earlier(in, k, "=") \cup {k}
      /\ Earlier(in, k + 1, ":") = Earlier(in, k, ":")
  <2>1. \A kind : Earlier(in, k + 1, kind)
          = Earlier(in, k, kind) \cup (IF k \in Defines(in, kind) THEN {k} ELSE {})
    BY EarlierMore
  <2> QED
    BY <1>1, <2>1
<1>3. WellFormed(tree) /\ WellFormed(t)
  BY BindWellFormed DEF Accounts
<1>4. NamesIn(t) = NamesIn(tree) \cup {name0}
  BY <1>3, NamesBind
<1>5. ASSUME NEW j \in Earlier(in, k + 1, "=")
      PROVE  Lookup(t, in.lines[j].name) = in.lines[j].value
  <2>1. CASE j = k
    BY <1>3, <2>1, BindFound
  <2>2. CASE j \in Earlier(in, k, "=")
    <3>1. in.lines[j].name # name0
      BY <1>1, <2>2, OtherNames
    <3>2. Lookup(tree, in.lines[j].name) = in.lines[j].value
      BY <2>2 DEF Accounts
    <3> QED
      BY <1>3, <3>1, <3>2, BindOthers
  <2> QED
    BY <1>2, <2>1, <2>2
<1>6. \A j \in Repeats(in) : k + 1 <= j
  BY RepeatsMore DEF Accounts
<1> HIDE DEF t
<1>7. NamesIn(t) = {in.lines[j].name : j \in Earlier(in, k + 1, "=")} \cup {}
  BY <1>2, <1>4 DEF Accounts
<1> QED
  BY <1>2, <1>3, <1>5, <1>6, <1>7 DEF Accounts, t

\* The end of a line that defines a field, a known one or not.
LEMMA AccountsField ==
  ASSUME NEW in \in Input, NEW k \in 1 .. Len(in.lines), NEW tree, NEW table,
         in.lines[k].kind = ":", k \notin Repeats(in), Accounts(in, tree, table, k, {})
  PROVE  LET l == in.lines[k]
         IN  Accounts(in, tree, IF l.name \in Known THEN Put(table, l.name, l.value) ELSE table,
                      k + 1, {})
<1> DEFINE name0 == in.lines[k].name
           value == in.lines[k].value
           f == Put(table, name0, value)
<1>1. k \notin Defines(in, "=") /\ (k \in Defines(in, ":") <=> name0 \in Known)
  BY InputTypes DEF Defines
<1>2. Earlier(in, k + 1, "=") = Earlier(in, k, "=")
      /\ Earlier(in, k + 1, ":") = Earlier(in, k, ":") \cup (IF name0 \in Known THEN {k} ELSE {})
  <2>1. \A kind : Earlier(in, k + 1, kind)
          = Earlier(in, k, kind) \cup (IF k \in Defines(in, kind) THEN {k} ELSE {})
    BY EarlierMore
  <2> QED
    BY <1>1, <2>1
<1>3. \A j \in Repeats(in) : k + 1 <= j
  BY RepeatsMore DEF Accounts
<1>4. CASE name0 \notin Known
  <2>1. Earlier(in, k + 1, ":") = Earlier(in, k, ":")
    BY <1>2, <1>4
  <2>2. Accounts(in, tree, table, k + 1, {})
    BY <1>2, <1>3, <2>1 DEF Accounts
  <2> QED
    BY <1>4, <2>2
<1>5. CASE name0 \in Known
  <2>1. Earlier(in, k + 1, ":") = Earlier(in, k, ":") \cup {k}
    BY <1>2, <1>5
  <2>2. DOMAIN f = {name0} \cup DOMAIN table /\ f[name0] = value
        /\ \A x \in DOMAIN table : x # name0 => f[x] = table[x]
    BY DEF Put
  <2>3. ASSUME NEW j \in Earlier(in, k + 1, ":")
        PROVE  f[in.lines[j].name] = in.lines[j].value
    <3>1. CASE j = k
      BY <2>2, <3>1
    <3>2. CASE j \in Earlier(in, k, ":")
      <4>1. in.lines[j].name # name0
        BY <1>1, <1>5, <3>2, OtherNames
      <4>2. in.lines[j].name \in DOMAIN table /\ table[in.lines[j].name] = in.lines[j].value
        BY <3>2 DEF Accounts
      <4> QED
        BY <2>2, <4>1, <4>2
    <3> QED
      BY <2>1, <3>1, <3>2
  <2> HIDE DEF f
  <2>4. DOMAIN f = {in.lines[j].name : j \in Earlier(in, k + 1, ":")}
    BY <2>1, <2>2 DEF Accounts
  <2>5. Accounts(in, tree, f, k + 1, {})
    BY <1>2, <1>3, <2>3, <2>4 DEF Accounts
  <2> QED
    BY <1>5, <2>5 DEF f
<1> QED
  BY <1>4, <1>5

-----------------------------------------------------------------------------
(***************************************************************************)
(* Where the parser is in a line.                                          *)
(***************************************************************************)
\* Only white space precedes the line.
LineAt(in, k, i) ==
  /\ i <= Body(in, k)
  /\ \A q \in i .. Body(in, k) - 1 : whitespace(FileOf(in)[q])

\* What is from b up to e is its name, at the last byte of it and after.
NameAt(in, k, i, b, e) ==
  /\ in.lines[k].kind # "comment"
  /\ b = Body(in, k) /\ i >= b
  /\ in.lines[k].kind = "ignored" => i <= StopAt(in, k)
  /\ in.lines[k].kind \in {"=", ":"} =>
       /\ i <= SepAt(in, k)
       /\ i \in b + 1 .. NameEnd(in, k) /\ ~whitespace(FileOf(in)[i-1]) => e = i
       /\ i > NameEnd(in, k) => e = NameEnd(in, k)

\* The start of a line is in front of it.
LEMMA LineBegins ==
  ASSUME NEW in \in Input, NEW k \in 1 .. Len(in.lines) + 1
  PROVE  /\ Start(in, k) \in Nat \ {0} /\ Body(in, k) \in Nat \ {0} /\ LineAt(in, k, Start(in, k))
<1>1. Len(in.lines) \in Nat /\ DOMAIN in.lines = 1 .. Len(in.lines)
  BY InputTypes
<1>2. CASE k \in 1 .. Len(in.lines)
  <2>1. /\ Start(in, k) \in Nat \ {0} /\ Body(in, k) \in Nat /\ Start(in, k) <= Body(in, k)
        /\ \A q \in Start(in, k) .. Body(in, k) - 1 : whitespace(FileOf(in)[q])
    BY <1>2, LineShape, Zenon
  <2> QED
    BY <2>1 DEF LineAt
<1>3. CASE k = Len(in.lines) + 1
  <2>1. Start(in, k) \in Nat \ {0}
    BY FileLines
  <2>2. Body(in, k) = Start(in, k)
    BY <1>1, <1>3 DEF Body
  <2> DEFINE s == Start(in, k)
  <2>3. \A q \in s .. s - 1 : FALSE
    BY <2>1
  <2> QED
    BY <2>1, <2>2, <2>3 DEF LineAt
<1> QED
  BY <1>1, <1>2, <1>3

\* The first byte of a line says if it is a comment.
LEMMA FirstByte ==
  ASSUME NEW in \in Input, NEW k \in 1 .. Len(in.lines)
  PROVE  LET f == FileOf(in)
             b == Body(in, k)
         IN  /\ b \in DOMAIN f /\ ~whitespace(f[b])
             /\ f[b] = "#" <=> in.lines[k].kind = "comment"
<1> DEFINE f == FileOf(in)
           b == Body(in, k)
           s == StopAt(in, k)
<1>1. b \in Nat \ {0} /\ s \in Nat /\ \A q \in b .. s - 1 : q \in DOMAIN f
  BY StopShape, Zenon
<1>2. in.lines[k].kind \in {"=", ":", "ignored", "comment"}
  BY InputTypes, Types
<1>3. CASE in.lines[k].kind = "comment"
  <2>1. b < s /\ f[b] = "#"
    BY <1>3, CommentShape, Zenon
  <2> HIDE DEF f, b, s
  <2>2. b \in DOMAIN f
    BY <1>1, <2>1
  <2> QED
    BY <1>3, <2>1, <2>2 DEF f, b, whitespace
<1>4. CASE in.lines[k].kind = "ignored"
  <2>1. b < s /\ ~whitespace(f[b]) /\ f[b] # "#"
    BY <1>4, IgnoredShape, Zenon
  <2> HIDE DEF f, b, s
  <2>2. b \in DOMAIN f
    BY <1>1, <2>1
  <2> QED
    BY <1>4, <2>1, <2>2 DEF f, b
<1>5. CASE in.lines[k].kind \in {"=", ":"}
  <2>1. /\ NameEnd(in, k) \in Nat /\ SepAt(in, k) \in Nat /\ b < NameEnd(in, k)
        /\ NameEnd(in, k) <= SepAt(in, k) /\ SepAt(in, k) \in DOMAIN f
        /\ ~whitespace(f[b]) /\ f[b] # "#"
    BY <1>5, NameShape, Zenon
  <2>2. DOMAIN f = 1 .. Len(f) /\ Len(f) \in Nat
    BY FileLines DEF File
  <2> HIDE DEF f, b, s
  <2>3. b \in DOMAIN f
    BY <1>1, <2>1, <2>2
  <2> QED
    BY <1>5, <2>1, <2>3 DEF f, b
<1> QED
  BY <1>2, <1>3, <1>4, <1>5

\* In white space, in front of a line, or at the end.
LEMMA LineCases ==
  ASSUME NEW in \in Input, NEW k \in 1 .. Len(in.lines) + 1, NEW i \in Nat \ {0}, LineAt(in, k, i)
  PROVE  LET f == FileOf(in)
         IN  \/ i \in DOMAIN f /\ whitespace(f[i]) /\ LineAt(in, k, i + 1)
             \/ /\ k \in 1 .. Len(in.lines) /\ i = Body(in, k)
                /\ i \in DOMAIN f /\ ~whitespace(f[i])
                /\ f[i] = "#" <=> in.lines[k].kind = "comment"
             \/ k = Len(in.lines) + 1 /\ i = Len(f) + 1
<1> DEFINE f == FileOf(in)
           b == Body(in, k)
           N == Len(in.lines)
<1>1. N \in Nat /\ DOMAIN in.lines = 1 .. N /\ DOMAIN f = 1 .. Len(f) /\ Len(f) \in Nat
  BY InputTypes, FileLines DEF File
<1>2. b \in Nat \ {0}
  BY LineBegins
<1>3. k \in 1 .. N => /\ b \in DOMAIN f /\ ~whitespace(f[b])
                      /\ f[b] = "#" <=> in.lines[k].kind = "comment"
  BY FirstByte
<1>4. k = N + 1 => b = Len(f) + 1
  BY <1>1, FileLines DEF Body
<1>5. i <= b /\ \A q \in i .. b - 1 : whitespace(f[q])
  BY DEF LineAt
<1> HIDE DEF f, b, N
<1>6. k \in 1 .. N \/ k = N + 1
  BY <1>1 DEF N
<1>7. CASE i < b
  <2>1. i \in i .. b - 1 /\ i \in DOMAIN f /\ i + 1 <= b
    BY <1>1, <1>2, <1>3, <1>4, <1>6, <1>7
  <2>2. \A q \in i + 1 .. b - 1 : whitespace(f[q])
    BY <1>2, <1>5
  <2> QED
    BY <1>5, <2>1, <2>2 DEF LineAt, f, b
<1>8. CASE i = b
  <2>1. CASE k \in 1 .. N
    BY <1>3, <1>8, <2>1 DEF f, b, N
  <2>2. CASE k = N + 1
    BY <1>4, <1>8, <2>2 DEF f, b, N
  <2> QED
    BY <1>6, <2>1, <2>2
<1> QED
  BY <1>2, <1>5, <1>7, <1>8

\* The first byte of a line that is no comment starts its name.
LEMMA NameStarts ==
  ASSUME NEW in \in Input, NEW k \in 1 .. Len(in.lines), in.lines[k].kind # "comment"
  PROVE  NameAt(in, k, Body(in, k), Body(in, k), Body(in, k))
<1> DEFINE b == Body(in, k)
<1>1. b \in Nat
  BY StopShape, Zenon
<1>2. in.lines[k].kind = "ignored" => b <= StopAt(in, k)
  <2>1. /\ EolAt(in, k) \in Nat /\ StopAt(in, k) \in Nat
        /\ b <= EolAt(in, k) /\ EolAt(in, k) <= StopAt(in, k)
    BY StopShape, Zenon
  <2> QED
    BY <1>1, <2>1
<1>3. in.lines[k].kind \in {"=", ":"} =>
        /\ NameEnd(in, k) \in Nat /\ SepAt(in, k) \in Nat /\ b < NameEnd(in, k)
        /\ NameEnd(in, k) <= SepAt(in, k)
  BY NameShape
<1> HIDE DEF b
<1>4. b \notin b + 1 .. NameEnd(in, k)
  BY <1>1
<1> QED
  BY <1>1, <1>2, <1>3, <1>4 DEF NameAt, b

\* A byte of the name.
LEMMA NameGoes ==
  ASSUME NEW in \in Input, NEW k \in 1 .. Len(in.lines), NEW i \in Nat, NEW b, NEW e,
         NameAt(in, k, i, b, e), i \in DOMAIN FileOf(in), FileOf(in)[i] \notin Separator
  PROVE  NameAt(in, k, i + 1, b, IF whitespace(FileOf(in)[i]) THEN e ELSE i + 1)
<1> DEFINE f == FileOf(in)
           n == NameEnd(in, k)
           s == SepAt(in, k)
           stop == StopAt(in, k)
           g == IF whitespace(f[i]) THEN e ELSE i + 1
<1>1. /\ stop \in Nat
      /\ stop \notin DOMAIN f \/ f[stop] = "\n"
      /\ b \in Nat /\ b = Body(in, k) /\ i >= b /\ in.lines[k].kind # "comment"
  BY StopShape DEF NameAt
<1>2. CASE in.lines[k].kind = "ignored"
  <2>1. i <= stop /\ i # stop
    BY <1>1, <1>2 DEF NameAt, Separator
  <2>2. i + 1 <= stop /\ i + 1 >= b
    BY <1>1, <2>1
  <2> QED
    BY <1>1, <1>2, <2>2 DEF NameAt
<1>3. CASE in.lines[k].kind \in {"=", ":"}
  <2>1. /\ n \in Nat /\ s \in Nat /\ b < n /\ n <= s /\ s \in DOMAIN f /\ f[s] = in.lines[k].kind
        /\ ~whitespace(f[n - 1])
        /\ \A q \in n .. s - 1 : whitespace(f[q])
    BY <1>1, <1>3, NameShape
  <2>2. /\ i <= s
        /\ i \in b + 1 .. n /\ ~whitespace(f[i-1]) => e = i
        /\ i > n => e = n
    BY <1>3 DEF NameAt
  <2> HIDE DEF f, n, s, g
  <2>3. i # s
    BY <1>3, <2>1 DEF Separator, f
  <2>4. i + 1 <= s /\ i + 1 >= b /\ (i + 1) - 1 = i
    BY <1>1, <2>1, <2>2, <2>3
  <2>5. i + 1 \in b + 1 .. n /\ ~whitespace(f[i]) => g = i + 1
    BY DEF g
  <2>6. i + 1 > n => g = n
    <3> SUFFICES ASSUME i + 1 > n PROVE g = n
      OBVIOUS
    <3>1. i \in n .. s - 1
      BY <2>1, <2>4
    <3>2. g = e
      BY <2>1, <3>1 DEF g
    <3>3. CASE i = n
      <4>1. i \in b + 1 .. n
        BY <1>1, <2>1, <3>3
      <4> QED
        BY <2>1, <2>2, <3>2, <3>3, <4>1
    <3>4. CASE i > n
      BY <2>2, <3>2, <3>4
    <3> QED
      BY <2>1, <3>1, <3>3, <3>4
  <2>7. /\ i + 1 <= s
        /\ i + 1 \in b + 1 .. n /\ ~whitespace(f[(i + 1) - 1]) => g = i + 1
        /\ i + 1 > n => g = n
    BY <2>4, <2>5, <2>6
  <2> QED
    BY <1>1, <1>3, <2>4, <2>7 DEF NameAt, f, n, s, g
<1>4. in.lines[k].kind \in {"=", ":", "ignored"}
  BY <1>1, InputTypes, Types
<1> QED
  BY <1>2, <1>3, <1>4

\* Only a line that is to be ignored ends before there is a separator.
LEMMA NameStops ==
  ASSUME NEW in \in Input, NEW k \in 1 .. Len(in.lines), NEW i \in Nat, NEW b, NEW e,
         NameAt(in, k, i, b, e), i \notin DOMAIN FileOf(in) \/ FileOf(in)[i] = "\n"
  PROVE  in.lines[k].kind = "ignored" /\ i = StopAt(in, k)
<1> DEFINE f == FileOf(in)
           n == NameEnd(in, k)
           s == SepAt(in, k)
           stop == StopAt(in, k)
<1>1. /\ stop \in Nat /\ b \in Nat /\ b = Body(in, k) /\ i >= b /\ in.lines[k].kind # "comment"
      /\ \A q \in b .. stop - 1 : q \in DOMAIN f
  BY StopShape DEF NameAt
<1>2. CASE in.lines[k].kind = "ignored"
  <2>1. i <= stop
    BY <1>2 DEF NameAt
  <2>2. \A q \in b .. stop - 1 : f[q] \notin Separator
    BY <1>1, <1>2, IgnoredShape
  <2>3. i \notin b .. stop - 1
    BY <1>1, <2>2 DEF Separator
  <2> QED
    BY <1>1, <1>2, <2>1, <2>3
<1>3. CASE in.lines[k].kind \in {"=", ":"}
  <2>1. /\ s \in Nat /\ s \in DOMAIN f /\ f[s] = in.lines[k].kind
        /\ \A q \in b .. s - 1 : f[q] \notin Separator
    BY <1>1, <1>3, NameShape
  <2>2. i <= s
    BY <1>3 DEF NameAt
  <2>3. DOMAIN f = 1 .. Len(f) /\ Len(f) \in Nat /\ b \in Nat \ {0}
    <3>1. b \in Nat \ {0}
      BY <1>1, <1>3, NameShape
    <3> QED
      BY <3>1, FileLines DEF File
  <2> HIDE DEF f, s
  <2>4. i \in DOMAIN f
    BY <1>1, <2>1, <2>2, <2>3
  <2>5. f[i] = "\n"
    BY <2>4 DEF f
  <2>6. i \notin b .. s - 1
    BY <2>1, <2>5 DEF Separator
  <2>7. i = s
    BY <1>1, <2>1, <2>2, <2>6
  <2> QED
    BY <1>3, <2>1, <2>5, <2>7
<1>4. in.lines[k].kind \in {"=", ":", "ignored"}
  BY <1>1, InputTypes, Types
<1> QED
  BY <1>2, <1>3, <1>4

\* A separator is the one of the line, and the name in front of it is its name.
LEMMA NameSeparates ==
  ASSUME NEW in \in Input, NEW k \in 1 .. Len(in.lines), NEW i \in Nat, NEW b, NEW e,
         NameAt(in, k, i, b, e), i \in DOMAIN FileOf(in), FileOf(in)[i] \in {"=", ":"}
  PROVE  /\ in.lines[k].kind = FileOf(in)[i] /\ i = SepAt(in, k)
         /\ SubSeq(FileOf(in), b, e - 1) = in.lines[k].name
<1> DEFINE f == FileOf(in)
           n == NameEnd(in, k)
           s == SepAt(in, k)
           stop == StopAt(in, k)
<1>1. /\ stop \in Nat /\ b \in Nat /\ b = Body(in, k) /\ i >= b /\ in.lines[k].kind # "comment"
      /\ stop \notin DOMAIN f \/ f[stop] = "\n"
  BY StopShape DEF NameAt
<1>2. CASE in.lines[k].kind = "ignored"
  <2>1. i <= stop
    BY <1>2 DEF NameAt
  <2>2. \A q \in b .. stop - 1 : f[q] \notin Separator
    BY <1>1, <1>2, IgnoredShape
  <2>3. i \notin b .. stop - 1
    BY <1>1, <2>2 DEF Separator
  <2>4. i = stop
    BY <1>1, <2>1, <2>3
  <2> QED
    BY <1>1, <2>4
<1>3. CASE in.lines[k].kind \in {"=", ":"}
  <2>1. /\ n \in Nat /\ s \in Nat /\ b < n /\ n <= s /\ f[s] = in.lines[k].kind
        /\ ~whitespace(f[n - 1])
        /\ \A q \in b .. s - 1 : f[q] \notin Separator
        /\ SubSeq(f, b, n - 1) = in.lines[k].name
    BY <1>1, <1>3, NameShape
  <2>2. /\ i <= s
        /\ i \in b + 1 .. n /\ ~whitespace(f[i-1]) => e = i
        /\ i > n => e = n
    BY <1>3 DEF NameAt
  <2>3. i \notin b .. s - 1
    BY <2>1 DEF Separator
  <2> HIDE DEF f, n, s
  <2>4. i = s
    BY <1>1, <2>1, <2>2, <2>3
  <2>5. e = n
    <3>1. CASE s = n
      <4>1. i \in b + 1 .. n
        BY <1>1, <2>1, <2>4, <3>1
      <4> QED
        BY <2>1, <2>2, <2>4, <3>1, <4>1
    <3>2. CASE s > n
      BY <2>2, <2>4, <3>2
    <3> QED
      BY <2>1, <3>1, <3>2
  <2> QED
    BY <2>1, <2>4, <2>5 DEF f, n, s
<1>4. in.lines[k].kind \in {"=", ":", "ignored"}
  BY <1>1, InputTypes, Types
<1> QED
  BY <1>2, <1>3, <1>4

\* From the end of the value on, there were only blanks.
AfterText(in, k, i) ==
  /\ i \in TrailAt(in, k) .. StopAt(in, k)
  /\ \A q \in TrailAt(in, k) .. i - 1 : FileOf(in)[q] \in Blank

\* Before the value, or in the blanks that follow if there is none.
LeadAt(in, k, i) ==
  \/ i \in PostAt(in, k) .. TextAt(in, k) /\ ClearAt(in, k, i)
  \/ in.lines[k].value = <<>> /\ AfterText(in, k, i)

Solid(c) == ~whitespace(c) /\ c # "\\"

Hashless(value, n) == \A i \in 1 .. n : value[i] # "#"

FromAt(in, k, j) == ByteFrom(in.lines[k].value, in.lines[k].style.joint, TextAt(in, k), j)
ToAt(in, k, j)   == ByteTo(in.lines[k].value, in.lines[k].style.joint, TextAt(in, k), j)

\* At the j-th byte of the value; e is where the last one ended that was no blank.
ByteAt(in, k, i, e, c, j) ==
  LET value == in.lines[k].value
      joint == in.lines[k].style.joint
  IN  /\ i = FromAt(in, k, j)
      /\ j # 1 /\ Solid(value[j-1]) => e = ToAt(in, k, j - 1)
      /\ ~c => Hashless(value, j - 1) /\ (j # 1 => joint = <<>>)

\* At the line end that is joined.
JointAt(in, k, i, e, c) ==
  LET value == in.lines[k].value
      joint == in.lines[k].style.joint
  IN  /\ value # <<>> /\ joint # <<>>
      /\ i = ToAt(in, k, 1)
      /\ Solid(value[1]) => e = i
      /\ ~c => value[1] # "#"

\* After the value.
TrailsAt(in, k, i, e, c) ==
  LET value == in.lines[k].value
      joint == in.lines[k].style.joint
  IN  /\ value # <<>> /\ AfterText(in, k, i)
      /\ e = ToAt(in, k, Len(value))
      /\ ~c => Hashless(value, Len(value)) /\ joint = <<>>

\* There is no value.
NothingAt(in, k, i, e) ==
  /\ in.lines[k].value = <<>> /\ AfterText(in, k, i)
  /\ e = i
  /\ i \notin DOMAIN FileOf(in) \/ FileOf(in)[i] \in {"\n", "#"}

ValueAt(in, k, i, b, e, c) ==
  /\ b = (IF in.lines[k].value = <<>> THEN i ELSE TextAt(in, k))
  /\ \/ \E j \in 1 .. Len(in.lines[k].value) : ByteAt(in, k, i, e, c, j)
     \/ JointAt(in, k, i, e, c)
     \/ TrailsAt(in, k, i, e, c)
     \/ NothingAt(in, k, i, e)

-----------------------------------------------------------------------------
\* A definition, its value and how it is written.
LEMMA DefinitionText ==
  ASSUME NEW in \in Input, NEW k \in 1 .. Len(in.lines), in.lines[k].kind \in {"=", ":"}
  PROVE  LET value == in.lines[k].value
             joint == in.lines[k].style.joint
         IN  /\ value \in File /\ ValueText(value) /\ joint \in Joint \cup {<<>>} /\ joint \in File
             /\ FileOf(in) \in Seq(Byte)
             /\ TextAt(in, k) \in Nat \ {0} /\ PostAt(in, k) \in Nat \ {0}
             /\ PostAt(in, k) <= TextAt(in, k)
             /\ Lies(FileOf(in), TextAt(in, k), Written(value, joint))
             /\ TrailAt(in, k) = TextAt(in, k) + Len(Written(value, joint))
             /\ Len(value) \in Nat /\ value # <<>> <=> Len(value) # 0
<1> DEFINE l == in.lines[k]
<1>1. l \in Line
  BY InputTypes
<1>2. l.value \in File /\ ValueText(l.value)
  BY <1>1 DEF Line
<1>3. l.style.joint \in Joint \cup {<<>>} /\ l.style.joint \in File
  BY <1>1, Types DEF Style
<1>4. /\ SepAt(in, k) \in Nat /\ TextAt(in, k) \in Nat /\ PostAt(in, k) \in Nat
      /\ PostAt(in, k) <= TextAt(in, k)
      /\ Lies(FileOf(in), TextAt(in, k), Written(l.value, l.style.joint))
  BY DefinitionShape, Zenon
<1>5. PostAt(in, k) \in Nat \ {0} /\ TextAt(in, k) \in Nat \ {0}
  BY <1>4 DEF PostAt
<1>6. Len(l.value) \in Nat /\ (l.value # <<>> <=> Len(l.value) # 0)
  BY <1>2 DEF File
<1>7. FileOf(in) \in Seq(Byte)
  BY FileLines DEF File
<1> QED
  BY <1>2, <1>3, <1>4, <1>5, <1>6, <1>7 DEF TrailAt

\* The j-th byte of a value, how it is written and what follows.
LEMMA ByteShape ==
  ASSUME NEW in \in Input, NEW k \in 1 .. Len(in.lines), in.lines[k].kind \in {"=", ":"},
         NEW j \in 1 .. Len(in.lines[k].value)
  PROVE  LET value == in.lines[k].value
             joint == in.lines[k].style.joint
             f     == FileOf(in)
             from  == FromAt(in, k, j)
             to    == ToAt(in, k, j)
         IN  /\ from \in Nat \ {0} /\ to \in Nat \ {0}
             /\ from \in DOMAIN f /\ f[from] = (IF value[j] = "#" THEN "\\" ELSE value[j])
             /\ value[j] = "#" => f[from + 1] = "#" /\ from + 1 \in DOMAIN f /\ to = from + 2
             /\ value[j] # "#" => to = from + 1
             /\ j = 1 => Lies(f, to, joint)
             /\ j = 1 => FromAt(in, k, j + 1) = to + Len(joint)
             /\ j # 1 => FromAt(in, k, j + 1) = to
             /\ escaped(f, from) = 0
             /\ value[j] = "\\" => from + 1 \in DOMAIN f /\ f[from + 1] # "#"
             /\ value[j] # "\n"
<1> DEFINE value == in.lines[k].value
           joint == in.lines[k].style.joint
           f     == FileOf(in)
           t     == TextAt(in, k)
           from  == ByteFrom(value, joint, t, j)
           to    == ByteTo(value, joint, t, j)
<1>1. /\ value \in File /\ ValueText(value) /\ joint \in Joint \cup {<<>>} /\ joint \in File
      /\ f \in Seq(Byte) /\ t \in Nat \ {0} /\ Lies(f, t, Written(value, joint))
  BY DefinitionText, Zenon
<1>2. j \in 1 .. Len(value)
  OBVIOUS
<1> HIDE DEF value, joint, f, t
<1>3. /\ from \in Nat \ {0} /\ to \in Nat
      /\ from \in DOMAIN f /\ f[from] = (IF value[j] = "#" THEN "\\" ELSE value[j])
      /\ value[j] = "#" => f[from + 1] = "#" /\ from + 1 \in DOMAIN f /\ to = from + 2
      /\ value[j] # "#" => to = from + 1
      /\ j = 1 => Lies(f, to, joint)
      /\ j = 1 => ByteFrom(value, joint, t, j + 1) = to + Len(joint)
      /\ j # 1 => ByteFrom(value, joint, t, j + 1) = to
  <2>1. from \in Nat \ {0}
    <3>1. j \in 1 .. Len(value) + 1
      BY <1>1, <1>2 DEF File
    <3>2. \A i \in 1 .. Len(value) + 1 : ByteFrom(value, joint, t, i) \in Nat \ {0}
      BY <1>1, ValueShape, Zenon
    <3> QED
      BY <3>1, <3>2
  <2> QED
    BY <1>1, <1>2, <2>1, ValueShape
<1>4. /\ escaped(f, from) = 0
      /\ value[j] = "\\" => from + 1 \in DOMAIN f /\ f[from + 1] # "#"
      /\ value[j] # "\n"
  BY <1>1, <1>2, ValueEscapes
<1> HIDE DEF from, to
<1>5. to \in Nat \ {0}
  BY <1>3
<1> QED
  BY <1>3, <1>4, <1>5 DEF FromAt, ToAt, value, joint, f, t, from, to

\* The first byte and the one after the last.
LEMMA EndsShape ==
  ASSUME NEW in \in Input, NEW k \in 1 .. Len(in.lines), in.lines[k].kind \in {"=", ":"}
  PROVE  /\ FromAt(in, k, 1) = TextAt(in, k)
         /\ FromAt(in, k, Len(in.lines[k].value) + 1) = TrailAt(in, k)
<1> DEFINE value == in.lines[k].value
           joint == in.lines[k].style.joint
           f     == FileOf(in)
           t     == TextAt(in, k)
<1>1. /\ value \in File /\ joint \in File /\ f \in Seq(Byte) /\ t \in Nat \ {0}
      /\ Lies(f, t, Written(value, joint))
      /\ TrailAt(in, k) = t + Len(Written(value, joint))
  BY DefinitionText, Zenon
<1> HIDE DEF value, joint, f, t
<1>2. ByteFrom(value, joint, t, 1) = t
      /\ ByteFrom(value, joint, t, Len(value) + 1) = t + Len(Written(value, joint))
  BY <1>1, ValueShape
<1> QED
  BY <1>1, <1>2 DEF FromAt, value, joint, f, t

\* The end of a value is after it.
LEMMA AfterStarts ==
  ASSUME NEW in \in Input, NEW k \in 1 .. Len(in.lines), in.lines[k].kind \in {"=", ":"}
  PROVE  AfterText(in, k, TrailAt(in, k))
<1> DEFINE t == TrailAt(in, k)
<1>1. t \in Nat \ {0} /\ t <= StopAt(in, k)
  BY TrailShape, Zenon
<1>2. StopAt(in, k) \in Nat
  BY StopShape, Zenon
<1> HIDE DEF t
<1>3. t \in t .. StopAt(in, k) /\ \A q \in t .. t - 1 : FALSE
  BY <1>1, <1>2
<1> QED
  BY <1>3 DEF AfterText, t

\* After a value, there is a blank, a comment or the end of the line.
LEMMA AfterCases ==
  ASSUME NEW in \in Input, NEW k \in 1 .. Len(in.lines), in.lines[k].kind \in {"=", ":"},
         NEW i, AfterText(in, k, i)
  PROVE  LET f == FileOf(in)
         IN  /\ i \in Nat \ {0} /\ escaped(f, i) = 0
             /\ \A q \in i .. StopAt(in, k) - 1 : f[q] # "\n"
             /\ \/ i \in DOMAIN f /\ f[i] \in Blank /\ AfterText(in, k, i + 1)
                \/ i \in DOMAIN f /\ f[i] = "#" /\ i < StopAt(in, k)
                \/ i = StopAt(in, k) /\ i \in DOMAIN f /\ f[i] = "\n"
                \/ i = StopAt(in, k) /\ i \notin DOMAIN f
<1> DEFINE f == FileOf(in)
           t == TrailAt(in, k)
           s == StopAt(in, k)
<1>1. /\ t \in Nat \ {0} /\ t <= s
      /\ \A q \in t .. s - 1 : q \in DOMAIN f /\ f[q] # "\n"
      /\ \A q \in t .. s - 1 : (\A r \in t .. q - 1 : f[r] \in Blank) => f[q] \in Blank \cup {"#"}
  BY TrailShape, Zenon
<1>2. s \in Nat /\ (s \notin DOMAIN f \/ (s \in DOMAIN f /\ f[s] = "\n"))
  BY StopShape
<1>3. i \in t .. s /\ \A q \in t .. i - 1 : f[q] \in Blank
  BY DEF AfterText
<1> HIDE DEF f, t, s
<1>4. i \in Nat \ {0} /\ \A q \in i .. s - 1 : f[q] # "\n"
  BY <1>1, <1>2, <1>3
<1>5. CASE i = s
  <2>1. escaped(f, i) = 0
    <3>1. CASE s \in DOMAIN f /\ f[s] = "\n"
      BY <1>5, <3>1 DEF escaped
    <3>2. CASE s \notin DOMAIN f
      <4>1. f \in Seq(Byte)
        BY FileLines DEF File, f
      <4>2. DOMAIN f = 1 .. Len(f) /\ Len(f) \in Nat
        BY <4>1
      <4>3. i + 1 \notin DOMAIN f /\ i + 2 \notin DOMAIN f
        BY <1>4, <1>5, <3>2, <4>2
      <4> QED
        BY <4>3 DEF escaped
    <3> QED
      BY <1>2, <3>1, <3>2
  <2> QED
    BY <1>2, <1>4, <1>5, <2>1 DEF f, s
<1>6. CASE i # s
  <2>1. i \in t .. s - 1 /\ i < s /\ i + 1 \in t .. s
    BY <1>1, <1>2, <1>3, <1>6
  <2>2. i \in DOMAIN f /\ f[i] \in Blank \cup {"#"}
    BY <1>1, <1>3, <2>1
  <2>3. escaped(f, i) = 0
    BY <2>2 DEF escaped, Blank
  <2>4. CASE f[i] \in Blank
    <3>1. \A q \in t .. (i + 1) - 1 : q = i \/ q \in t .. i - 1
      BY <1>1, <1>4
    <3>2. \A q \in t .. (i + 1) - 1 : f[q] \in Blank
      BY <1>3, <2>4, <3>1
    <3>3. AfterText(in, k, i + 1)
      BY <2>1, <3>2 DEF AfterText, f, t, s
    <3> QED
      BY <1>4, <2>2, <2>3, <2>4, <3>3 DEF f, s
  <2>5. CASE f[i] = "#"
    BY <1>4, <2>1, <2>2, <2>3, <2>5 DEF f, s
  <2> QED
    BY <2>2, <2>4, <2>5
<1> QED
  BY <1>5, <1>6

-----------------------------------------------------------------------------
\* What is after the separator precedes the value.
LEMMA LeadStarts ==
  ASSUME NEW in \in Input, NEW k \in 1 .. Len(in.lines), in.lines[k].kind \in {"=", ":"}
  PROVE  LeadAt(in, k, SepAt(in, k) + 1)
<1>1. ClearAt(in, k, PostAt(in, k))
  BY PostShape, Zenon
<1>2. PostAt(in, k) \in Nat \ {0} /\ TextAt(in, k) \in Nat \ {0} /\ PostAt(in, k) <= TextAt(in, k)
  BY DefinitionText, Zenon
<1>3. PostAt(in, k) \in PostAt(in, k) .. TextAt(in, k)
  BY <1>2
<1>4. SepAt(in, k) + 1 = PostAt(in, k)
  BY DEF PostAt
<1> QED
  BY <1>1, <1>3, <1>4 DEF LeadAt

\* Before a value, there is a blank or an escape, and then what the value says.
LEMMA LeadCases ==
  ASSUME NEW in \in Input, NEW k \in 1 .. Len(in.lines), in.lines[k].kind \in {"=", ":"},
         NEW i, LeadAt(in, k, i)
  PROVE  LET f == FileOf(in)
         IN  /\ i \in Nat \ {0}
             /\ \/ i \in DOMAIN f /\ f[i] \in Blank /\ LeadAt(in, k, i + 1)
                \/ /\ i \in DOMAIN f /\ f[i] = "\\" /\ escaped(f, i) \in {2, 3}
                   /\ LeadAt(in, k, i + escaped(f, i))
                \/ /\ i \notin DOMAIN f \/ f[i] \notin Blank
                   /\ escaped(f, i) = 0
                   /\ ValueAt(in, k, i, i, i, FALSE)
<1> DEFINE f == FileOf(in)
           value == in.lines[k].value
           joint == in.lines[k].style.joint
           t == TextAt(in, k)
           po == PostAt(in, k)
<1>1. /\ value \in File /\ ValueText(value) /\ f \in Seq(Byte) /\ t \in Nat \ {0}
      /\ po \in Nat \ {0} /\ po <= t
      /\ TrailAt(in, k) = t + Len(Written(value, joint))
      /\ Len(value) \in Nat /\ (value # <<>> <=> Len(value) # 0)
  <2>1. /\ value \in File /\ ValueText(value) /\ f \in Seq(Byte) /\ t \in Nat \ {0}
        /\ po \in Nat \ {0} /\ po <= t
        /\ TrailAt(in, k) = t + Len(Written(value, joint))
    BY DefinitionText, Zenon
  <2>2. Len(value) \in Nat /\ (value # <<>> <=> Len(value) # 0)
    BY DefinitionText
  <2> QED
    BY <2>1, <2>2
<1>2. CASE i \in po .. t - 1 /\ ClearAt(in, k, i)
  <2>1. /\ i \in DOMAIN f
        /\ \/ f[i] \in Blank /\ ClearAt(in, k, i + 1)
           \/ f[i] = "\\" /\ escaped(f, i) \in {2, 3} /\ ClearAt(in, k, i + escaped(f, i))
    BY <1>2, PostShape
  <2>2. i \in Nat \ {0} /\ i + 1 \in po .. t
    BY <1>1, <1>2
  <2>3. CASE f[i] \in Blank /\ ClearAt(in, k, i + 1)
    BY <2>1, <2>2, <2>3 DEF LeadAt
  <2>4. CASE f[i] = "\\" /\ escaped(f, i) \in {2, 3} /\ ClearAt(in, k, i + escaped(f, i))
    <3> DEFINE n == escaped(f, i)
    <3>1. (i + n) - po + 1 \in 1 .. Len(in.lines[k].style.post) + 1 /\ n \in {2, 3}
      BY <2>4 DEF ClearAt, Clear
    <3>2. t = po + Len(in.lines[k].style.post)
      BY DEF TextAt
    <3> HIDE DEF n
    <3>3. i + n \in po .. t
      <4> DEFINE c == Len(in.lines[k].style.post)
      <4>1. (i + n) - po + 1 \in 1 .. c + 1 /\ t = po + c /\ n \in Nat /\ c \in Int
        <5>1. in.lines[k].style.post \in Seq(Byte)
          BY InputTypes, Types DEF File
        <5> QED
          BY <3>1, <3>2, <5>1
      <4>2. i \in Nat /\ po \in Nat /\ t \in Nat
        BY <1>1, <2>2
      <4> HIDE DEF c, t, po
      <4> QED
        BY <4>1, <4>2
    <3>4. LeadAt(in, k, i + n)
      BY <2>4, <3>3 DEF LeadAt, n
    <3> QED
      BY <2>1, <2>2, <2>4, <3>4 DEF n
  <2> QED
    BY <2>1, <2>3, <2>4
<1>3. CASE i = t /\ value # <<>>
  <2>1. 1 \in 1 .. Len(value)
    BY <1>1, <1>3
  <2>2. FromAt(in, k, 1) = i
    BY <1>3, EndsShape
  <2>8. /\ f[FromAt(in, k, 1)] = (IF value[1] = "#" THEN "\\" ELSE value[1])
        /\ escaped(f, FromAt(in, k, 1)) = 0
    BY <2>1, ByteShape
  <2>3. f[i] = (IF value[1] = "#" THEN "\\" ELSE value[1]) /\ escaped(f, i) = 0
    BY <2>2, <2>8
  <2>4. ~whitespace(value[1])
    BY <1>1, <1>3 DEF ValueText
  <2>5. f[i] \notin Blank
    BY <2>3, <2>4 DEF Blank, whitespace
  <2>6. ByteAt(in, k, i, i, FALSE, 1)
    <3>1. \A q \in 1 .. 1 - 1 : FALSE
      OBVIOUS
    <3> QED
      BY <2>2, <3>1 DEF ByteAt, Hashless
  <2>7. ValueAt(in, k, i, i, i, FALSE)
    BY <1>3, <2>1, <2>6 DEF ValueAt
  <2> QED
    BY <1>1, <1>3, <2>3, <2>5, <2>7
<1>4. CASE value = <<>> /\ AfterText(in, k, i)
  <2>1. /\ i \in Nat \ {0} /\ escaped(f, i) = 0
        /\ \/ i \in DOMAIN f /\ f[i] \in Blank /\ AfterText(in, k, i + 1)
           \/ i \in DOMAIN f /\ f[i] = "#"
           \/ i \in DOMAIN f /\ f[i] = "\n"
           \/ i \notin DOMAIN f
    BY <1>4, AfterCases
  <2>2. CASE i \in DOMAIN f /\ f[i] \in Blank /\ AfterText(in, k, i + 1)
    BY <1>4, <2>1, <2>2 DEF LeadAt
  <2>3. CASE i \notin DOMAIN f \/ f[i] \in {"#", "\n"}
    <3>1. i \notin DOMAIN f \/ f[i] \notin Blank
      BY <2>3 DEF Blank
    <3>2. NothingAt(in, k, i, i)
      BY <1>4, <2>3 DEF NothingAt
    <3>3. ValueAt(in, k, i, i, i, FALSE)
      BY <1>4, <3>2 DEF ValueAt
    <3> QED
      BY <2>1, <3>1, <3>3
  <2> QED
    BY <2>1, <2>2, <2>3
<1>5. CASE i = t /\ value = <<>>
  <2>1. Written(value, joint) = <<>>
    BY <1>5 DEF Written, FlattenSeq
  <2>2. TrailAt(in, k) = t
    BY <1>1, <2>1
  <2>3. AfterText(in, k, i)
    BY <1>5, <2>2, AfterStarts
  <2> QED
    BY <1>4, <1>5, <2>3
<1>6. \/ i \in po .. t - 1 /\ ClearAt(in, k, i)
      \/ i = t
      \/ value = <<>> /\ AfterText(in, k, i)
  <2>1. \/ i \in po .. t /\ ClearAt(in, k, i)
        \/ value = <<>> /\ AfterText(in, k, i)
    BY DEF LeadAt
  <2>2. i \in po .. t => i \in po .. t - 1 \/ i = t
    BY <1>1
  <2> QED
    BY <2>1, <2>2
<1> QED
  BY <1>2, <1>3, <1>4, <1>5, <1>6

\* After the j-th byte: at the next one, at the line end that is joined, or after the value.
LEMMA ByteDone ==
  ASSUME NEW in \in Input, NEW k \in 1 .. Len(in.lines), in.lines[k].kind \in {"=", ":"},
         NEW j \in 1 .. Len(in.lines[k].value), NEW e, NEW c,
         Solid(in.lines[k].value[j]) => e = ToAt(in, k, j),
         ~c => Hashless(in.lines[k].value, j) /\ (j # 1 => in.lines[k].style.joint = <<>>)
  PROVE  ValueAt(in, k, ToAt(in, k, j), TextAt(in, k), e, c)
<1> DEFINE value == in.lines[k].value
           joint == in.lines[k].style.joint
           i == ToAt(in, k, j)
<1>1. /\ value \in File /\ ValueText(value) /\ Len(value) \in Nat
      /\ value # <<>>
  BY DefinitionText
<1>2. /\ j = 1 => FromAt(in, k, j + 1) = i + Len(joint)
      /\ j # 1 => FromAt(in, k, j + 1) = i
      /\ i \in Nat \ {0}
  BY ByteShape
<1>3. CASE j = 1 /\ joint # <<>>
  <2>1. ~c => value[1] # "#"
    BY <1>3 DEF Hashless
  <2>2. JointAt(in, k, i, e, c)
    BY <1>1, <1>3, <2>1 DEF JointAt
  <2> QED
    BY <1>1, <2>2 DEF ValueAt
<1>4. CASE ~(j = 1 /\ joint # <<>>)
  <2>1. FromAt(in, k, j + 1) = i
    <3>1. CASE j # 1
      BY <1>2, <3>1
    <3>2. CASE j = 1
      <4>1. Len(joint) = 0 /\ FromAt(in, k, j + 1) = i + Len(joint) /\ i \in Nat \ {0}
        <5>1. joint = <<>>
          BY <1>4, <3>2
        <5>2. Len(joint) = 0
          BY <5>1
        <5> QED
          BY <1>2, <3>2, <5>2
      <4> DEFINE m == Len(joint)
                 q == FromAt(in, k, j + 1)
      <4>2. m = 0 /\ q = i + m /\ i \in Nat
        BY <4>1
      <4> HIDE DEF m, q, i
      <4>3. q = i
        BY <4>2
      <4> QED
        BY <4>3 DEF q
    <3> QED
      BY <3>1, <3>2
  <2>2. ~c => Hashless(value, j) /\ joint = <<>>
    BY <1>4
  <2>3. CASE j = Len(value)
    <3>1. Solid(value[j])
      BY <1>1, <2>3 DEF Solid, ValueText
    <3>2. AfterText(in, k, i)
      <4>1. i = TrailAt(in, k)
        BY <2>1, <2>3, EndsShape
      <4> QED
        BY <4>1, AfterStarts
    <3>3. TrailsAt(in, k, i, e, c)
      BY <1>1, <2>2, <2>3, <3>1, <3>2 DEF TrailsAt
    <3> QED
      BY <1>1, <3>3 DEF ValueAt
  <2>4. CASE j # Len(value)
    <3>1. j + 1 \in 1 .. Len(value) /\ j + 1 # 1 /\ (j + 1) - 1 = j
      BY <1>1, <2>4
    <3>2. ByteAt(in, k, i, e, c, j + 1)
      BY <2>1, <2>2, <3>1 DEF ByteAt
    <3> QED
      BY <1>1, <3>1, <3>2 DEF ValueAt
  <2> QED
    BY <2>3, <2>4
<1> QED
  BY <1>3, <1>4

\* After the line end that is joined: at the second byte, or after the value.
LEMMA JointDone ==
  ASSUME NEW in \in Input, NEW k \in 1 .. Len(in.lines), in.lines[k].kind \in {"=", ":"},
         NEW i, NEW e, NEW c, JointAt(in, k, i, e, c)
  PROVE  LET f == FileOf(in)
         IN  /\ i \in Nat \ {0} /\ i \in DOMAIN f /\ f[i] = "\\"
             /\ i + 1 \in DOMAIN f /\ f[i + 1] # "#" /\ escaped(f, i) > 0
             /\ ValueAt(in, k, i + escaped(f, i), TextAt(in, k), e, TRUE)
<1> DEFINE value == in.lines[k].value
           joint == in.lines[k].style.joint
           f == FileOf(in)
<1>1. /\ value \in File /\ ValueText(value) /\ Len(value) \in Nat /\ value # <<>>
      /\ Len(value) # 0 /\ joint \in Joint /\ f \in Seq(Byte)
      /\ i = ToAt(in, k, 1) /\ (Solid(value[1]) => e = i)
  <2>1. /\ value # <<>> /\ joint # <<>>
        /\ i = ToAt(in, k, 1) /\ (Solid(value[1]) => e = i)
    BY DEF JointAt
  <2>2. /\ value \in File /\ ValueText(value) /\ joint \in Joint \cup {<<>>} /\ f \in Seq(Byte)
        /\ Len(value) \in Nat /\ (value # <<>> <=> Len(value) # 0)
    BY DefinitionText
  <2> HIDE DEF value, joint, f
  <2> QED
    BY <2>1, <2>2
<1>2. 1 \in 1 .. Len(value)
  BY <1>1
<1>3. i \in Nat \ {0} /\ Lies(f, i, joint) /\ FromAt(in, k, 1 + 1) = i + Len(joint)
  <2>1. ASSUME NEW j \in 1 .. Len(value), j = 1
        PROVE  /\ ToAt(in, k, j) \in Nat \ {0} /\ Lies(f, ToAt(in, k, j), joint)
               /\ FromAt(in, k, j + 1) = ToAt(in, k, j) + Len(joint)
    <3>1. ToAt(in, k, j) \in Nat \ {0}
      BY ByteShape, SMTT(30)
    <3>2. j = 1 => Lies(f, ToAt(in, k, j), joint)
      BY ByteShape, SMTT(30)
    <3>3. j = 1 => FromAt(in, k, j + 1) = ToAt(in, k, j) + Len(joint)
      BY ByteShape, SMTT(30)
    <3> QED
      BY <2>1, <3>1, <3>2, <3>3
  <2> QED
    BY <1>1, <1>2, <2>1
<1>4. /\ i \in DOMAIN f /\ f[i] = "\\" /\ i + 1 \in DOMAIN f /\ f[i + 1] # "#"
      /\ escaped(f, i) = Len(joint) /\ Len(joint) \in Nat /\ Len(joint) > 0
  BY <1>1, <1>3, JointEscape
<1> DEFINE n == i + escaped(f, i)
<1>5. FromAt(in, k, 1 + 1) = n
  BY <1>3, <1>4
<1>6. ValueAt(in, k, n, TextAt(in, k), e, TRUE)
  <2> HIDE DEF n
  <2>1. CASE Len(value) = 1
    <3>1. n = TrailAt(in, k)
      BY <1>5, <2>1, EndsShape
    <3>2. AfterText(in, k, n)
      BY <3>1, AfterStarts
    <3>3. Solid(value[1])
      BY <1>1, <2>1 DEF Solid, ValueText
    <3>4. TrailsAt(in, k, n, e, TRUE)
      BY <1>1, <2>1, <3>2, <3>3 DEF TrailsAt
    <3> QED
      BY <1>1, <3>4 DEF ValueAt
  <2>2. CASE Len(value) # 1
    <3>1. 1 + 1 \in 1 .. Len(value) /\ 1 + 1 # 1 /\ (1 + 1) - 1 = 1
      <4> DEFINE L == Len(value)
      <4>1. L \in Nat /\ L # 0 /\ L # 1
        BY <1>1, <2>2
      <4> HIDE DEF L
      <4>2. 1 + 1 \in 1 .. L /\ 1 + 1 # 1 /\ (1 + 1) - 1 = 1
        BY <4>1
      <4> QED
        BY <4>2 DEF L
    <3>2. ByteAt(in, k, n, e, TRUE, 1 + 1)
      BY <1>1, <1>5, <3>1 DEF ByteAt
    <3> QED
      BY <1>1, <3>1, <3>2 DEF ValueAt
  <2> QED
    BY <2>1, <2>2
<1> QED
  BY <1>3, <1>4, <1>6

\* What EndValue takes for the value is the value.
ReadAt(in, k, b, e, c) ==
  LET span == SubSeq(FileOf(in), b, e - 1)
  IN  (IF c THEN stripescapes(span) ELSE span) = in.lines[k].value

\* What was read up to the end of a value is the value.
LEMMA TextRead ==
  ASSUME NEW in \in Input, NEW k \in 1 .. Len(in.lines), in.lines[k].kind \in {"=", ":"},
         NEW i, NEW e, NEW c, TrailsAt(in, k, i, e, c)
  PROVE  ReadAt(in, k, TextAt(in, k), e, c)
<1> DEFINE value == in.lines[k].value
           joint == in.lines[k].style.joint
           kept  == IF Len(value) = 1 THEN <<>> ELSE joint
           f == FileOf(in)
           t == TextAt(in, k)
<1>1. /\ value \in File /\ ValueText(value) /\ value # <<>> /\ f \in Seq(Byte) /\ t \in Nat \ {0}
      /\ joint \in Joint \cup {<<>>} /\ Lies(f, t, Written(value, joint))
      /\ e = ByteTo(value, joint, t, Len(value))
      /\ ~c => Hashless(value, Len(value)) /\ joint = <<>>
  BY DefinitionText DEF TrailsAt, ToAt
<1> HIDE DEF value, joint, f, t
<1>2. SubSeq(f, t, e - 1) = Written(value, kept)
  BY <1>1, SpanIs
<1>3. kept \in Joint \cup {<<>>} /\ (Len(value) = 1 => kept = <<>>)
  BY <1>1
<1> HIDE DEF kept
<1>4. stripescapes(Written(value, kept)) = value
  BY <1>1, <1>3, StripWritten
<1>5. ~c => Written(value, kept) = value
  <2> SUFFICES ASSUME ~c PROVE Written(value, kept) = value
    OBVIOUS
  <2>1. kept = <<>> /\ \A n \in 1 .. Len(value) : value[n] # "#"
    BY <1>1 DEF kept, Hashless
  <2> QED
    BY <1>1, <2>1, PlainWritten
<1> QED
  BY <1>2, <1>4, <1>5 DEF ReadAt, f, t, value

\* And so it is if there is none.
LEMMA NothingRead ==
  ASSUME NEW in, NEW k, in.lines[k].value = <<>>, NEW i \in Nat, NEW c
  PROVE  ReadAt(in, k, i, i, c)
<1>1. SubSeq(FileOf(in), i, i - 1) = <<>>
  BY SubSeqEmpty
<1>2. <<>> \in File /\ ValueText(<<>>) /\ Len(<<>>) = 0 /\ <<>> \in Joint \cup {<<>>}
  BY DEF File, ValueText, Holds
<1>3. Written(<<>>, <<>>) = <<>>
  BY <1>2, PlainWritten
<1>4. stripescapes(Written(<<>>, <<>>)) = <<>>
  BY <1>2, StripWritten
<1> QED
  BY <1>1, <1>3, <1>4 DEF ReadAt

\* What the next byte is, and where the parser is after it.
LEMMA ValueCases ==
  ASSUME NEW in \in Input, NEW k \in 1 .. Len(in.lines), in.lines[k].kind \in {"=", ":"},
         NEW i, NEW b, NEW e, NEW c, ValueAt(in, k, i, b, e, c)
  PROVE  LET f == FileOf(in)
         IN  /\ i \in Nat \ {0}
             /\ \/ /\ i \in DOMAIN f /\ f[i] \notin {"\n", "#", "\\"} /\ escaped(f, i) = 0
                   /\ ValueAt(in, k, i + 1, b, IF whitespace(f[i]) THEN e ELSE i + 1, c)
                \/ /\ i \in DOMAIN f /\ f[i] = "\\" /\ escaped(f, i) = 0
                   /\ i + 1 \in DOMAIN f /\ f[i + 1] = "#"
                   /\ ValueAt(in, k, i + 2, b, i + 2, TRUE)
                \/ /\ i \in DOMAIN f /\ f[i] = "\\" /\ escaped(f, i) > 0
                   /\ i + 1 \in DOMAIN f /\ f[i + 1] # "#"
                   /\ ValueAt(in, k, i + escaped(f, i), b, e, TRUE)
                \/ /\ i \in DOMAIN f /\ f[i] = "\\" /\ escaped(f, i) = 0
                   /\ i + 1 \in DOMAIN f /\ f[i + 1] # "#"
                   /\ ValueAt(in, k, i + 1, b, e, c)
                \/ /\ i \notin DOMAIN f \/ f[i] \in {"\n", "#"}
                   /\ escaped(f, i) = 0
                   /\ AfterText(in, k, i) /\ ReadAt(in, k, b, e, c)
<1> DEFINE f == FileOf(in)
           value == in.lines[k].value
           joint == in.lines[k].style.joint
<1>1. b = (IF value = <<>> THEN i ELSE TextAt(in, k))
  BY DEF ValueAt
<1>2. ASSUME NEW j \in 1 .. Len(value), ByteAt(in, k, i, e, c, j)
      PROVE  /\ i \in Nat \ {0} /\ i \in DOMAIN f /\ escaped(f, i) = 0
             /\ \/ /\ f[i] \notin {"\n", "#", "\\"}
                   /\ ValueAt(in, k, i + 1, b, IF whitespace(f[i]) THEN e ELSE i + 1, c)
                \/ /\ f[i] = "\\" /\ i + 1 \in DOMAIN f /\ f[i + 1] = "#"
                   /\ ValueAt(in, k, i + 2, b, i + 2, TRUE)
                \/ /\ f[i] = "\\" /\ i + 1 \in DOMAIN f /\ f[i + 1] # "#"
                   /\ ValueAt(in, k, i + 1, b, e, c)
  <2> DEFINE to == ToAt(in, k, j)
  <2>1. /\ i \in Nat \ {0} /\ i \in DOMAIN f /\ f[i] = (IF value[j] = "#" THEN "\\" ELSE value[j])
        /\ value[j] = "#" => f[i + 1] = "#" /\ i + 1 \in DOMAIN f /\ to = i + 2
        /\ value[j] # "#" => to = i + 1
        /\ escaped(f, i) = 0
        /\ value[j] = "\\" => i + 1 \in DOMAIN f /\ f[i + 1] # "#"
        /\ value[j] # "\n"
    BY <1>2, ByteShape DEF ByteAt
  <2>2. ~c => Hashless(value, j - 1) /\ (j # 1 => joint = <<>>)
    BY <1>2 DEF ByteAt
  <2>3. b = TextAt(in, k)
    <3>1. Len(value) # 0
      OBVIOUS
    <3>2. value # <<>>
      BY <3>1
    <3> QED
      BY <1>1, <3>2
  <2>4. value[j] # "#" => (~c => Hashless(value, j))
    <3>1. \A q \in 1 .. j : q \in 1 .. j - 1 \/ q = j
      OBVIOUS
    <3> QED
      BY <2>2, <3>1 DEF Hashless
  <2> HIDE DEF to, f
  <2>5. CASE value[j] = "#"
    <3>1. ValueAt(in, k, to, b, to, TRUE)
      BY <2>3, ByteDone DEF to
    <3> QED
      BY <2>1, <2>5, <3>1
  <2>6. CASE value[j] = "\\"
    <3>1. ~Solid(value[j])
      BY <2>6 DEF Solid
    <3>2. ValueAt(in, k, to, b, e, c)
      BY <2>2, <2>3, <2>4, <2>6, <3>1, ByteDone DEF to
    <3> QED
      BY <2>1, <2>6, <3>2
  <2>7. CASE value[j] \notin {"#", "\\"}
    <3> DEFINE g == IF whitespace(f[i]) THEN e ELSE i + 1
    <3>1. f[i] = value[j] /\ to = i + 1
      BY <2>1, <2>7
    <3>2. Solid(value[j]) => g = to
      BY <3>1 DEF Solid
    <3> HIDE DEF g
    <3>3. ValueAt(in, k, to, b, g, c)
      BY <2>2, <2>3, <2>4, <2>7, <3>2, ByteDone DEF to
    <3> QED
      BY <2>1, <2>7, <3>1, <3>3 DEF g
  <2> QED
    BY <2>5, <2>6, <2>7
<1>3. ASSUME JointAt(in, k, i, e, c)
      PROVE  /\ i \in Nat \ {0} /\ i \in DOMAIN f /\ f[i] = "\\" /\ escaped(f, i) > 0
             /\ i + 1 \in DOMAIN f /\ f[i + 1] # "#"
             /\ ValueAt(in, k, i + escaped(f, i), b, e, TRUE)
  <2>1. b = TextAt(in, k)
    BY <1>1, <1>3 DEF JointAt
  <2> QED
    BY <1>3, <2>1, JointDone
<1>4. ASSUME AfterText(in, k, i)
      PROVE  /\ i \in Nat \ {0} /\ escaped(f, i) = 0
             /\ \/ i \in DOMAIN f /\ f[i] \in Blank /\ AfterText(in, k, i + 1)
                \/ i \notin DOMAIN f \/ f[i] \in {"\n", "#"}
  BY <1>4, AfterCases
<1>5. ASSUME TrailsAt(in, k, i, e, c)
      PROVE  /\ i \in Nat \ {0} /\ escaped(f, i) = 0
             /\ \/ /\ i \in DOMAIN f /\ f[i] \notin {"\n", "#", "\\"}
                   /\ ValueAt(in, k, i + 1, b, IF whitespace(f[i]) THEN e ELSE i + 1, c)
                \/ /\ i \notin DOMAIN f \/ f[i] \in {"\n", "#"}
                   /\ AfterText(in, k, i) /\ ReadAt(in, k, b, e, c)
  <2>1. b = TextAt(in, k) /\ AfterText(in, k, i) /\ value # <<>>
    BY <1>1, <1>5 DEF TrailsAt
  <2>2. CASE i \in DOMAIN f /\ f[i] \in Blank /\ AfterText(in, k, i + 1)
    <3>1. TrailsAt(in, k, i + 1, e, c)
      BY <1>5, <2>2 DEF TrailsAt
    <3>2. ValueAt(in, k, i + 1, b, e, c)
      BY <2>1, <3>1 DEF ValueAt
    <3>3. f[i] \notin {"\n", "#", "\\"} /\ whitespace(f[i])
      BY <2>2 DEF Blank, whitespace
    <3> QED
      BY <1>4, <2>1, <2>2, <3>2, <3>3
  <2>3. CASE i \notin DOMAIN f \/ f[i] \in {"\n", "#"}
    BY <1>4, <1>5, <2>1, <2>3, TextRead
  <2> QED
    BY <1>4, <2>1, <2>2, <2>3
<1>6. ASSUME NothingAt(in, k, i, e)
      PROVE  /\ i \in Nat \ {0} /\ escaped(f, i) = 0
             /\ i \notin DOMAIN f \/ f[i] \in {"\n", "#"}
             /\ AfterText(in, k, i) /\ ReadAt(in, k, b, e, c)
  <2>1. /\ value = <<>> /\ AfterText(in, k, i) /\ e = i /\ b = i
        /\ i \notin DOMAIN f \/ f[i] \in {"\n", "#"}
    BY <1>1, <1>6 DEF NothingAt
  <2>2. i \in Nat \ {0} /\ escaped(f, i) = 0
    BY <1>4, <2>1
  <2>3. ReadAt(in, k, i, i, c)
    BY <2>1, <2>2, NothingRead
  <2> QED
    BY <2>1, <2>2, <2>3
<1>7. \/ \E j \in 1 .. Len(value) : ByteAt(in, k, i, e, c, j)
      \/ JointAt(in, k, i, e, c)
      \/ TrailsAt(in, k, i, e, c)
      \/ NothingAt(in, k, i, e)
  BY DEF ValueAt
<1> QED
  BY <1>2, <1>3, <1>5, <1>6, <1>7

-----------------------------------------------------------------------------
(***************************************************************************)
(* The parser is in a line of the file, its tables hold what the lines     *)
(* before that one define.                                                 *)
(***************************************************************************)
OpenName == IF op = "=" THEN {name} ELSE {}

\* The definition of line k is under way.
Opened(k) ==
  /\ k \in 1 .. Len(input.lines) /\ input.lines[k].kind \in {"=", ":"}
  /\ op = input.lines[k].kind /\ name = input.lines[k].name
  /\ k \notin Repeats(input)
  /\ Accounts(input, env, fields, k, OpenName)

InLine ==
  \E k \in 1 .. Len(input.lines) + 1 :
    Accounts(input, env, fields, k, {}) /\ LineAt(input, k, p)

InName ==
  \E k \in 1 .. Len(input.lines) :
    Accounts(input, env, fields, k, {}) /\ NameAt(input, k, p, beg, end)

InLead == \E k \in 1 .. Len(input.lines) : Opened(k) /\ LeadAt(input, k, p)

InText == \E k \in 1 .. Len(input.lines) : Opened(k) /\ ValueAt(input, k, p, beg, end, cleanup)

Complete == Accounts(input, env, fields, Len(input.lines) + 1, {})

Rejected ==
  \E k \in Repeats(input) :
    /\ \A j \in Repeats(input) : k <= j
    /\ name = input.lines[k].name
    /\ phase = IF input.lines[k].kind = "=" THEN "dupvar" ELSE "dupfield"

Reading == input \in Input /\ src = FileOf(input) /\ p \in Nat \ {0}

ParseInv ==
  /\ Reading
  /\ phase \in {"line", "name", "lead", "value", "ok", "dupvar", "dupfield"}
  /\ phase = "line" => InLine
  /\ phase = "name" => InName
  /\ phase = "lead" => InLead
  /\ phase = "value" => InText
  /\ phase = "ok" => Complete
  /\ phase \in {"dupvar", "dupfield"} => Rejected

-----------------------------------------------------------------------------
\* A position is in the file, or after it.
LEMMA Positions ==
  ASSUME Reading
  PROVE  /\ src \in Seq(Byte) /\ Len(src) \in Nat /\ DOMAIN src = 1 .. Len(src)
         /\ AtEnd <=> p \notin DOMAIN src
         /\ ~AtEnd => At(p) = src[p]
         /\ AtEnd => At(p) = None
         /\ \A i : i \in DOMAIN src => At(i) = src[i]
         /\ Len(input.lines) \in Nat
<1>1. src \in Seq(Byte)
  BY FileLines DEF Reading, File
<1>2. Len(src) \in Nat /\ DOMAIN src = 1 .. Len(src)
  BY <1>1
<1>3. AtEnd <=> p \notin DOMAIN src
  BY <1>2 DEF AtEnd, Reading
<1>4. Len(input.lines) \in Nat
  BY InputTypes DEF Reading
<1> QED
  BY <1>1, <1>2, <1>3, <1>4 DEF At

\* Where the next line is looked for after a value.
LEMMA LineEnds ==
  ASSUME Reading, NEW k \in 1 .. Len(input.lines), input.lines[k].kind \in {"=", ":"},
         NEW i, AfterText(input, k, i), i \notin DOMAIN src \/ src[i] \in {"\n", "#"}
  PROVE  /\ i \in Nat \ {0}
         /\ LineAt(input, k + 1, IF i \in DOMAIN src /\ src[i] = "#" THEN NextLine(i) ELSE i)
         /\ (IF i \in DOMAIN src /\ src[i] = "#" THEN NextLine(i) ELSE i) \in Nat \ {0}
<1> DEFINE s == StopAt(input, k)
           n == Start(input, k + 1)
           b == Body(input, k + 1)
<1>1. /\ i \in Nat \ {0}
      /\ \A q \in i .. s - 1 : src[q] # "\n"
      /\ \/ i \in DOMAIN src /\ src[i] = "#" /\ i < s
         \/ i = s /\ i \in DOMAIN src /\ src[i] = "\n"
         \/ i = s /\ i \notin DOMAIN src
  <2>1. ~(i \in DOMAIN src /\ src[i] \in Blank)
    BY DEF Blank
  <2> QED
    BY <2>1, AfterCases DEF Reading
<1>2. /\ s \in Nat
      /\ \/ n = s /\ s \notin DOMAIN src
         \/ s \in DOMAIN src /\ src[s] = "\n" /\ n = s + 1
  BY StopShape DEF Reading
<1>3. Len(input.lines) \in Nat
  BY Positions
<1>4. k + 1 \in 1 .. Len(input.lines) + 1
  BY <1>3
<1>5. n \in Nat \ {0} /\ b \in Nat \ {0} /\ LineAt(input, k + 1, n)
  BY <1>4, LineBegins DEF Reading
<1>6. CASE i \in DOMAIN src /\ src[i] = "#" /\ i < s
  <2>1. i <= s
    BY <1>1, <1>2, <1>6
  <2>2. NextLine(i) = n
    BY <1>1, <2>1, NextLineIs DEF Reading
  <2> QED
    BY <1>1, <1>5, <1>6, <2>2
<1>7. CASE i = s /\ i \in DOMAIN src /\ src[i] = "\n"
  <2>1. n = i + 1
    BY <1>2, <1>7
  <2>2. n <= b /\ \A q \in n .. b - 1 : whitespace(src[q])
    BY <1>5 DEF LineAt, Reading
  <2> HIDE DEF n, b, s
  <2>3. i <= b /\ \A q \in i .. b - 1 : whitespace(src[q])
    <3>1. \A q \in i .. b - 1 : q = i \/ q \in n .. b - 1
      BY <1>1, <1>5, <2>1
    <3>2. whitespace(src[i])
      BY <1>7 DEF whitespace
    <3>3. \A q \in i .. b - 1 : whitespace(src[q])
      BY <2>2, <3>1, <3>2
    <3> QED
      BY <1>1, <1>5, <2>1, <2>2, <3>3
  <2>4. LineAt(input, k + 1, i)
    BY <2>3 DEF LineAt, Reading, b
  <2> QED
    BY <1>1, <1>7, <2>4
<1>8. CASE i = s /\ i \notin DOMAIN src
  BY <1>1, <1>2, <1>5, <1>8
<1> QED
  BY <1>1, <1>6, <1>7, <1>8

-----------------------------------------------------------------------------
\* The parser starts in front of the first line.
LEMMA InitParse == Init => ParseInv
<1> SUFFICES ASSUME Init PROVE ParseInv
  OBVIOUS
<1>1. Reading
  BY InputsAssumption DEF Init, Reading
<1>2. 1 \in 1 .. Len(input.lines) + 1
  BY <1>1, Positions
<1>3. LineAt(input, 1, p)
  <2>1. Start(input, 1) = p
    BY <1>1, FileLines DEF Init, Reading
  <2> QED
    BY <1>1, <1>2, <2>1, LineBegins DEF Reading
<1>4. Accounts(input, env, fields, 1, {})
  BY <1>1, AccountsInit DEF Init, Reading
<1> QED
  BY <1>1, <1>2, <1>3, <1>4 DEF ParseInv, InLine, Init

\* White space in front of a line.
LEMMA SkipSpaceParse == ParseInv /\ SkipSpace => ParseInv'
<1> SUFFICES ASSUME ParseInv, SkipSpace PROVE ParseInv'
  OBVIOUS
<1>1. Reading /\ InLine
  BY DEF ParseInv, SkipSpace
<1>2. PICK k \in 1 .. Len(input.lines) + 1 :
        Accounts(input, env, fields, k, {}) /\ LineAt(input, k, p)
  BY <1>1 DEF InLine
<1>3. p \in DOMAIN src /\ whitespace(src[p])
  BY <1>1, Positions DEF SkipSpace
<1>4. LineAt(input, k, p + 1)
  <2>1. p # Len(src) + 1
    BY <1>1, <1>3, Positions
  <2> QED
    BY <1>1, <1>2, <1>3, <2>1, LineCases DEF Reading
<1>5. Reading' /\ p' = p + 1
  BY <1>1 DEF SkipSpace, Reading
<1>6. InLine'
  BY <1>2, <1>4 DEF SkipSpace, InLine
<1> QED
  BY <1>5, <1>6 DEF ParseInv, SkipSpace

\* A comment ends with its line.
LEMMA SkipCommentParse == ParseInv /\ SkipComment => ParseInv'
<1> SUFFICES ASSUME ParseInv, SkipComment PROVE ParseInv'
  OBVIOUS
<1>1. Reading /\ InLine
  BY DEF ParseInv, SkipComment
<1>2. PICK k \in 1 .. Len(input.lines) + 1 :
        Accounts(input, env, fields, k, {}) /\ LineAt(input, k, p)
  BY <1>1 DEF InLine
<1>3. p \in DOMAIN src /\ src[p] = "#"
  BY <1>1, Positions DEF SkipComment, At, None
<1>4. k \in 1 .. Len(input.lines) /\ p = Body(input, k) /\ input.lines[k].kind = "comment"
  <2>1. p # Len(src) + 1 /\ ~whitespace(src[p])
    BY <1>1, <1>3, Positions DEF whitespace
  <2> QED
    BY <1>1, <1>2, <1>3, <2>1, LineCases DEF Reading
<1>5. NextLine(p) = Start(input, k + 1)
  <2>1. p < StopAt(input, k) /\ \A q \in p .. StopAt(input, k) - 1 : src[q] # "\n"
    BY <1>1, <1>4, CommentShape DEF Reading
  <2>2. StopAt(input, k) \in Nat /\ p \in Nat
    BY <1>1, <1>4, StopShape DEF Reading
  <2>3. p <= StopAt(input, k)
    BY <2>1, <2>2
  <2> QED
    BY <1>1, <1>4, <2>1, <2>2, <2>3, NextLineIs DEF Reading
<1>6. k + 1 \in 1 .. Len(input.lines) + 1
  BY <1>1, <1>4, Positions
<1>7. LineAt(input, k + 1, p') /\ p' \in Nat \ {0}
  BY <1>1, <1>5, <1>6, LineBegins DEF Reading, SkipComment
<1>8. Accounts(input, env, fields, k + 1, {})
  BY <1>1, <1>2, <1>4, AccountsMore DEF Reading
<1>9. Reading'
  BY <1>1, <1>7 DEF SkipComment, Reading
<1>10. InLine'
  BY <1>6, <1>7, <1>8 DEF SkipComment, InLine
<1> QED
  BY <1>9, <1>10 DEF ParseInv, SkipComment

\* The first byte of a name.
LEMMA StartNameParse == ParseInv /\ StartName => ParseInv'
<1> SUFFICES ASSUME ParseInv, StartName PROVE ParseInv'
  OBVIOUS
<1>1. Reading /\ InLine
  BY DEF ParseInv, StartName
<1>2. PICK k \in 1 .. Len(input.lines) + 1 :
        Accounts(input, env, fields, k, {}) /\ LineAt(input, k, p)
  BY <1>1 DEF InLine
<1>3. p \in DOMAIN src /\ ~whitespace(src[p]) /\ src[p] # "#"
  BY <1>1, Positions DEF StartName
<1>4. k \in 1 .. Len(input.lines) /\ p = Body(input, k) /\ input.lines[k].kind # "comment"
  <2>1. p # Len(src) + 1
    BY <1>1, <1>3, Positions
  <2> QED
    BY <1>1, <1>2, <1>3, <2>1, LineCases DEF Reading
<1>5. NameAt(input, k, p, p, p)
  BY <1>1, <1>4, NameStarts DEF Reading
<1>6. Reading'
  BY <1>1 DEF StartName, Reading
<1>7. InName'
  BY <1>2, <1>4, <1>5 DEF StartName, InName
<1> QED
  BY <1>6, <1>7 DEF ParseInv, StartName

\* The end of the file is after the last line.
LEMMA FinishParse == ParseInv /\ Finish => ParseInv'
<1> SUFFICES ASSUME ParseInv, Finish PROVE ParseInv'
  OBVIOUS
<1>1. Reading /\ InLine
  BY DEF ParseInv, Finish
<1>2. PICK k \in 1 .. Len(input.lines) + 1 :
        Accounts(input, env, fields, k, {}) /\ LineAt(input, k, p)
  BY <1>1 DEF InLine
<1>3. p \notin DOMAIN src
  BY <1>1, Positions DEF Finish
<1>4. k = Len(input.lines) + 1
  BY <1>1, <1>2, <1>3, LineCases DEF Reading
<1>5. Reading'
  BY <1>1 DEF Finish, Reading
<1>6. Complete'
  BY <1>2, <1>4 DEF Finish, Complete
<1> QED
  BY <1>5, <1>6 DEF ParseInv, Finish

\* One more byte of a name.
LEMMA NameByteParse == ParseInv /\ NameByte => ParseInv'
<1> SUFFICES ASSUME ParseInv, NameByte PROVE ParseInv'
  OBVIOUS
<1>1. Reading /\ InName
  BY DEF ParseInv, NameByte
<1>2. PICK k \in 1 .. Len(input.lines) :
        Accounts(input, env, fields, k, {}) /\ NameAt(input, k, p, beg, end)
  BY <1>1 DEF InName
<1>3. p \in DOMAIN src /\ src[p] \notin Separator /\ At(p) = src[p]
  BY <1>1, Positions DEF NameByte
<1>4. NameAt(input, k, p + 1, beg, end')
  BY <1>1, <1>2, <1>3, NameGoes DEF Reading, NameByte
<1>5. Reading'
  BY <1>1 DEF NameByte, Reading
<1>6. InName'
  BY <1>2, <1>4 DEF NameByte, InName
<1> QED
  BY <1>5, <1>6 DEF ParseInv, NameByte

\* A line without a separator changes nothing.
LEMMA IgnoreLineParse == ParseInv /\ IgnoreLine => ParseInv'
<1> SUFFICES ASSUME ParseInv, IgnoreLine PROVE ParseInv'
  OBVIOUS
<1>1. Reading /\ InName
  BY DEF ParseInv, IgnoreLine
<1>2. PICK k \in 1 .. Len(input.lines) :
        Accounts(input, env, fields, k, {}) /\ NameAt(input, k, p, beg, end)
  BY <1>1 DEF InName
<1>3. p \notin DOMAIN src \/ src[p] = "\n"
  BY <1>1, Positions DEF IgnoreLine
<1>4. input.lines[k].kind = "ignored" /\ p = StopAt(input, k)
  BY <1>1, <1>2, <1>3, NameStops DEF Reading
<1>5. p' = Start(input, k + 1)
  <2>1. \/ Start(input, k + 1) = p /\ p \notin DOMAIN src
        \/ p \in DOMAIN src /\ Start(input, k + 1) = p + 1
    BY <1>1, <1>4, StopShape DEF Reading
  <2> QED
    BY <1>1, <2>1, Positions DEF IgnoreLine, AfterNothing
<1>6. k + 1 \in 1 .. Len(input.lines) + 1
  BY <1>1, Positions
<1>7. LineAt(input, k + 1, p') /\ p' \in Nat \ {0}
  BY <1>1, <1>5, <1>6, LineBegins DEF Reading
<1>8. Accounts(input, env, fields, k + 1, {})
  BY <1>1, <1>2, <1>4, AccountsMore DEF Reading
<1>9. Reading'
  BY <1>1, <1>7 DEF IgnoreLine, Reading
<1>10. InLine'
  BY <1>6, <1>7, <1>8 DEF IgnoreLine, InLine
<1> QED
  BY <1>9, <1>10 DEF ParseInv, IgnoreLine

\* A separator: the definition is under way, or it is the first duplicate.
LEMMA SeparateParse == ParseInv /\ Separate => ParseInv'
<1> SUFFICES ASSUME ParseInv, Separate PROVE ParseInv'
  OBVIOUS
<1>1. Reading /\ InName
  BY DEF ParseInv, Separate
<1>2. PICK k \in 1 .. Len(input.lines) :
        Accounts(input, env, fields, k, {}) /\ NameAt(input, k, p, beg, end)
  BY <1>1 DEF InName
<1> DEFINE l == input.lines[k]
<1>3. p \in DOMAIN src /\ src[p] \in {"=", ":"} /\ At(p) = src[p]
  BY <1>1, Positions DEF Separate, At, None
<1>4. l.kind = At(p) /\ l.kind \in {"=", ":"} /\ p = SepAt(input, k) /\ ThisName = l.name
  BY <1>1, <1>2, <1>3, NameSeparates DEF Reading, ThisName
<1>5. k \in Repeats(input) <=> Taken
  <2>1. k \in Repeats(input) <=>
          \/ l.kind = "=" /\ Lookup(env, l.name) # Null
          \/ l.kind = ":" /\ l.name \in DOMAIN fields
    BY <1>1, <1>2, <1>4, RepeatFound DEF Reading
  <2> QED
    BY <1>4, <2>1 DEF Taken
<1>6. Reading'
  BY <1>1 DEF Separate, Reading
<1>7. op' = l.kind /\ name' = l.name /\ input' = input /\ fields' = fields /\ p' = p + 1
  BY <1>4 DEF Separate
<1>8. CASE Taken
  <2>1. \A j \in Repeats(input) : k <= j
    BY <1>2 DEF Accounts
  <2>2. phase' = IF l.kind = "=" THEN "dupvar" ELSE "dupfield"
    BY <1>4, <1>8 DEF Separate
  <2>3. Rejected'
    BY <1>5, <1>7, <1>8, <2>1, <2>2 DEF Rejected
  <2> QED
    BY <1>6, <2>2, <2>3 DEF ParseInv
<1>9. CASE ~Taken
  <2>1. Accounts(input, env', fields, k, IF l.kind = "=" THEN {l.name} ELSE {})
    <3>1. CASE l.kind = "="
      <4>1. env' = Insert(env, l.name)
        BY <1>4, <3>1 DEF Separate
      <4> QED
        BY <1>1, <1>2, <1>5, <1>9, <3>1, <4>1, AccountsOpen DEF Reading
    <3>2. CASE l.kind # "="
      <4>1. env' = env
        BY <1>4, <3>2 DEF Separate
      <4> QED
        BY <1>2, <3>2, <4>1
    <3> QED
      BY <3>1, <3>2
  <2>2. Opened(k)'
    BY <1>4, <1>5, <1>7, <1>9, <2>1 DEF Opened, OpenName
  <2>3. LeadAt(input, k, p + 1)
    BY <1>1, <1>4, LeadStarts DEF Reading
  <2>4. InLead'
    BY <1>7, <2>2, <2>3 DEF InLead
  <2>5. phase' = "lead"
    BY <1>9 DEF Separate
  <2> QED
    BY <1>6, <2>4, <2>5 DEF ParseInv
<1> QED
  BY <1>8, <1>9

\* What may be in front of a value.
LEMMA LeadStep ==
  ASSUME ParseInv, phase = "lead"
  PROVE  /\ Reading
         /\ \E k \in 1 .. Len(input.lines) :
              /\ Opened(k)
              /\ \/ p \in DOMAIN src /\ src[p] \in Blank /\ LeadAt(input, k, p + 1)
                 \/ /\ p \in DOMAIN src /\ src[p] = "\\" /\ escaped(src, p) \in {2, 3}
                    /\ LeadAt(input, k, p + escaped(src, p))
                 \/ /\ p \notin DOMAIN src \/ src[p] \notin Blank
                    /\ escaped(src, p) = 0
                    /\ ValueAt(input, k, p, p, p, FALSE)
<1>1. Reading /\ InLead
  BY DEF ParseInv
<1>2. PICK k \in 1 .. Len(input.lines) : Opened(k) /\ LeadAt(input, k, p)
  BY <1>1 DEF InLead
<1>3. input.lines[k].kind \in {"=", ":"} /\ input \in Input /\ src = FileOf(input)
  BY <1>1, <1>2 DEF Opened, Reading
<1> QED
  BY <1>1, <1>2, <1>3, LeadCases

\* A blank in front of a value, or a line end that is escaped.
LEMMA SkipLeadingParse == ParseInv /\ SkipLeading => ParseInv'
<1> SUFFICES ASSUME ParseInv, SkipLeading PROVE ParseInv'
  OBVIOUS
<1>1. phase = "lead" /\ Leading
  BY DEF SkipLeading
<1>2. Reading
  BY <1>1, LeadStep
<1>3. PICK k \in 1 .. Len(input.lines) :
        /\ Opened(k)
        /\ \/ p \in DOMAIN src /\ src[p] \in Blank /\ LeadAt(input, k, p + 1)
           \/ /\ p \in DOMAIN src /\ src[p] = "\\" /\ escaped(src, p) \in {2, 3}
              /\ LeadAt(input, k, p + escaped(src, p))
           \/ /\ p \notin DOMAIN src \/ src[p] \notin Blank
              /\ escaped(src, p) = 0
  BY <1>1, LeadStep
<1>4. LeadAt(input, k, p') /\ p' \in Nat \ {0}
  <2>1. CASE p \in DOMAIN src /\ src[p] \in Blank /\ LeadAt(input, k, p + 1)
    <3>1. At(p) # "\\"
      BY <2>1 DEF At, Blank
    <3> QED
      BY <1>2, <2>1, <3>1 DEF SkipLeading, Reading
  <2>2. CASE /\ p \in DOMAIN src /\ src[p] = "\\" /\ escaped(src, p) \in {2, 3}
             /\ LeadAt(input, k, p + escaped(src, p))
    <3> DEFINE w == escaped(src, p)
    <3>1. p' = p + w
      BY <2>2 DEF SkipLeading, At
    <3>2. w \in {2, 3} /\ LeadAt(input, k, p + w)
      BY <2>2
    <3> HIDE DEF w
    <3> QED
      BY <1>2, <3>1, <3>2 DEF Reading
  <2>3. CASE /\ p \notin DOMAIN src \/ src[p] \notin Blank
             /\ escaped(src, p) = 0
    <3>1. At(p) \notin {" ", "\r"}
      BY <2>3 DEF At, Blank, None
    <3>2. ~(escaped(src, p) > 0)
      BY <2>3
    <3> QED
      BY <1>1, <3>1, <3>2 DEF Leading
  <2> QED
    BY <1>3, <2>1, <2>2, <2>3
<1>5. Reading'
  BY <1>2, <1>4 DEF Reading, SkipLeading
<1>6. Opened(k)'
  BY <1>3 DEF SkipLeading, Opened, OpenName
<1>7. InLead'
  BY <1>4, <1>6 DEF InLead, SkipLeading
<1> QED
  BY <1>5, <1>7 DEF ParseInv, SkipLeading

\* The first byte of a value.
LEMMA StartValueParse == ParseInv /\ StartValue => ParseInv'
<1> SUFFICES ASSUME ParseInv, StartValue PROVE ParseInv'
  OBVIOUS
<1>1. phase = "lead" /\ ~Leading
  BY DEF StartValue
<1>2. Reading
  BY <1>1, LeadStep
<1>3. PICK k \in 1 .. Len(input.lines) :
        /\ Opened(k)
        /\ \/ p \in DOMAIN src /\ src[p] \in Blank
           \/ p \in DOMAIN src /\ src[p] = "\\" /\ escaped(src, p) \in {2, 3}
           \/ ValueAt(input, k, p, p, p, FALSE)
  BY <1>1, LeadStep
<1>4. ValueAt(input, k, p, p, p, FALSE)
  <2>1. ~(p \in DOMAIN src /\ src[p] \in Blank)
    BY <1>1 DEF Leading, At, Blank
  <2>2. ~(escaped(src, p) \in {2, 3})
    <3>1. ~(escaped(src, p) > 0)
      BY <1>1 DEF Leading
    <3> DEFINE w == escaped(src, p)
    <3>2. ~(w > 0)
      BY <3>1
    <3> HIDE DEF w
    <3>3. ~(w \in {2, 3})
      BY <3>2
    <3> QED
      BY <3>3 DEF w
  <2> QED
    BY <1>3, <2>1, <2>2
<1>5. Reading'
  BY <1>2 DEF Reading, StartValue
<1>6. Opened(k)'
  BY <1>3 DEF StartValue, Opened, OpenName
<1>7. InText'
  BY <1>4, <1>6 DEF InText, StartValue
<1> QED
  BY <1>5, <1>7 DEF ParseInv, StartValue

-----------------------------------------------------------------------------
\* What may be in a value, and what is read at its end.
LEMMA ValueStep ==
  ASSUME ParseInv, phase = "value"
  PROVE  /\ Reading
         /\ \E k \in 1 .. Len(input.lines) :
              /\ Opened(k)
              /\ \/ /\ p \in DOMAIN src /\ src[p] \notin {"\n", "#", "\\"} /\ escaped(src, p) = 0
                    /\ ValueAt(input, k, p + 1, beg, IF whitespace(src[p]) THEN end ELSE p + 1,
                               cleanup)
                 \/ /\ p \in DOMAIN src /\ src[p] = "\\" /\ escaped(src, p) = 0
                    /\ p + 1 \in DOMAIN src /\ src[p + 1] = "#"
                    /\ ValueAt(input, k, p + 2, beg, p + 2, TRUE)
                 \/ /\ p \in DOMAIN src /\ src[p] = "\\" /\ escaped(src, p) > 0
                    /\ p + 1 \in DOMAIN src /\ src[p + 1] # "#"
                    /\ ValueAt(input, k, p + escaped(src, p), beg, end, TRUE)
                 \/ /\ p \in DOMAIN src /\ src[p] = "\\" /\ escaped(src, p) = 0
                    /\ p + 1 \in DOMAIN src /\ src[p + 1] # "#"
                    /\ ValueAt(input, k, p + 1, beg, end, cleanup)
                 \/ /\ p \notin DOMAIN src \/ src[p] \in {"\n", "#"}
                    /\ escaped(src, p) = 0
                    /\ AfterText(input, k, p) /\ ReadAt(input, k, beg, end, cleanup)
<1>1. Reading /\ InText
  BY DEF ParseInv
<1>2. PICK k \in 1 .. Len(input.lines) : Opened(k) /\ ValueAt(input, k, p, beg, end, cleanup)
  BY <1>1 DEF InText
<1>3. input.lines[k].kind \in {"=", ":"} /\ input \in Input /\ src = FileOf(input)
  BY <1>1, <1>2 DEF Opened, Reading
<1> QED
  BY <1>1, <1>2, <1>3, ValueCases

\* The size of an escape.
LEMMA EscapedSize ==
  ASSUME NEW s \in Seq(Byte), NEW i \in Nat
  PROVE  escaped(s, i) \in {0, 2, 3}
  BY DEF escaped

\* A step in a value.
LEMMA TextStays ==
  ASSUME Reading, NEW k \in 1 .. Len(input.lines), Opened(k), phase' = "value",
         p' \in Nat \ {0}, ValueAt(input, k, p', beg', end', cleanup'),
         UNCHANGED <<input, src, name, op, env, fields>>
  PROVE  ParseInv'
<1>1. Reading'
  BY DEF Reading
<1>2. Opened(k)'
  BY DEF Opened, OpenName
<1>3. InText'
  BY <1>2 DEF InText
<1> QED
  BY <1>1, <1>3 DEF ParseInv

\* One more byte of a value.
LEMMA ValueByteParse == ParseInv /\ ValueByte => ParseInv'
<1> SUFFICES ASSUME ParseInv, ValueByte PROVE ParseInv'
  OBVIOUS
<1>1. phase = "value" /\ ~AtEnd /\ At(p) \notin {"\n", "#", "\\"}
  BY DEF ValueByte, InValue
<1>2. Reading
  BY <1>1, ValueStep
<1>3. p \in DOMAIN src /\ src[p] = At(p)
  BY <1>1, <1>2, Positions
<1>4. PICK k \in 1 .. Len(input.lines) :
        /\ Opened(k)
        /\ ValueAt(input, k, p + 1, beg, IF whitespace(src[p]) THEN end ELSE p + 1, cleanup)
  BY <1>1, <1>3, ValueStep
<1>5. ValueAt(input, k, p', beg', end', cleanup')
  BY <1>3, <1>4 DEF ValueByte
<1> QED
  BY <1>1, <1>2, <1>4, <1>5, TextStays DEF ValueByte, Reading

\* A "#" of a value.
LEMMA EscapedHashParse == ParseInv /\ EscapedHash => ParseInv'
<1> SUFFICES ASSUME ParseInv, EscapedHash PROVE ParseInv'
  OBVIOUS
<1>1. phase = "value" /\ ~AtEnd /\ At(p) = "\\" /\ At(p + 1) = "#"
  BY DEF EscapedHash, InValue
<1>2. Reading
  BY <1>1, ValueStep
<1>3. p \in DOMAIN src /\ src[p] = "\\" /\ (p + 1 \in DOMAIN src => src[p + 1] = "#")
  BY <1>1, <1>2, Positions
<1>4. PICK k \in 1 .. Len(input.lines) : Opened(k) /\ ValueAt(input, k, p + 2, beg, p + 2, TRUE)
  BY <1>1, <1>3, ValueStep
<1>5. ValueAt(input, k, p', beg', end', cleanup')
  BY <1>4 DEF EscapedHash
<1>6. p' \in Nat \ {0}
  BY <1>2 DEF EscapedHash, Reading
<1> QED
  BY <1>1, <1>2, <1>4, <1>5, <1>6, TextStays DEF EscapedHash

\* A line end that is joined.
LEMMA EscapedNewlineParse == ParseInv /\ EscapedNewline => ParseInv'
<1> SUFFICES ASSUME ParseInv, EscapedNewline PROVE ParseInv'
  OBVIOUS
<1>1. phase = "value" /\ escaped(src, p) > 0
  BY DEF EscapedNewline, InValue
<1>2. Reading
  BY <1>1, ValueStep
<1>3. escaped(src, p) \in {0, 2, 3}
  BY <1>2, Positions, EscapedSize DEF Reading
<1>4. escaped(src, p) # 0
  BY <1>1, <1>3
<1>5. PICK k \in 1 .. Len(input.lines) :
        Opened(k) /\ ValueAt(input, k, p + escaped(src, p), beg, end, TRUE)
  BY <1>1, <1>4, ValueStep
<1>6. ValueAt(input, k, p', beg', end', cleanup')
  BY <1>5 DEF EscapedNewline
<1>7. p' \in Nat \ {0}
  <2> DEFINE w == escaped(src, p)
  <2>1. p' = p + w /\ w \in {0, 2, 3}
    BY <1>3 DEF EscapedNewline
  <2> HIDE DEF w
  <2> QED
    BY <1>2, <2>1 DEF Reading
<1> QED
  BY <1>1, <1>2, <1>5, <1>6, <1>7, TextStays DEF EscapedNewline

\* A backslash of a value.
LEMMA BackslashParse == ParseInv /\ Backslash => ParseInv'
<1> SUFFICES ASSUME ParseInv, Backslash PROVE ParseInv'
  OBVIOUS
<1>1. phase = "value" /\ ~AtEnd /\ At(p) = "\\" /\ At(p + 1) # "#" /\ escaped(src, p) = 0
  BY DEF Backslash, InValue
<1>2. Reading
  BY <1>1, ValueStep
<1>3. p \in DOMAIN src /\ src[p] = "\\" /\ (p + 1 \in DOMAIN src => src[p + 1] # "#")
  BY <1>1, <1>2, Positions
<1>4. PICK k \in 1 .. Len(input.lines) : Opened(k) /\ ValueAt(input, k, p + 1, beg, end, cleanup)
  <2>1. ~(escaped(src, p) > 0)
    BY <1>1
  <2>2. src[p] \notin {"\n", "#"}
    BY <1>3
  <2> QED
    BY <1>1, <1>3, <2>1, <2>2, ValueStep, Zenon
<1>5. ValueAt(input, k, p', beg', end', cleanup')
  BY <1>4 DEF Backslash
<1> QED
  BY <1>1, <1>2, <1>4, <1>5, TextStays DEF Backslash, Reading

\* The end of a value: it is the one that the line gives to its name.
LEMMA EndValueParse == ParseInv /\ EndValue => ParseInv'
<1> SUFFICES ASSUME ParseInv, EndValue PROVE ParseInv'
  OBVIOUS
<1>1. phase = "value" /\ (AtEnd \/ At(p) \in {"\n", "#"})
  BY DEF EndValue
<1>2. Reading
  BY <1>1, ValueStep
<1>3. p \notin DOMAIN src \/ src[p] \in {"\n", "#"}
  BY <1>1, <1>2, Positions
<1>4. PICK k \in 1 .. Len(input.lines) :
        Opened(k) /\ AfterText(input, k, p) /\ ReadAt(input, k, beg, end, cleanup)
  BY <1>1, <1>3, ValueStep
<1> DEFINE l    == input.lines[k]
           span == SubSeq(src, beg, end - 1)
           text == IF cleanup THEN stripescapes(span) ELSE span
<1>5. /\ l.kind \in {"=", ":"} /\ op = l.kind /\ name = l.name /\ k \notin Repeats(input)
      /\ Accounts(input, env, fields, k, OpenName)
  BY <1>4 DEF Opened
<1>6. text = l.value
  BY <1>2, <1>4 DEF ReadAt, Reading
<1>7. /\ env' = IF op = "=" THEN Bind(env, name, text) ELSE env
      /\ fields' = IF op = ":" /\ name \in Known THEN Put(fields, name, text) ELSE fields
  BY DEF EndValue
<1>8. Accounts(input, env', fields', k + 1, {})
  <2> HIDE DEF text, span
  <2>1. CASE op = "="
    <3>1. env' = Bind(env, l.name, l.value) /\ fields' = fields
      BY <1>5, <1>6, <1>7, <2>1
    <3>2. Accounts(input, env, fields, k, {l.name})
      BY <1>5, <2>1 DEF OpenName
    <3> QED
      BY <1>2, <1>5, <2>1, <3>1, <3>2, AccountsVariable DEF Reading
  <2>2. CASE op = ":"
    <3>1. env' = env /\ fields' = IF l.name \in Known THEN Put(fields, l.name, l.value) ELSE fields
      BY <1>5, <1>6, <1>7, <2>2
    <3>2. Accounts(input, env, fields, k, {})
      BY <1>5, <2>2 DEF OpenName
    <3> QED
      BY <1>2, <1>5, <2>2, <3>1, <3>2, AccountsField DEF Reading
  <2> QED
    BY <1>5, <2>1, <2>2
<1>9. p' = IF p \in DOMAIN src /\ src[p] = "#" THEN NextLine(p) ELSE p
  BY DEF EndValue, At, None
<1>10. LineAt(input, k + 1, p') /\ p' \in Nat \ {0}
  BY <1>2, <1>3, <1>4, <1>5, <1>9, LineEnds
<1>11. k + 1 \in 1 .. Len(input.lines) + 1
  BY <1>2, Positions
<1>12. Reading'
  BY <1>2, <1>10 DEF EndValue, Reading
<1>13. InLine'
  BY <1>8, <1>10, <1>11 DEF EndValue, InLine
<1> QED
  BY <1>12, <1>13 DEF ParseInv, EndValue

\* A stutter.
LEMMA UnchangedParse == ParseInv /\ UNCHANGED vars => ParseInv'
  BY DEF vars, ParseInv, Reading, InLine, InName, InLead, InText, Complete, Rejected, Opened,
         OpenName

\* ParseInv is inductive.
LEMMA NextParse == ParseInv /\ [Next]_vars => ParseInv'
  BY SkipSpaceParse, SkipCommentParse, StartNameParse, FinishParse, NameByteParse,
     IgnoreLineParse, SeparateParse, SkipLeadingParse, StartValueParse, ValueByteParse,
     EscapedHashParse, EscapedNewlineParse, BackslashParse, EndValueParse, UnchangedParse
  DEF Next, Stopped

(***************************************************************************)
(* The parser is where the lines of the file say it is, and its tables     *)
(* hold what the lines before define: whatever the files, and the names    *)
(* that are known.                                                         *)
(***************************************************************************)
THEOREM ParseCorrect == Spec => []ParseInv
<1> QED
  BY InitParse, NextParse, PTL DEF Spec

-----------------------------------------------------------------------------
(***************************************************************************)
(* ParsedExactly: however a file is written down, parsepackage() ends with *)
(* the variables and fields that its lines define, and with their values.  *)
(***************************************************************************)
THEOREM ParsedCorrect == Spec => []ParsedExactly
<1>1. ParseInv => ParsedExactly
  <2> SUFFICES ASSUME ParseInv, phase = "ok"
               PROVE  IsDefinedBy(Values, "=") /\ IsDefinedBy(fields, ":")
    BY DEF ParsedExactly
  <2>1. Reading /\ Accounts(input, env, fields, Len(input.lines) + 1, {})
    BY DEF ParseInv, Complete
  <2>2. ASSUME NEW kind PROVE Earlier(input, Len(input.lines) + 1, kind) = Defining(kind)
    <3>1. DOMAIN input.lines = 1 .. Len(input.lines) /\ Len(input.lines) \in Nat
      BY <2>1, InputTypes DEF Reading
    <3> QED
      BY <3>1 DEF Earlier, Defines, Defining, Lines
  <2>3. Variables = {Lines[k].name : k \in Defining("=")}
    BY <2>1, <2>2 DEF Accounts, NamesIn, Variables, Lines
  <2>4. \A k \in Defining("=") : Lookup(env, Lines[k].name) = Lines[k].value
    BY <2>1, <2>2 DEF Accounts, Lines
  <2>5. IsDefinedBy(Values, "=")
    <3>1. \A k \in Defining("=") : Lines[k].name \in Variables
      BY <2>3
    <3> QED
      BY <2>3, <2>4, <3>1 DEF IsDefinedBy, Values
  <2>6. IsDefinedBy(fields, ":")
    BY <2>1, <2>2 DEF Accounts, IsDefinedBy, Lines
  <2> QED
    BY <2>5, <2>6
<1> QED
  BY <1>1, ParseCorrect, PTL

(***************************************************************************)
(* DuplicatesRejected: parsepackage() rejects a file exactly if it defines *)
(* something twice, and names the first duplicate in it.                   *)
(***************************************************************************)
THEOREM DuplicatesCorrect == Spec => []DuplicatesRejected
<1>1. ParseInv => DuplicatesRejected
  <2> SUFFICES ASSUME ParseInv, phase \in {"ok", "dupvar", "dupfield"}
               PROVE  IF Duplicates = {} THEN phase = "ok"
                      ELSE \E k \in Duplicates :
                             /\ \A j \in Duplicates : k <= j
                             /\ name = Lines[k].name
                             /\ phase = IF Lines[k].kind = "=" THEN "dupvar" ELSE "dupfield"
    BY DEF DuplicatesRejected
  <2>1. Duplicates = Repeats(input)
    BY DEF Duplicates, Repeats, Defining, Defines, Lines
  <2>2. CASE phase = "ok"
    <3>1. \A k \in Repeats(input) : Len(input.lines) + 1 <= k
      BY <2>2 DEF ParseInv, Complete, Accounts
    <3>2. DOMAIN input.lines = 1 .. Len(input.lines) /\ Len(input.lines) \in Nat
      BY InputTypes DEF ParseInv, Reading
    <3>3. Repeats(input) \subseteq 1 .. Len(input.lines)
      BY <3>2 DEF Repeats, Defines
    <3>4. Repeats(input) = {}
      BY <3>1, <3>2, <3>3
    <3> QED
      BY <2>1, <2>2, <3>4
  <2>3. CASE phase # "ok"
    BY <2>1, <2>3 DEF ParseInv, Rejected, Lines
  <2> QED
    BY <2>2, <2>3
<1> QED
  BY <1>1, ParseCorrect, PTL

=============================================================================
