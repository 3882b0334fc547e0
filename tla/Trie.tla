-------------------------------- MODULE Trie --------------------------------
(***************************************************************************)
(* The maps of the program, from names to variables (insert()), to         *)
(* packages (locate()) and to the positions of arguments (findargpos()).   *)
(*                                                                         *)
(* A name goes into the tree at the first place that is free on its way,   *)
(* which the digits of its hash lead to base 4, from the highest one; as   *)
(* they are shifted out, zeros follow.  Names may have the same hash.      *)
(***************************************************************************)
EXTENDS Integers, Sequences, FiniteSets

CONSTANTS
  Hash(_),   \* the digits of the hash of a name
  Null       \* what is not bound

Digit(name, i) == IF i \in DOMAIN Hash(name) THEN Hash(name)[i] ELSE 0

\* The n-th place on the way of a name, as the children that lead there.
Place(name, n) == [i \in 1 .. n |-> Digit(name, i)]

\* A tree has a node at each of these places.
NoNodes == <<>>

\* Fault: what has the same hash is the same.
SameHash(node, name) == Hash(node.name) = Hash(name)

Same(node, name) == node.name = name

\* The walk ends here.
Ends(tree, name, n) ==
  Place(name, n) \in DOMAIN tree => Same(tree[Place(name, n)], name)

\* How many steps the walk takes, at most one for each node.
Steps(tree, name) ==
  CHOOSE n \in 0 .. Cardinality(DOMAIN tree) :
    Ends(tree, name, n) /\ \A m \in 0 .. n - 1 : ~Ends(tree, name, m)

Slot(tree, name) == Place(name, Steps(tree, name))

Has(tree, name) == Slot(tree, name) \in DOMAIN tree

\* What is there for a name: nothing, or what was bound to it.
Lookup(tree, name) == IF Has(tree, name) THEN tree[Slot(tree, name)].value ELSE Null

\* The node of a name, made if there is none, is given a value.
Bind(tree, name, value) ==
  [at \in DOMAIN tree \cup {Slot(tree, name)} |->
     IF at = Slot(tree, name) THEN [name |-> name, value |-> value] ELSE tree[at]]

\* A node for the name, without a value if it is new.
Insert(tree, name) == Bind(tree, name, Lookup(tree, name))

=============================================================================
