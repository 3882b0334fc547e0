------------------------------- MODULE MCExpand -----------------------------
(***************************************************************************)
(* Two variables that may refer to each other and to themselves, and one   *)
(* that may be undefined.                                                  *)
(***************************************************************************)
EXTENDS Expand

MCLits == {"a", "b"}
MCVars == {"u", "v", "w"}

a == Lit("a")

\* Values of variables.  None of those that may be part of a cycle prints
\* something before its reference.
Values == {<<>>, <<a>>, <<Ref("u")>>, <<Ref("v")>>, <<Ref("w")>>, <<Ref("u"), Ref("v")>>,
           <<Ref("v"), a>>, <<Esc, Ref("w")>>, <<a, Ref("w"), Esc>>}

Locals ==
  {[u |-> x, v |-> y] : x, y \in Values} \cup
  {[u |-> x, v |-> y, w |-> <<a>>] : x, y \in Values} \cup
  {[u |-> x] : x \in Values}

Globals == {<<>>, [v |-> <<Lit("b")>>], [w |-> <<Ref("v")>>]}

Roots == {<<a>>, <<Ref("u")>>, <<a, Ref("v")>>, <<Esc, Ref("u"), a>>, <<Ref("v"), Ref("w")>>}

MCInputs == [global : Globals, local : Locals, fields : {<<x, y>> : x, y \in Roots}]

=============================================================================
