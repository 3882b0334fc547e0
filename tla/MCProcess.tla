----------------------------- MODULE MCProcess ------------------------------
(***************************************************************************)
(* Small instances of Process: all graphs of three packages, graphs of     *)
(* four whose traversal needs the whole stack, and graphs of three in      *)
(* which loading fails or a limit is met.                                  *)
(***************************************************************************)
EXTENDS Process

CONSTANTS a, b, c, d

Any(p)  == [pkg |-> p, sat |-> TRUE]
Old(p)  == [pkg |-> p, sat |-> FALSE]

\* An invocation that differs from Plain in no setting.
Asking(roots, requires, private) ==
  [roots |-> roots, requires |-> requires, private |-> private, broken |-> {},
   maxdepth |-> 1000, recursive |-> TRUE, ignoreVersions |-> FALSE]

Three == {a, b, c}

\* Functions from the packages to an element of the set for each.
Choices(A, B, C, D) ==
  {[p \in Pkgs |-> CASE p = a -> t[1] [] p = b -> t[2] [] p = c -> t[3] [] p = d -> t[4]] :
     t \in A \X B \X C \X D}

None == {<<>>}

-----------------------------------------------------------------------------
(***************************************************************************)
(* Every graph of three packages with up to two public and one private     *)
(* require each.  Roots stand for all others by a renaming of the packages.*)
(***************************************************************************)
OtherSpecs(p) == {Any(q) : q \in Three \ {p}}

UpToOne(p) == {<<>>} \cup {<<s>> : s \in OtherSpecs(p)}

UpToTwo(p) == UpToOne(p) \cup {st \in OtherSpecs(p) \X OtherSpecs(p) : st[1] # st[2]}

GraphInputs ==
  {Asking(roots, requires, private) :
     roots    \in {<<Any(a)>>, <<Any(a), Any(b)>>, <<Any(a), Any(b), Any(c)>>,
                   <<Any(a), Any(b), Any(a)>>},
     requires \in Choices(UpToTwo(a), UpToTwo(b), UpToTwo(c), None),
     private  \in Choices(UpToOne(a), UpToOne(b), UpToOne(c), None)}

-----------------------------------------------------------------------------
(***************************************************************************)
(* Four packages, each of which may require the next ones: some of these   *)
(* graphs need more of the stack than there is.                            *)
(***************************************************************************)
DeepInputs ==
  {[Asking(<<Any(a)>>, requires, private) EXCEPT !.maxdepth = depth] :
     requires \in Choices({<<Any(b)>>, <<Any(c), Any(b)>>}, {<<>>, <<Any(a), Any(c)>>},
                          {<<>>, <<Any(d)>>}, {<<>>, <<Any(a)>>}),
     private  \in Choices({<<>>, <<Any(b)>>, <<Any(c), Any(b)>>}, {<<>>, <<Any(c)>>},
                          {<<>>, <<Any(d)>>, <<Any(a), Any(d)>>}, {<<>>, <<Any(a)>>}),
     depth    \in {3, 1000}}

-----------------------------------------------------------------------------
(***************************************************************************)
(* Limits and failures: self-requires, broken packages, versions that do   *)
(* not fit, a depth limit, and no recursion.                               *)
(***************************************************************************)
Few == {<<>>, <<Any(a)>>, <<Any(b)>>, <<Any(c)>>, <<Any(c), Any(b)>>}

FewRequires ==
  Choices(Few, {<<>>, <<Any(a)>>, <<Any(c)>>}, {<<>>, <<Any(a)>>, <<Any(c), Any(b)>>}, None)

FewPrivate == Choices({<<>>, <<Any(c)>>}, {<<>>, <<Any(c)>>}, None, None)

FewRoots == {<<>>, <<Any(a)>>, <<Any(c), Any(a)>>}

Limited ==
  {[Asking(roots, requires, private) EXCEPT !.maxdepth = depth] :
     roots \in FewRoots, requires \in FewRequires, private \in FewPrivate,
     depth \in {0, 1, 2, 3}}

Failing ==
  {[Asking(roots, requires, [p \in Pkgs |-> <<>>])
      EXCEPT !.broken = broken, !.recursive = recursive, !.ignoreVersions = ignore] :
     roots     \in {<<Any(a)>>, <<Any(c), Any(a)>>, <<Old(a), Any(b)>>, <<Any(a), Old(a)>>},
     requires  \in LET few == {<<>>, <<Old(b)>>, <<Any(c)>>} IN Choices(few, few, few, None),
     broken    \in {{}, {b}, {c}},
     recursive \in BOOLEAN,
     ignore    \in BOOLEAN}

AllInputs == GraphInputs \cup DeepInputs \cup Limited \cup Failing

\* main_test.c: the package "test" is asked for with and without a version.
VersionInputs ==
  {Asking(<<Any(a), Old(a)>>, [p \in Pkgs |-> <<>>], [p \in Pkgs |-> <<>>])}
    \cup
  {Asking(<<Any(a)>>, requires, [p \in Pkgs |-> <<>>]) :
     requires \in LET few == {<<>>, <<Any(b)>>} IN Choices(few, few, few, None)}

=============================================================================
