------------------------------- MODULE MCPaths ------------------------------
(***************************************************************************)
(* All short command lines; all short paths in all contexts; and all short *)
(* texts of a field.                                                       *)
(***************************************************************************)
EXTENDS Paths

SeqsUpTo(S, n) == UNION {[1 .. k -> S] : k \in 0 .. n}

\* Every combination of what splitting reacts to, and of runes and halves.
Lines == SeqsUpTo({"space", "quote", "backslash", "a"}, 6)
           \cup SeqsUpTo({"e", "hi", "lo", "quote", "space"}, 4)
           \cup {<<"u", "tab">> \o line : line \in SeqsUpTo({"tab", "quote", "backslash", "u"}, 4)}

\* A command line that needs as many pointers as there are.
LongLines == [1 .. 6 -> {"space", "a"}]

NoLines == {}
NoTexts == {}

P(before, path, after) == [before |-> before, path |-> path, after |-> after]

\* The contexts of Q!Around.
Contexts == {<< <<"a">>, <<"a">> >>, << <<"\"">>, <<"\"">> >>, << <<"a", "'">>, <<"'", "a">> >>}

ASSUME ContextsAssumption == Contexts = Q!Around

PathsOf(bytes, n) ==
  {P(context[1], path, context[2]) :
     context \in Contexts, path \in SeqsUpTo(bytes, n)}

\* A "~" in front of a word means something to a shell.
InFront(p) == Len(p.before) = 1 /\ p.before[1] = "\"" /\ p.path # <<>> /\ p.path[1] = "~"

\* Paths of any bytes but quotation marks, semicolons and line ends.
PlainPaths ==
  {p \in PathsOf({"a", "*", " ", "\t", "\r", "$", "(", ")", "\\", "~"}, 3) : ~InFront(p)}

\* Text straight from a package file.
Texts ==
  {P(text0, <<>>, <<>>) :
     text0 \in SeqsUpTo({"a", "*", " ", "\n", "$", ";", "~", "'", "\"", "\\"}, 4)}

\* Whatever a variable and the text around it may hold.
MixedTexts == {P(text0, path, <<>>) : text0 \in SeqsUpTo({"a", " ", "'", "\""}, 3),
                                      path \in SeqsUpTo({"a", " ", "$", "'", ";", "~", "\n"}, 2)}

AllTexts == PlainPaths \cup Texts \cup MixedTexts

\* Paths with an apostrophe in them.
QuotePaths == PathsOf({"a", "'"}, 3)

=============================================================================
