------------------------------- MODULE MCDriver -----------------------------
(***************************************************************************)
(* Three packages: "p" needs "q" publicly and "r" privately, "r" has a     *)
(* field with an unmatched quote and a variable that does not expand, and  *)
(* "q" a description that expands only with a global definition.  Command  *)
(* lines with any option before the words and most of them after the       *)
(* words, and with three of a few options before the words.  The order of  *)
(* versions is checked, too, for all texts of up to three bytes from ".",  *)
(* "0", "1", "2" and "a".                                                  *)
(***************************************************************************)
EXTENDS Driver

MCText(arg) ==
  CASE arg = "1.9"   -> <<49, 46, 57>>
    [] arg = "1.10"  -> <<49, 46, 49, 48>>
    [] arg = "1.10a" -> <<49, 46, 49, 48, 97>>
    [] LooksLikeOption(arg) -> <<45>>
    [] OTHER         -> <<112>>

Texts == UNION {[1 .. n -> {46, 48, 49, 50, 97}] : n \in 0 .. 3}

ASSUME VersionOrder ==
  \A v, w \in Texts :
    compareversions(v, w) = IF v = w THEN 0 ELSE IF Before(v, w) THEN -1 ELSE 1

Field(seq) == [ok |-> TRUE, args |-> seq]
Broken     == [ok |-> FALSE, args |-> <<>>]

MCRepo ==
  [p |-> [version |-> Text("1.10"), requires |-> {"q"}, private |-> {"r"},
          v |-> "good", describedbyv |-> TRUE,
          cflags |-> Field(<<Token("I", "p"), Token("other", "p")>>),
          cflagsprivate |-> Field(<<Token("other", "pp")>>),
          libs |-> Field(<<Token("L", "p"), Token("l", "p")>>),
          libsprivate |-> Field(<<Token("l", "pp")>>)],
   q |-> [version |-> Text("1.9"), requires |-> {}, private |-> {},
          v |-> "none", describedbyv |-> TRUE,
          cflags |-> Field(<<>>), cflagsprivate |-> Field(<<>>),
          libs |-> Field(<<Token("l", "q"), Token("other", "q")>>), libsprivate |-> Field(<<>>)],
   r |-> [version |-> Text("1.10a"), requires |-> {}, private |-> {"q"},
          v |-> "bad", describedbyv |-> FALSE,
          cflags |-> Field(<<Token("I", "r")>>), cflagsprivate |-> Field(<<>>),
          libs |-> Field(<<Token("l", "r")>>), libsprivate |-> Broken]]

Options == DOMAIN Attached \cup Valued \cup Simple \cup Printing \cup {"--", "--unknown"}

\* A package with a version is named once and required by none.
Words == {<<>>, <<"p">>, <<"q">>, <<"missing">>, <<"p", ">", "1.9">>, <<"p", ">=", "1.10a">>,
          <<"p", "=", "1.10", "q">>, <<"q", "p", "<">>, <<"<=", "q">>, <<"r", "q">>}

Some == {"--cflags", "--libs", "--libs-only-l", "--static", "--max-version", "1.9", "--",
         "--errors-to-stdout"}

\* The options that come after the words.
Late == {"--cflags-only-I", "--cflags-only-other", "--libs", "--libs-only-other", "--modversion",
         "--variable=v", "--define-variable=v=1", "--atleast-version=1.10", "--exact-version",
         "--errors-to-stdout", "--exists", "--validate", "--help", "--unknown"}

MCInputs ==
  {<<o>> \o w : o \in Options, w \in Words} \cup
  {<<o1>> \o w \o <<o2>> : o1 \in Options, o2 \in Late, w \in Words} \cup
  {<<o1, o2, o3>> \o w : o1, o2, o3 \in Some, w \in Words}

=============================================================================
