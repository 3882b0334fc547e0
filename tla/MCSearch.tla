------------------------------- MODULE MCSearch -----------------------------
(***************************************************************************)
(* Three directories, one of which is not named "pkgconfig".               *)
(* Listings are of e, with one entry, d, with three, which may be in the   *)
(* list twice, and f, which cannot be opened; the memory is from too       *)
(* little for anything to enough.                                          *)
(***************************************************************************)
EXTENDS Listing

MCDirs == {"d", "e", "f"}

In(env, fixed, w, define, req, dir0, h, f) ==
  [envpath |-> env, fixedpath |-> fixed, withs |-> w, define_prefix |-> define,
   request |-> req, direct |-> dir0, home |-> h, files |-> f]

\* All files in all places.
FileInputs ==
  {In(<<"d">>, <<"e">>, <<<<"f">>>>, define, req, dir0, h, f) :
     define \in BOOLEAN, req \in {"name", "path"}, dir0 \in Status, h \in {"d", "f"},
     f \in [MCDirs -> Status]}

\* All ways to build a list.
Envs  == {<<>>, <<"d">>, <<Empty, "e", "d">>, <<Empty>>}
Fixed == {<<>>, <<"f">>, <<"f", Empty, "d">>}
Withs == {<<>>, <<<<"e">>>>, <<<<"d", "f">>, <<Empty, "f", Empty, "e">>>>}

OneGood == {[x \in MCDirs |-> IF x = d THEN "good" ELSE "none"] : d \in MCDirs}

ListInputs ==
  {In(env, fixed, w, TRUE, req, "none", "d", f) :
     env \in Envs, fixed \in Fixed, w \in Withs, req \in {"name", "path", "self"}, f \in OneGood}

\* A --with-path that names no directory, first or last.
EmptyInputs ==
  {In(<<"d">>, <<"e">>, w, TRUE, "name", "none", "d", f) :
     w \in {<<<<>>>>, <<<<"f">>, <<Empty>>>>, <<<<Empty>>, <<"f">>>>}, f \in OneGood}

\* Directories to list.
ListingInputs ==
  {In(env, <<"f">>, <<<<"e">>>>, FALSE, "list", "none", "d", [x \in MCDirs |-> "none"]) :
     env \in {<<"d">>, <<Empty, "d", "d">>}}

Named1(kind, size, variables, parses, refers) ==
  [kind |-> kind, size |-> size, variables |-> variables, parses |-> parses, refers |-> refers]

File1  == Named1("file", 2, 1, TRUE, FALSE)
Refers == Named1("file", 1, 0, TRUE, TRUE)
Entry1 == {File1, Refers, Named1("file", 1, 0, FALSE, FALSE),
           Named1("dir", 0, 0, FALSE, FALSE), Named1("gone", 0, 0, FALSE, FALSE)}
Other  == Named1("other", 0, 0, FALSE, FALSE)

MCShelves ==
  {[platform |-> p, memory |-> n, all |-> all, opens |-> {"d", "e"},
    entries |-> [x \in MCDirs |-> IF x = "d" THEN <<a, Other, b>> ELSE <<File1>>]] :
     p \in {"posix", "linux", "windows", "wasm"}, n \in {1, 3, 5, 6, 7, 8, 10, 12},
     all \in BOOLEAN, a \in Entry1, b \in {File1, Refers}}

MCInputs == FileInputs \cup ListInputs \cup EmptyInputs \cup ListingInputs

=============================================================================
