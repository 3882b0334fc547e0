------------------------------- MODULE MCParse ------------------------------
(***************************************************************************)
(* Files of up to two lines of all kinds, each in all styles, and of five  *)
(* plain ones, for variables with the same digits, or the same hash.       *)
(***************************************************************************)
EXTENDS Parse

MCKnown == {<<"N">>, <<"N", "a">>}

MCHash(name0) ==
  CASE name0 \in {<<"a">>, <<"b">>, <<"b", "a">>} -> <<3>>
    [] name0 = <<"a", "a">>                      -> <<3, 2>>
    [] OTHER                                     -> <<1>>

Plain == [indent |-> <<>>, mid |-> <<>>, post |-> <<>>, joint |-> <<>>, trail |-> <<>>,
          eol |-> <<"\n">>]

Styles ==
  {Plain,
   [Plain EXCEPT !.indent = <<" ">>, !.mid = <<" ">>, !.post = <<" ">>, !.trail = <<" ">>],
   [Plain EXCEPT !.eol = <<"\r", "\n">>, !.joint = <<"\\", "\r", "\n">>],
   [Plain EXCEPT !.post = <<" ", "\\", "\n", " ">>, !.trail = <<" ", "#", "a", "=">>],
   [Plain EXCEPT !.indent = <<"\n", " ">>, !.joint = <<"\\", "\n">>, !.trail = <<"#", "\\">>]}

MCValues == {<<>>, <<"a">>, <<"a", " ", ":">>, <<"#", "\\", "a">>, <<"a", "=", "#">>}

Names == {<<"=", <<"a">> >>, <<"=", <<"a", "b">> >>,
          <<":", <<"N">> >>, <<":", <<"N", "a">> >>, <<":", <<"U">> >>}

L(kind, name0, value, style) ==
  [kind |-> kind, name |-> name0, value |-> value, style |-> style]

AllLines ==
  {L(n[1], n[2], value, style) : n \in Names, value \in MCValues, style \in Styles} \cup
  {L("comment", <<"N">>, <<":">>, style) : style \in Styles} \cup
  {L("ignored", <<"a", "b">>, <<>>, style) : style \in Styles}

HashedLines ==
  {L("=", n, <<"a">>, Plain) :
     n \in {<<"a">>, <<"b">>, <<"b", "a">>, <<"a", "a">>, <<"a", "b">>}}

MCInputs ==
  [lines : {<<>>} \cup {<<x>> : x \in AllLines}, final : BOOLEAN] \cup
  [lines : {<<x, y>> : x \in {z \in AllLines : z.value \in {<<>>, <<"a", "=", "#">>, <<":">>}},
                       y \in AllLines}, final : {FALSE}] \cup
  [lines : [1 .. 5 -> HashedLines], final : {TRUE}]

=============================================================================
