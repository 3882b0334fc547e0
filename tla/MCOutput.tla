------------------------------- MODULE MCOutput -----------------------------
(***************************************************************************)
(* Texts shorter than a buffer, that just fill it, and that fill it twice; *)
(* and a character at each place, also where it is torn.                   *)
(***************************************************************************)
EXTENDS Output

In(prints, message, messages, pair, platform) ==
  [prints |-> prints, message |-> message, messages |-> messages, pair |-> pair,
   platform |-> platform]

FileInputs ==
  {In(prints, message, messages, 0, platform) :
     prints \in {<<>>} \cup {<<m>> : m \in {3, 4, 8, 9}} \cup {<<m, n>> : m, n \in {0, 2, 3, 5}},
     message \in {0, 2, 3, 5},
     messages \in {"stderr", "stdout", "null"},
     platform \in {"posix", "windows", "wasm"}}

ConsoleInputs ==
  {In(prints, message, messages, pair, "console") :
     prints \in {<<m, n>> : m \in {0, 3, 4}, n \in {5, 6}},
     message \in {0, 3}, messages \in {"stderr", "stdout"}, pair \in 0 .. 4}

MCInputs == FileInputs \cup ConsoleInputs

=============================================================================
