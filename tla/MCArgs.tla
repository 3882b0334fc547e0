------------------------------- MODULE MCArgs -------------------------------
(***************************************************************************)
(* All short sequences of tokens over a few arguments, with and without a  *)
(* system path and a filter.                                               *)
(***************************************************************************)
EXTENDS Args

CONSTANTS x, y

A(flag, value) == [flag |-> flag, value |-> value]
D(kind, value) == [kind |-> kind, value |-> value]

Tokens ==
  {A("-I", x), A("-I", NoValue), A("-L", x), A("-l", x), A("-l", y), A("other", y)}

SeqsUpTo(S, n) == UNION {[1 .. k -> S] : k \in 0 .. n}

J(filter, flag, dirs, tokens) ==
  [filter |-> filter, sysflag |-> flag, syspath |-> dirs, tokens |-> tokens]

\* No filter: every sequence of up to four tokens.
Whole ==
  {J("ANY", flag, dirs, tokens) :
     flag \in {"-I"}, dirs \in {<<>>, <<D("whole", y), D("empty", NoValue), D("whole", x)>>},
     tokens \in SeqsUpTo(Tokens, 4)}

\* Two directories, two libraries: what the options for libraries print.
Libs ==
  {J("ANY", "-L", dirs, tokens) :
     dirs \in {<<>>, <<D("whole", x)>>},
     tokens \in SeqsUpTo({A("-L", x), A("-L", y), A("-l", x), A("-l", y)}, 5)}

\* The filters, entries that are no whole token or one of quotes alone, both
\* flags with a detached value, and a token that is no token.
Filtered ==
  {J(filter, "-L", dirs, tokens) :
     filter \in Filter,
     dirs \in {<<>>, <<D("other", x), D("whole", NoValue)>>},
     tokens \in SeqsUpTo({A("-I", x), A("-L", x), A("-l", x), A("-pthread", NoValue),
                          A("-I", NoValue), A("-L", NoValue), A("other", y), Unmatched}, 3)}

MCInputs == Whole \cup Libs \cup Filtered

=============================================================================
