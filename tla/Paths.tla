-------------------------------- MODULE Paths -------------------------------
(***************************************************************************)
(* A path on its way from the user to the shell that reads the output.     *)
(*                                                                         *)
(* The user names a directory on the command line.  A POSIX system passes  *)
(* the argument as it is; on Windows it is first cut out of the command    *)
(* line (CommandLine).  Encoded by pathencode(), it becomes the value of   *)
(* pcfiledir or prefix, and with it part of a field, which dequote() takes *)
(* apart (Quoting).                                                        *)
(***************************************************************************)
EXTENDS CommandLine

CONSTANT Inputs    \* pieces of fields, with the path that the system passes

VARIABLES
  piece, text, quote, mem, phase    \* as in Quoting

Q == INSTANCE Quoting

ASSUME PiecesAssumption == Inputs \subseteq Q!Piece

fieldvars == <<piece, text, quote, mem, phase>>
pathvars  == <<vars, fieldvars>>

\* On Windows there is no path before the command line has been split.
Waiting ==
  /\ piece = [before |-> <<>>, path |-> <<>>, after |-> <<>>]
  /\ text = <<>>
  /\ quote = "none"
  /\ mem = <<>>
  /\ phase = "waiting"

InitPath ==
  \/ Init /\ Waiting
  \/ Start(<<>>) /\ Q!Init

Split == phase = "waiting" /\ Step /\ UNCHANGED fieldvars

\* The last argument is the directory.  Its bytes have no meaning to a shell but
\* for blanks and backslashes; the paths that have some are those of Inputs.
Directory ==
  LET byte(r) == CASE r = "space" -> " " [] r = "tab" -> "\t"
                   [] r = "backslash" -> "\\" [] OTHER -> "a"
  IN  [i \in DOMAIN Argument(argc) |-> byte(Argument(argc)[i])]

\* No check of the code: Windows has no directory with such a name.
Quotable == \A i \in DOMAIN Argument(argc) : Argument(argc)[i] # "quote"

PassOn ==
  /\ phase = "waiting"
  /\ state = "done"
  /\ argc > 1 /\ Quotable
  /\ \E context \in Q!Around :
       piece' = [before |-> context[1], path |-> Directory, after |-> context[2]]
  /\ text' = Q!TextOf(piece')
  /\ phase' = "skip"
  /\ UNCHANGED <<vars, quote, mem>>

Dequote == Q!Next /\ UNCHANGED vars

\* Nothing to pass on: the command line names no directory.
NoPath ==
  /\ phase = "waiting"
  /\ state = "done"
  /\ ~(argc > 1 /\ Quotable)
  /\ UNCHANGED pathvars

NextPath == Split \/ PassOn \/ Dequote \/ NoPath

SpecPath == InitPath /\ [][NextPath]_pathvars

-----------------------------------------------------------------------------
\* The properties of dequote(), for paths from either system.
PathAsItself == Q!PathAsItself
TokenMeaning == Q!TokenMeaning
Consumes     == Q!Consumes

=============================================================================
