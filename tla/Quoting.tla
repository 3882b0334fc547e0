------------------------------- MODULE Quoting ------------------------------
(***************************************************************************)
(* dequote(): how the text of a field becomes a token that is printed, and *)
(* pathencode(): how a path gets through it unharmed.                      *)
(*                                                                         *)
(* A path is encoded when it is put in a variable, so that its blanks and  *)
(* parentheses cannot be mistaken for those of the package file.  dequote()*)
(* undoes this, and puts a backslash in front of everything that a shell   *)
(* evaluating the output would not take literally.                         *)
(*                                                                         *)
(* A byte is one of a few that stand for their kind.  The branch of        *)
(* dequote() for a backslash inside double quotes has no counterpart here: *)
(* shellmeta() holds of the backslash, so "escaped" is never set.          *)
(***************************************************************************)
EXTENDS Integers, Sequences

CONSTANT Inputs    \* the pieces of text under consideration

\* Bytes that pathencode() replaces, and the bytes it replaces them with.
Special == {" ", "\t", "\n", "\r", "$", "(", ")"}
Code(b) == CASE b = "\t" -> "0xf8" [] b = "\n" -> "0xf9" [] b = "\r" -> "0xfa"
             [] b = " " -> "0xfb" [] b = "$" -> "0xfc" [] b = "(" -> "0xfd" [] b = ")" -> "0xfe"
Codes   == {Code(b) : b \in Special}

(***************************************************************************)
(* "*" stands for the bytes in the list of shellmeta() that are not named  *)
(* here, all of which mean something to some shell, and "a" for those that *)
(* mean nothing to a shell.  ";" and "~" do, and are not in the list.      *)
(***************************************************************************)
Byte == Special \cup Codes \cup {"a", "*", ";", "~", "'", "\"", "\\"}

(***************************************************************************)
(* A piece of text: a path, encoded, between what the package file puts    *)
(* before and after the variable that holds it.                            *)
(***************************************************************************)
Piece == [before : Seq(Byte), path : Seq(Byte), after : Seq(Byte)]

whitespace(b) == b \in {" ", "\t", "\n", "\r"}

pathencode(b) == IF b \in Special THEN Code(b) ELSE b
pathdecode(b) == IF b \in Codes THEN CHOOSE d \in Special : Code(d) = b ELSE b

\* Fault: bytes that stand for something else are taken literally.
ShellmetaLiteral(b) == b \in {"*", "'", "\"", "\\"}

shellmeta(b) == b \in {"*", "'", "\"", "\\"} \/ b \in Codes

s8pathencode(path) == [i \in DOMAIN path |-> pathencode(path[i])]

TextOf(piece) == piece.before \o s8pathencode(piece.path) \o piece.after

VARIABLES
  piece,    \* the text as it was given; never changes
  text,     \* what dequote() has not read yet; in the end, the tail
  quote,    \* the quotation mark that is open, or "none"
  mem,      \* the token
  phase     \* "skip", "token", "done" or "unmatched"

vars == <<piece, text, quote, mem, phase>>

Init ==
  /\ piece \in Inputs
  /\ text = TextOf(piece)
  /\ quote = "none"
  /\ mem = <<>>
  /\ phase = "skip"

-----------------------------------------------------------------------------
LeadingBlank == text # <<>> /\ whitespace(Head(text))

SkipBlank ==
  /\ phase = "skip"
  /\ LeadingBlank
  /\ text' = Tail(text)
  /\ UNCHANGED <<piece, quote, mem, phase>>

\* Fault: leading blanks end the token at once.
StartTokenAtOnce ==
  /\ phase = "skip"
  /\ phase' = "token"
  /\ UNCHANGED <<piece, text, quote, mem>>

StartToken ==
  /\ phase = "skip"
  /\ ~LeadingBlank
  /\ phase' = "token"
  /\ UNCHANGED <<piece, text, quote, mem>>

\* The next byte of the token; all blanks become spaces.
c == IF whitespace(Head(text)) THEN " " ELSE Head(text)

Reads ==
  /\ phase = "token"
  /\ text # <<>>
  /\ text' = Tail(text)
  /\ UNCHANGED <<piece, phase>>

OpenQuote ==
  /\ Reads
  /\ quote = "none"
  /\ c \in {"'", "\""}
  /\ quote' = c
  /\ UNCHANGED mem

CloseQuote ==
  /\ Reads
  /\ quote = c
  /\ quote' = "none"
  /\ UNCHANGED mem

\* Within quotes the other quotation mark is but another metacharacter.
Quoted == quote # "none" /\ c # quote
Bare   == quote = "none" /\ c \notin {"'", "\""}

\* Fault: a blank within quotes is printed as it is.
EscapesMeta == shellmeta(c)

\* Bytes that the shell would not take literally.
Escapes == shellmeta(c) \/ (Quoted /\ c = " ")

Escape ==
  /\ Reads
  /\ Quoted \/ Bare
  /\ Escapes
  /\ mem' = mem \o <<"\\", pathdecode(c)>>
  /\ UNCHANGED quote

Keep ==
  /\ Reads
  /\ Quoted \/ (Bare /\ c # " ")
  /\ ~Escapes
  /\ mem' = Append(mem, c)
  /\ UNCHANGED quote

\* A blank outside of quotes ends the token, and stays in the tail.
Break ==
  /\ phase = "token"
  /\ text # <<>>
  /\ Bare /\ c = " "
  /\ phase' = "done"
  /\ UNCHANGED <<piece, text, quote, mem>>

End ==
  /\ phase = "token"
  /\ text = <<>>
  /\ phase' = IF quote = "none" THEN "done" ELSE "unmatched"
  /\ UNCHANGED <<piece, text, quote, mem>>

Stopped == phase \in {"done", "unmatched"} /\ UNCHANGED vars

Next ==
  \/ SkipBlank \/ StartToken
  \/ OpenQuote \/ CloseQuote
  \/ Escape \/ Keep
  \/ Break \/ End
  \/ Stopped

Spec == Init /\ [][Next]_vars

-----------------------------------------------------------------------------
(***************************************************************************)
(* Properties.                                                             *)
(***************************************************************************)

(***************************************************************************)
(* What a shell that evaluates the output makes of a token, byte by byte:  *)
(* without a backslash the bytes of ShellActive have a meaning to it, and  *)
(* "~" has one in front of a word.  A backslash makes the next byte        *)
(* literal, and vanishes together with a line end.                         *)
(***************************************************************************)
ShellActive == {" ", "\t", "\n", "'", "\"", "*", ";", "$", "(", ")"}

AsWritten(b, word) == IF b \in ShellActive \/ (b = "~" /\ word = <<>>) THEN "active" ELSE b

ShellAt(token, shell, n) ==
  IF n = 0 THEN [word |-> <<>>, escaped |-> FALSE]
  ELSE LET word == shell[n-1].word
           b    == token[n]
       IN  IF shell[n-1].escaped
           THEN [word |-> IF b = "\n" THEN word ELSE Append(word, b), escaped |-> FALSE]
           ELSE IF b = "\\" THEN [word |-> word, escaped |-> TRUE]
           ELSE [word |-> Append(word, AsWritten(b, word)), escaped |-> FALSE]

\* The word when the shell has read some of the token.
Shell(token) ==
  LET shell[n \in 0 .. Len(token)] == ShellAt(token, shell, n)
  IN  shell

\* A backslash at the end makes whatever follows the token literal.
Evaluated(token) ==
  LET shell == Shell(token)[Len(token)]
  IN  IF shell.escaped THEN Append(shell.word, "active") ELSE shell.word

(***************************************************************************)
(* What the text of a field means.  Quotation marks make the bytes between *)
(* them literal, but any blank there is a space.  Other blanks separate    *)
(* the words.  Dollar signs and parentheses mean to the shell what they    *)
(* mean in the package file, whether they are quoted or not, and so do the *)
(* bytes that shellmeta() does not know, ";" and "~".  An encoded line end *)
(* means nothing.                                                          *)
(***************************************************************************)
Meaning(b, word, open) ==
  IF b = Code("\n") THEN <<>>
  ELSE IF whitespace(b)
  THEN IF open # "none" THEN <<" ">> ELSE IF word = <<>> THEN <<>> ELSE <<"active">>
  ELSE IF b \in {"$", "(", ")", ";"} \/ (b = "~" /\ word = <<>>) THEN <<"active">>
  ELSE <<pathdecode(b)>>

MeantAt(bytes, meant, n) ==
  IF n = 0 THEN [word |-> <<>>, open |-> "none"]
  ELSE LET word == meant[n-1].word
           open == meant[n-1].open
           b    == bytes[n]
       IN  IF open = "none" /\ b \in {"'", "\""} THEN [word |-> word, open |-> b]
           ELSE IF b = open THEN [word |-> word, open |-> "none"]
           ELSE [word |-> word \o Meaning(b, word, open), open |-> open]

\* The word that some of the bytes mean, and the quotation mark open after them.
Meant(bytes) ==
  LET meant[n \in 0 .. Len(bytes)] == MeantAt(bytes, meant, n)
  IN  meant

\* Where a package file may have a variable that holds a path.
Around == {<< <<"a">>, <<"a">> >>, << <<"\"">>, <<"\"">> >>, << <<"a", "'">>, <<"'", "a">> >>}

\* The byte of the text before it, or after it, that is literal in itself.
Literally(bytes) == IF \E i \in DOMAIN bytes : bytes[i] = "a" THEN <<"a">> ELSE <<>>

(***************************************************************************)
(* A path that was encoded is printed, whether the package file quotes it  *)
(* or not, as one token that a shell evaluates to that very path: "Encode  *)
(* paths before variable assignment.  Reversed by dequote() when printed." *)
(* The code keeps this for paths without quotation marks, semicolons, line *)
(* ends, and a "~" that begins the word.                                   *)
(***************************************************************************)
PathAsItself ==
  <<piece.before, piece.after>> \in Around =>
  /\ phase # "unmatched"
  /\ phase = "done" =>
       /\ text = <<>>
       /\ Evaluated(mem) =
            Literally(piece.before) \o piece.path \o Literally(piece.after)

(***************************************************************************)
(* Whatever the text, a shell that evaluates the token takes it for what   *)
(* the bytes that were read mean: nothing of them is lost or added, and    *)
(* nothing but what Meaning() says is active.  The token ends where a word *)
(* ends, and only an open quotation mark is an error.                      *)
(***************************************************************************)
TokenMeaning ==
  LET bytes == TextOf(piece)
      meant == Meant(bytes)[Len(bytes) - Len(text)]
  IN  /\ phase = "done" =>
           /\ Evaluated(mem) = meant.word /\ meant.open = "none"
           /\ text = <<>> \/ LeadingBlank
      /\ phase = "unmatched" => text = <<>> /\ meant.open # "none"

(***************************************************************************)
(* A token takes something off any text that is not empty, so the loop     *)
(* over the tokens of a field ends.                                        *)
(***************************************************************************)
Consumes ==
  phase = "done" /\ TextOf(piece) # <<>> => Len(text) < Len(TextOf(piece))

=============================================================================
