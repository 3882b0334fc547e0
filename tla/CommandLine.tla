----------------------------- MODULE CommandLine ----------------------------
(***************************************************************************)
(* cmdline_to_argv8(): how a Windows command line, which is one string, is *)
(* split into arguments.                                                   *)
(*                                                                         *)
(* The function reads the string once, a code point at a time, without     *)
(* looking ahead: backslashes are written as they come, and taken back     *)
(* when a quotation mark follows them.  It writes the pointers to the      *)
(* arguments into the first part of an array and their bytes into the      *)
(* second part, and allocates nothing.                                     *)
(***************************************************************************)
EXTENDS Integers, Sequences

CONSTANTS
  CmdMax,    \* elements of a command line, with its null; 32767 in the code
  PtrMax,    \* pointers before the byte buffer; 16384 in the code
  PtrBytes,  \* size of a pointer
  Commands   \* the command lines under consideration

(***************************************************************************)
(* UTF-16 units, each of which stands for its kind: "a" is any unit that   *)
(* takes one byte and has no meaning here, "e" one that takes two bytes,   *)
(* "u" one that takes three, "hi" and "lo" are surrogates.                 *)
(***************************************************************************)
Unit == {"space", "tab", "quote", "backslash", "a", "e", "u", "hi", "lo"}
Rune == Unit \cup {"pair"}
Byte == Rune \cup {"cont", "nul"}

ASSUME SizeAssumption ==
  /\ PtrMax \in Nat \ {0}
  /\ CmdMax = 2 * PtrMax - 1
  /\ PtrBytes \in Nat
ASSUME CommandsAssumption ==
  \A line \in Commands : line \in Seq(Unit) /\ Len(line) < CmdMax

blank(r) == r \in {"space", "tab"}

\* WTF-8: the first byte tells the rune, the others continue it.
Encoded(r) ==
  CASE r = "e" -> <<r, "cont">>
    [] r \in {"u", "hi", "lo"} -> <<r, "cont", "cont">>
    [] r = "pair" -> <<r, "cont", "cont", "cont">>
    [] OTHER -> <<r>>

VARIABLES
  cmd,    \* the command line; never changes
  pos,    \* index of the unit that is read next
  state,  \* state of the automaton
  slash,  \* backslashes in the run under way
  argv,   \* offsets of the arguments in the byte buffer
  buf     \* what the byte buffer holds

vars == <<cmd, pos, state, slash, argv, buf>>

State == {"outside", "unquoted", "quoted", "slashes", "slashesquoted", "closing",
          "begin", "program", "programquoted", "done"}

argc == Len(argv)

TypeOK ==
  /\ cmd \in Commands
  /\ pos \in 1 .. Len(cmd) + 1
  /\ state \in State
  /\ slash \in Nat
  /\ argv \in Seq(Nat)
  /\ buf \in Seq(Byte)

Start(line) ==
  /\ cmd = line
  /\ pos = 1
  /\ state = "begin"
  /\ slash = 0
  /\ argv = <<0>>
  /\ buf = <<>>

Init == \E line \in Commands : Start(line)

-----------------------------------------------------------------------------
More == state # "done" /\ pos <= Len(cmd)

\* Two units that form a surrogate pair are one rune.
Paired == cmd[pos] = "hi" /\ pos < Len(cmd) /\ cmd[pos + 1] = "lo"

c     == IF Paired THEN "pair" ELSE cmd[pos]
Units == IF Paired THEN 2 ELSE 1

Out   == Encoded(c)
Ended == <<"nul">>

\* Fault: half of an odd run is rounded down, so one backslash too many remains.
TakenBackDown == slash \div 2

\* Bytes that a quotation mark takes back of the backslashes before it.
TakenBack == (1 + slash) \div 2

\* The rune is used up: bytes are written, and the automaton moves on.
Uses(next, bytes) ==
  /\ pos' = pos + Units
  /\ state' = next
  /\ buf' = buf \o bytes
  /\ UNCHANGED <<cmd, argv>>

\* The rune is left to be read again in the next state.
Unreads(next) ==
  /\ state' = next
  /\ UNCHANGED <<cmd, pos, argv, slash>>

-----------------------------------------------------------------------------
\* The blank that ends an argument, or the quote that ends a quoted program.
EndArgument ==
  /\ More
  /\ \/ state \in {"begin", "program", "unquoted"} /\ blank(c)
     \/ state = "programquoted" /\ c = "quote"
  /\ Uses("outside", Ended)
  /\ UNCHANGED slash

\* argv[0] begins; in it only a quotation mark in front means anything.
BeginProgram ==
  /\ More
  /\ state = "begin"
  /\ ~blank(c)
  /\ IF c = "quote" THEN Uses("programquoted", <<>>) ELSE Uses("program", Out)
  /\ UNCHANGED slash

SkipBlank ==
  /\ More
  /\ state = "outside"
  /\ blank(c)
  /\ Uses("outside", <<>>)
  /\ UNCHANGED slash

\* An argument begins with its first rune, which may be a quotation mark.
OpenArgument ==
  /\ More
  /\ state = "outside"
  /\ ~blank(c)
  /\ argv' = Append(argv, Len(buf))
  /\ pos' = pos + Units
  /\ state' = CASE c = "quote" -> "quoted" [] c = "backslash" -> "slashes" [] OTHER -> "unquoted"
  /\ slash' = IF c = "backslash" THEN 1 ELSE slash
  /\ buf' = IF c = "quote" THEN buf ELSE buf \o Out
  /\ UNCHANGED cmd

\* Runes that mean nothing where they are.
Copy ==
  /\ More
  /\ \/ state \in {"unquoted", "quoted"} /\ c \notin {"quote", "backslash"}
        /\ ~(state = "unquoted" /\ blank(c))
     \/ state = "program" /\ ~blank(c)
     \/ state = "programquoted" /\ c # "quote"
  /\ Uses(state, Out)
  /\ UNCHANGED slash

OpenQuote ==
  /\ More
  /\ state = "unquoted"
  /\ c = "quote"
  /\ Uses("quoted", <<>>)
  /\ UNCHANGED slash

CloseQuote ==
  /\ More
  /\ state = "quoted"
  /\ c = "quote"
  /\ Uses("closing", <<>>)
  /\ UNCHANGED slash

\* Fault: the count of the run before is carried over.
FirstSlashCounted ==
  /\ More
  /\ state \in {"unquoted", "quoted"}
  /\ c = "backslash"
  /\ Uses(IF state = "quoted" THEN "slashesquoted" ELSE "slashes", Out)
  /\ slash' = slash + 1

FirstSlash ==
  /\ More
  /\ state \in {"unquoted", "quoted"}
  /\ c = "backslash"
  /\ Uses(IF state = "quoted" THEN "slashesquoted" ELSE "slashes", Out)
  /\ slash' = 1

\* The state around the run of backslashes: "state -= 2".
Around == IF state = "slashesquoted" THEN "quoted" ELSE "unquoted"

MoreSlashes ==
  /\ More
  /\ state \in {"slashes", "slashesquoted"}
  /\ c = "backslash"
  /\ Uses(state, Out)
  /\ slash' = slash + 1

\* A quotation mark makes the run half as long; an odd one makes it literal.
EndSlashesQuote ==
  /\ More
  /\ state \in {"slashes", "slashesquoted"}
  /\ c = "quote"
  /\ LET kept == SubSeq(buf, 1, Len(buf) - TakenBack)
     IN  IF slash % 2 = 1
         THEN /\ pos' = pos + Units
              /\ state' = Around
              /\ buf' = kept \o Out
              /\ UNCHANGED <<cmd, argv, slash>>
         ELSE Unreads(Around) /\ buf' = kept

EndSlashes ==
  /\ More
  /\ state \in {"slashes", "slashesquoted"}
  /\ c \notin {"quote", "backslash"}
  /\ Unreads(Around)
  /\ UNCHANGED buf

\* A second quotation mark is literal, and the quoted part ends.
Closing ==
  /\ More
  /\ state = "closing"
  /\ IF c = "quote" THEN Uses("unquoted", Out) /\ UNCHANGED slash
                 ELSE Unreads("unquoted") /\ UNCHANGED buf

(***************************************************************************)
(* The last argument and the array of pointers are terminated, in this     *)
(* order.  If all pointers are used, the null pointer falls on the bytes.  *)
(***************************************************************************)
Terminated ==
  LET bytes == buf \o Ended
  IN  IF argc < PtrMax THEN bytes
      ELSE [i \in DOMAIN bytes |-> IF i <= PtrBytes THEN "nul" ELSE bytes[i]]

Finish ==
  /\ state # "done"
  /\ pos = Len(cmd) + 1
  /\ state' = "done"
  /\ buf' = Terminated
  /\ UNCHANGED <<cmd, pos, slash, argv>>

Step ==
  \/ EndArgument \/ BeginProgram \/ SkipBlank \/ OpenArgument \/ Copy
  \/ OpenQuote \/ CloseQuote \/ Closing
  \/ FirstSlash \/ MoreSlashes \/ EndSlashesQuote \/ EndSlashes
  \/ Finish

Stopped == state = "done" /\ UNCHANGED vars

Next == Step \/ Stopped

Spec == Init /\ [][Next]_vars

-----------------------------------------------------------------------------
(***************************************************************************)
(* Properties.                                                             *)
(***************************************************************************)

(***************************************************************************)
(* The rules of CommandLineToArgvW, read with lookahead.  Rest says what is*)
(* left of an argument from a unit on, within quotation marks or not: its  *)
(* bytes, and where to look for the next argument.                         *)
(***************************************************************************)
Is(line, i, r) == i <= Len(line) /\ line[i] = r

NextAt(line, i) == IF Is(line, i, "hi") /\ Is(line, i + 1, "lo") THEN i + 2 ELSE i + 1
RuneAt(line, i) == IF NextAt(line, i) = i + 2 THEN "pair" ELSE line[i]

\* The backslashes from i on.
Run(line, i) ==
  CHOOSE n \in 0 .. Len(line) + 1 - i :
    (\A k \in i .. i + n - 1 : Is(line, k, "backslash")) /\ ~Is(line, i + n, "backslash")

Slashes(n) == [k \in 1 .. n |-> "backslash"]

With(bytes, arg) == [text |-> bytes \o arg.text, next |-> arg.next]

\* argv[0] has rules of its own: backslashes and inner quotes mean nothing.
Mode == {"unquoted", "quoted", "program", "programquoted"}

Quote(line, rest, i, m) ==
  IF m = "quoted" /\ Is(line, i + 1, "quote") THEN With(<<"quote">>, rest[i + 2]["unquoted"])
  ELSE rest[i + 1][IF m = "quoted" THEN "unquoted" ELSE "quoted"]

Backslashes(line, rest, i, m) ==
  LET n == Run(line, i)
  IN  IF ~Is(line, i + n, "quote") THEN With(Slashes(n), rest[i + n][m])
      ELSE IF n % 2 = 0 THEN With(Slashes(n \div 2), rest[i + n][m])
      ELSE With(Append(Slashes(n \div 2), "quote"), rest[i + n + 1][m])

Ends(line, i, m) ==
  \/ i > Len(line)
  \/ m = "programquoted" /\ line[i] = "quote"
  \/ m \in {"unquoted", "program"} /\ blank(line[i])

RestAt(line, rest, i, m) ==
  IF Ends(line, i, m)
  THEN [text |-> <<>>, next |-> IF m = "programquoted" /\ i <= Len(line) THEN i + 1 ELSE i]
  ELSE IF m \in {"unquoted", "quoted"} /\ line[i] = "quote" THEN Quote(line, rest, i, m)
  ELSE IF m \in {"unquoted", "quoted"} /\ line[i] = "backslash" THEN Backslashes(line, rest, i, m)
  ELSE With(Encoded(RuneAt(line, i)), rest[NextAt(line, i)][m])

Rest(line) ==
  LET rest[i \in 1 .. Len(line) + 1] == [m \in Mode |-> RestAt(line, rest, i, m)]
  IN  rest

\* The arguments from i on, of which the first may not have begun yet.
ListAt(line, list, i) ==
  IF i > Len(line) THEN <<>>
  ELSE IF blank(line[i]) THEN list[i + 1]
  ELSE <<Rest(line)[i]["unquoted"].text>> \o list[Rest(line)[i]["unquoted"].next]

List(line) ==
  LET list[i \in 1 .. Len(line) + 1] == ListAt(line, list, i)
  IN  list

Program(line) ==
  IF Is(line, 1, "quote") THEN Rest(line)[2]["programquoted"] ELSE Rest(line)[1]["program"]

Arguments(line) == <<Program(line).text>> \o List(line)[Program(line).next]

\* The bytes from where a pointer leads up to the null.
CString(bytes, from) ==
  LET nul == CHOOSE i \in from + 1 .. Len(bytes) :
               bytes[i] = "nul" /\ \A j \in from + 1 .. i - 1 : bytes[j] # "nul"
  IN  SubSeq(bytes, from + 1, nul - 1)

Argument(k) == CString(buf, argv[k])

(***************************************************************************)
(* The arguments are those of "field splitting semantics identical to      *)
(* CommandLineToArgvW", for any command line: taking backslashes back, and *)
(* reading a rune again in another state, comes to the same as looking     *)
(* ahead.                                                                  *)
(***************************************************************************)
ArgumentsExact ==
  state = "done" => [k \in 1 .. argc |-> Argument(k)] = Arguments(cmd)

(***************************************************************************)
(* Both parts of the array are large enough while the command line is read,*)
(* so that no further allocation is necessary, and backslashes are never   *)
(* taken back from beyond the argument they are in.                        *)
(***************************************************************************)
Fits ==
  /\ argc <= PtrMax
  /\ Len(buf) <= 3 * Len(cmd) + 1
  /\ argv[argc] <= Len(buf)
  /\ state \in {"slashes", "slashesquoted"} => slash <= Len(buf) - argv[argc]

=============================================================================
