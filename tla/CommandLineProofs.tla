-------------------------- MODULE CommandLineProofs -------------------------
(***************************************************************************)
(* Proofs about CommandLine: the array that cmdline_to_argv8() is given is *)
(* large enough for the pointers and for the bytes, whatever the command   *)
(* line, and for the null pointer if the line is not of maximum length; and*)
(* the arguments are those that the rules, read with lookahead, say.       *)
(*                                                                         *)
(* Then proofs about Paths, which passes an argument on to dequote(): a    *)
(* shell takes the token for what the text means, every token takes some   *)
(* of the text, and a path in its context comes out as itself.             *)
(***************************************************************************)
EXTENDS Paths, SequenceTheorems, WellFoundedInduction, TLAPS

\* Each argument but the first takes two units at least, and the last of
\* the two is missing from the one under way.
PointersBound ==
  2 * argc <= pos + (IF state = "outside" THEN 0 ELSE 1)

\* No unit becomes more than three bytes; the null at the end is one more.
BytesBound == Len(buf) <= 3 * (pos - 1) + (IF state = "done" THEN 1 ELSE 0)

\* What backslashes may be taken back was written for this argument.
SlashBound ==
  /\ argc >= 1
  /\ argv[argc] <= Len(buf)
  /\ state \in {"slashes", "slashesquoted"} => slash <= Len(buf) - argv[argc]

CommandLineInv == TypeOK /\ PointersBound /\ BytesBound /\ SlashBound

-----------------------------------------------------------------------------
(***************************************************************************)
(* A rune takes three bytes at most for each of its units, and those with  *)
(* a meaning take one.                                                     *)
(***************************************************************************)
LEMMA EncodedBytes ==
  ASSUME NEW r \in Rune
  PROVE  /\ Encoded(r) \in Seq(Byte)
         /\ Len(Encoded(r)) \in 1 .. 4
         /\ r # "pair" => Len(Encoded(r)) <= 3
         /\ r \in {"quote", "backslash"} => Len(Encoded(r)) = 1
<1>0. r \in Byte /\ "cont" \in Byte
  BY DEF Byte
<1>1. CASE r = "e"
  <2>1. Encoded(r) = <<r, "cont">>
    BY <1>1 DEF Encoded
  <2>2. <<r, "cont">> \in Seq(Byte) /\ Len(<<r, "cont">>) = 2
    BY <1>0
  <2>3. Encoded(r) \in Seq(Byte) /\ Len(Encoded(r)) = 2
    BY <2>1, <2>2
  <2> QED
    BY <1>1, <2>3, SMTT(30)
<1>2. CASE r \in {"u", "hi", "lo"}
  <2>1. Encoded(r) = <<r, "cont", "cont">>
    BY <1>2 DEF Encoded
  <2>2. <<r, "cont", "cont">> \in Seq(Byte) /\ Len(<<r, "cont", "cont">>) = 3
    BY <1>0
  <2>3. Encoded(r) \in Seq(Byte) /\ Len(Encoded(r)) = 3
    BY <2>1, <2>2
  <2> QED
    BY <1>2, <2>3
<1>3. CASE r = "pair"
  <2>1. Encoded(r) = <<r, "cont", "cont", "cont">>
    BY <1>3 DEF Encoded
  <2>2. <<r, "cont", "cont", "cont">> \in Seq(Byte) /\ Len(<<r, "cont", "cont", "cont">>) = 4
    BY <1>0
  <2>3. Encoded(r) \in Seq(Byte) /\ Len(Encoded(r)) = 4
    BY <2>1, <2>2
  <2> QED
    BY <1>3, <2>3
<1>4. CASE r \notin {"e", "u", "hi", "lo", "pair"}
  <2>1. Encoded(r) = <<r>>
    BY <1>4 DEF Encoded
  <2>2. <<r>> \in Seq(Byte) /\ Len(<<r>>) = 1
    BY <1>0
  <2>3. Encoded(r) \in Seq(Byte) /\ Len(Encoded(r)) = 1
    BY <2>1, <2>2
  <2> QED
    BY <1>4, <2>3
<1> QED
  BY <1>1, <1>2, <1>3, <1>4

(***************************************************************************)
(* What is read is a rune, and reading it stays within the command line.   *)
(***************************************************************************)
LEMMA RuneRead ==
  ASSUME TypeOK, More
  PROVE  /\ c \in Rune
         /\ Units \in 1 .. 2
         /\ c = "pair" <=> Units = 2
         /\ pos + Units <= Len(cmd) + 1
         /\ Out \in Seq(Byte)
         /\ Len(Out) \in 1 .. 3 * Units
         /\ c \in {"quote", "backslash"} => Len(Out) = 1
<1>1. cmd \in Seq(Unit) /\ pos \in 1 .. Len(cmd)
  BY CommandsAssumption DEF TypeOK, More
<1>2. cmd[pos] \in Unit
  BY <1>1
<1>3. /\ c \in Rune
      /\ Units \in 1 .. 2
      /\ c = "pair" <=> Units = 2
      /\ pos + Units <= Len(cmd) + 1
  <2>1. CASE Paired
    BY <1>1, <2>1 DEF c, Units, Paired, Rune
  <2>2. CASE ~Paired
    <3>1. c = cmd[pos] /\ Units = 1 /\ "pair" \notin Unit
      BY <2>2 DEF c, Units, Unit
    <3> QED
      BY <1>1, <1>2, <3>1 DEF Rune
  <2> QED
    BY <2>1, <2>2
<1>4. /\ Out \in Seq(Byte) /\ Len(Out) \in 1 .. 4
      /\ c # "pair" => Len(Out) <= 3
      /\ c \in {"quote", "backslash"} => Len(Out) = 1
  BY <1>3, EncodedBytes DEF Out
<1>5. Len(Out) \in 1 .. 3 * Units
  <2>1. CASE Units = 1
    <3>1. c # "pair"
      BY <1>3, <2>1
    <3>2. Len(Out) <= 3
      BY <1>4, <3>1
    <3>3. Len(Out) \in 1 .. 4
      BY <1>4
    <3> QED
      BY <2>1, <3>2, <3>3, SMTT(30)
  <2>2. CASE Units = 2
    BY <1>4, <2>2
  <2> QED
    BY <1>3, <2>1, <2>2
<1> QED
  BY <1>3, <1>4, <1>5

-----------------------------------------------------------------------------
\* What a concatenation is, as a fact about bytes.
LEMMA Joined ==
  ASSUME NEW s \in Seq(Byte), NEW t \in Seq(Byte)
  PROVE  s \o t \in Seq(Byte) /\ Len(s \o t) = Len(s) + Len(t)
OBVIOUS

LEMMA InitInv == Init => CommandLineInv
<1> SUFFICES ASSUME NEW line \in Commands, Start(line)
             PROVE  CommandLineInv
  BY DEF Init
<1>1. line \in Seq(Unit)
  BY CommandsAssumption
<1>2. TypeOK
  BY <1>1 DEF Start, TypeOK, State
<1>3. argc = 1 /\ argv[argc] = 0 /\ Len(buf) = 0
  BY DEF Start, argc
<1> QED
  BY <1>2, <1>3 DEF Start, CommandLineInv, PointersBound, BytesBound, SlashBound

(***************************************************************************)
(* A rune that is used up makes at most as much longer as it should, and   *)
(* leaves the arguments begun so far in place.                             *)
(***************************************************************************)
LEMMA UsesInv ==
  ASSUME CommandLineInv, More,
         NEW next \in State \ {"done"}, NEW bytes \in Seq(Byte),
         Uses(next, bytes),
         Len(bytes) <= 3 * Units,
         state # "outside" \/ next = "outside",
         slash' \in Nat,
         next \in {"slashes", "slashesquoted"} =>
           slash' <= Len(buf) - argv[argc] + Len(bytes)
  PROVE  CommandLineInv'
<1>1. /\ TypeOK /\ PointersBound /\ BytesBound /\ SlashBound
      /\ Units \in 1 .. 2 /\ pos + Units <= Len(cmd) + 1
  BY RuneRead DEF CommandLineInv
<1>2. /\ Len(buf') = Len(buf) + Len(bytes)
      /\ buf' \in Seq(Byte)
      /\ argv' = argv /\ argc' = argc /\ cmd' = cmd
      /\ pos' = pos + Units /\ state' = next
  BY <1>1 DEF Uses, TypeOK, argc
<1>3. cmd \in Seq(Unit) /\ Len(cmd) \in Nat /\ argc \in Nat /\ Len(buf) \in Nat
  BY <1>1, CommandsAssumption DEF TypeOK, argc
<1>4. TypeOK'
  BY <1>1, <1>2, <1>3 DEF TypeOK
<1>5. PointersBound'
  BY <1>1, <1>2, <1>3 DEF PointersBound, TypeOK
<1>6. BytesBound'
  BY <1>1, <1>2, <1>3, state # "done" DEF BytesBound, TypeOK, More
<1>7. SlashBound'
  <2>1. argv[argc] \in Nat
    BY <1>1, <1>3, SMTT(20) DEF TypeOK, SlashBound, argc
  <2> QED
    BY <1>1, <1>2, <1>3, <2>1, SMTT(30) DEF SlashBound
<1> QED
  BY <1>4, <1>5, <1>6, <1>7 DEF CommandLineInv

(***************************************************************************)
(* So does leaving a rune to be read again, if the bytes taken back are of *)
(* the run of backslashes.                                                 *)
(***************************************************************************)
LEMMA UnreadsInv ==
  ASSUME CommandLineInv, More,
         NEW next \in {"quoted", "unquoted"},
         Unreads(next),
         state # "outside",
         buf' \in Seq(Byte),
         Len(buf') <= Len(buf),
         argv[argc] <= Len(buf')
  PROVE  CommandLineInv'
<1>1. /\ TypeOK /\ PointersBound /\ BytesBound /\ SlashBound
      /\ argc' = argc /\ state' = next
  BY DEF CommandLineInv, Unreads, argc
<1>2. TypeOK'
  BY <1>1 DEF Unreads, TypeOK, State
<1>3. PointersBound' /\ BytesBound' /\ SlashBound'
  BY <1>1 DEF Unreads, PointersBound, BytesBound, SlashBound, More, TypeOK
<1> QED
  BY <1>2, <1>3 DEF CommandLineInv

\* A run of backslashes is at least as long as what is taken back of it.
LEMMA TakenBackBound ==
  ASSUME slash \in Nat
  PROVE  TakenBack \in 0 .. slash /\ (slash % 2 = 1 => TakenBack >= 1)
BY DEF TakenBack

-----------------------------------------------------------------------------
LEMMA OpenArgumentInv ==
  ASSUME CommandLineInv, OpenArgument
  PROVE  CommandLineInv'
<1>1. /\ TypeOK /\ PointersBound /\ BytesBound /\ SlashBound /\ More
      /\ Units \in 1 .. 2 /\ pos + Units <= Len(cmd) + 1
      /\ Out \in Seq(Byte) /\ Len(Out) \in 1 .. 3 * Units
      /\ c = "backslash" => Len(Out) = 1
  BY RuneRead DEF CommandLineInv, OpenArgument
<1>2. Len(cmd) \in Nat /\ argc \in Nat /\ Len(buf) \in Nat
  BY <1>1, CommandsAssumption DEF TypeOK, argc
<1>3. /\ argv' \in Seq(Nat) /\ argc' = argc + 1
      /\ argv'[argc'] = Len(buf)
  <2>1. argv' = Append(argv, Len(buf)) /\ argv \in Seq(Nat)
    BY <1>1 DEF OpenArgument, TypeOK
  <2> QED
    BY <1>2, <2>1 DEF argc
<1>4. /\ buf' \in Seq(Byte)
      /\ Len(buf') >= Len(buf) /\ Len(buf') <= Len(buf) + 3 * Units
      /\ c = "backslash" => Len(buf') = Len(buf) + 1
  <2>0. buf \in Seq(Byte) /\ buf' = IF c = "quote" THEN buf ELSE buf \o Out
    BY <1>1 DEF OpenArgument, TypeOK
  <2>1. CASE c = "quote"
    BY <1>1, <1>2, <2>0, <2>1
  <2>2. CASE c # "quote"
    <3>1. Out \in Seq(Byte) /\ buf' = buf \o Out
      BY <1>1, <2>0, <2>2
    <3>2. buf' \in Seq(Byte) /\ Len(buf') = Len(buf) + Len(Out)
      BY <2>0, <3>1
    <3>3. Len(Out) \in Nat /\ Len(Out) <= 3 * Units /\ (c = "backslash" => Len(Out) = 1)
      BY <1>1
    <3>4. Len(buf') >= Len(buf) /\ Len(buf') <= Len(buf) + 3 * Units
      BY <1>1, <1>2, <3>2, <3>3
    <3> QED
      BY <3>2, <3>3, <3>4
  <2> QED
    BY <2>1, <2>2
<1>5. /\ pos' = pos + Units /\ pos \in Nat
      /\ cmd' = cmd /\ state = "outside"
      /\ state' \in {"quoted", "slashes", "unquoted"}
      /\ state' = "slashes" => c = "backslash"
      /\ slash' = IF c = "backslash" THEN 1 ELSE slash
  BY <1>1 DEF OpenArgument, TypeOK
<1>6. TypeOK'
  BY <1>1, <1>2, <1>3, <1>4, <1>5 DEF TypeOK, State
<1>7. PointersBound'
  BY <1>1, <1>2, <1>3, <1>5 DEF PointersBound
<1>8. BytesBound'
  BY <1>1, <1>2, <1>4, <1>5 DEF BytesBound
<1>9. SlashBound'
  BY <1>1, <1>2, <1>3, <1>4, <1>5 DEF SlashBound
<1> QED
  BY <1>6, <1>7, <1>8, <1>9 DEF CommandLineInv

LEMMA EndSlashesQuoteInv ==
  ASSUME CommandLineInv, EndSlashesQuote
  PROVE  CommandLineInv'
<1> DEFINE kept == SubSeq(buf, 1, Len(buf) - TakenBack)
<1>1. /\ TypeOK /\ PointersBound /\ BytesBound /\ SlashBound /\ More
      /\ state \in {"slashes", "slashesquoted"}
      /\ Units \in 1 .. 2 /\ pos + Units <= Len(cmd) + 1
      /\ Out \in Seq(Byte) /\ Len(Out) = 1
      /\ Around \in {"quoted", "unquoted"}
  BY RuneRead DEF CommandLineInv, EndSlashesQuote, Around
<1>2. /\ Len(cmd) \in Nat /\ argc \in Nat /\ Len(buf) \in Nat
      /\ argv[argc] \in Nat /\ argv[argc] <= Len(buf) - slash
      /\ slash \in Nat /\ TakenBack \in 0 .. slash
  <2>1. Len(cmd) \in Nat
    BY <1>1, CommandsAssumption DEF TypeOK
  <2>2. argv \in Seq(Nat) /\ buf \in Seq(Byte) /\ slash \in Nat
    BY <1>1 DEF TypeOK
  <2>3. argc = Len(argv) /\ argc \in Nat /\ argc >= 1 /\ Len(buf) \in Nat
    BY <1>1, <2>2 DEF argc, SlashBound
  <2>4. argv[argc] \in Nat
    BY <2>2, <2>3
  <2>5. slash <= Len(buf) - argv[argc]
    BY <1>1 DEF SlashBound
  <2>6. argv[argc] <= Len(buf) - slash
    BY <2>2, <2>3, <2>4, <2>5
  <2>7. TakenBack \in 0 .. slash
    BY <2>2, TakenBackBound
  <2> QED
    BY <2>1, <2>2, <2>3, <2>4, <2>6, <2>7
<1>3. /\ kept \in Seq(Byte)
      /\ Len(kept) = Len(buf) - TakenBack
      /\ Len(kept) >= argv[argc]
  <2>1. buf \in Seq(Byte)
    BY <1>1 DEF TypeOK
  <2>2. Len(buf) - TakenBack \in 0 .. Len(buf) /\ Len(buf) - TakenBack >= argv[argc]
    BY <1>2
  <2>3. kept \in Seq(Byte) /\ Len(kept) = Len(buf) - TakenBack
    BY <2>1, <2>2
  <2> QED
    BY <2>2, <2>3
<1> HIDE DEF kept
<1>4. CASE slash % 2 = 1
  <2>1. /\ pos' = pos + Units /\ state' = Around /\ buf' = kept \o Out
        /\ UNCHANGED <<cmd, argv, slash>>
    BY <1>4 DEF EndSlashesQuote, kept
  <2>2. buf' \in Seq(Byte) /\ Len(buf') = Len(kept) + 1 /\ Len(buf') <= Len(buf)
    <3>0. kept \in Seq(Byte) /\ Out \in Seq(Byte) /\ Len(Out) = 1
      BY <1>1, <1>3
    <3>1. TakenBack >= 1 /\ TakenBack \in Nat
      BY <1>2, <1>4, TakenBackBound
    <3>2. Len(kept \o Out) = Len(kept) + 1 /\ kept \o Out \in Seq(Byte)
      BY <3>0, Joined
    <3>3. Len(kept) + 1 <= Len(buf)
      BY <1>2, <1>3, <3>1
    <3>4. Len(buf') = Len(kept) + 1 /\ buf' \in Seq(Byte)
      BY <2>1, <3>2
    <3> QED
      BY <3>3, <3>4
  <2>3. TypeOK'
    BY <1>1, <1>2, <2>1, <2>2, SMTT(30) DEF TypeOK, State
  <2>4. PointersBound' /\ BytesBound'
    BY <1>1, <1>2, <2>1, <2>2, SMTT(30) DEF PointersBound, BytesBound, TypeOK, argc, More
  <2>5. SlashBound'
    <3>1. argc' = argc /\ argv'[argc'] = argv[argc]
      BY <2>1 DEF argc
    <3>2. argv[argc] <= Len(buf')
      BY <1>2, <1>3, <2>2
    <3>3. argc >= 1 /\ state' \notin {"slashes", "slashesquoted"}
      BY <1>1, <2>1 DEF SlashBound
    <3> QED
      BY <3>1, <3>2, <3>3 DEF SlashBound
  <2> QED
    BY <2>3, <2>4, <2>5 DEF CommandLineInv
<1>5. CASE slash % 2 # 1
  <2>1. Unreads(Around) /\ buf' = kept
    BY <1>5 DEF EndSlashesQuote, kept
  <2>2. Len(buf') <= Len(buf) /\ argv[argc] <= Len(buf') /\ buf' \in Seq(Byte)
    BY <1>2, <1>3, <2>1
  <2> QED
    BY <1>1, <2>1, <2>2, UnreadsInv
<1> QED
  BY <1>4, <1>5

LEMMA FinishInv ==
  ASSUME CommandLineInv, Finish
  PROVE  CommandLineInv'
<1>1. /\ TypeOK /\ PointersBound /\ BytesBound /\ SlashBound
      /\ state # "done" /\ state' = "done"
      /\ UNCHANGED <<cmd, pos, slash, argv>> /\ argc' = argc
  BY DEF CommandLineInv, Finish, argc
<1>2. Terminated \in Seq(Byte) /\ Len(Terminated) = Len(buf) + 1
  <2> DEFINE bytes == buf \o Ended
  <2>1. bytes \in Seq(Byte) /\ Len(bytes) = Len(buf) + 1 /\ "nul" \in Byte
    BY <1>1 DEF TypeOK, Ended, Byte
  <2>2. CASE argc < PtrMax
    BY <2>1, <2>2 DEF Terminated
  <2>3. CASE ~(argc < PtrMax)
    <3> DEFINE clobbered == [i \in DOMAIN bytes |-> IF i <= PtrBytes THEN "nul" ELSE bytes[i]]
    <3>1. DOMAIN bytes = 1 .. Len(buf) + 1 /\ Len(buf) + 1 \in Nat
      BY <1>1, <2>1 DEF TypeOK
    <3>2. clobbered \in [1 .. Len(buf) + 1 -> Byte]
      BY <2>1, <3>1
    <3>3. clobbered \in Seq(Byte) /\ Len(clobbered) = Len(buf) + 1
      BY <3>1, <3>2
    <3> QED
      BY <2>3, <3>3 DEF Terminated
  <2> QED
    BY <2>2, <2>3
<1>3. TypeOK'
  BY <1>1, <1>2 DEF TypeOK, State, Finish
<1>4. PointersBound' /\ BytesBound'
  BY <1>1, <1>2 DEF PointersBound, BytesBound, TypeOK, Finish, argc
<1>5. SlashBound'
  <2>1. Len(buf) \in Nat /\ argv[argc] \in Nat
    BY <1>1 DEF TypeOK, SlashBound, argc
  <2> QED
    BY <1>1, <1>2, <2>1 DEF SlashBound, Finish
<1> QED
  BY <1>3, <1>4, <1>5 DEF CommandLineInv

LEMMA StepInv == CommandLineInv /\ [Next]_vars => CommandLineInv'
<1> SUFFICES ASSUME CommandLineInv, [Next]_vars
             PROVE  CommandLineInv'
  OBVIOUS
<1>0. TypeOK /\ SlashBound /\ Len(buf) \in Nat /\ argv[argc] \in Nat /\ slash \in Nat
      /\ Ended \in Seq(Byte) /\ Len(Ended) = 1
  BY DEF CommandLineInv, TypeOK, SlashBound, argc, Ended, Byte
<1> DEFINE none == <<>>
<1>a. none \in Seq(Byte) /\ Len(none) = 0
  OBVIOUS
<1> HIDE DEF none
<1>b. ASSUME More
      PROVE  /\ Out \in Seq(Byte) /\ Len(Out) <= 3 * Units
             /\ Len(none) <= 3 * Units /\ Len(Ended) <= 3 * Units
             /\ c = "backslash" => Len(Out) = 1
  <2>1. /\ Units \in 1 .. 2 /\ Out \in Seq(Byte) /\ Len(Out) \in 1 .. 3 * Units
        /\ c = "backslash" => Len(Out) = 1
    BY <1>0, <1>b, RuneRead
  <2>2. 3 * Units \in Nat /\ 3 * Units >= 3
    BY <2>1
  <2> QED
    BY <1>0, <1>a, <2>1, <2>2
<1>1. CASE EndArgument
  <2>1. /\ More /\ Uses("outside", Ended) /\ slash' = slash
    BY <1>1 DEF EndArgument
  <2> QED
    BY <1>0, <1>b, <2>1, UsesInv DEF State
<1>2. CASE BeginProgram
  <2>1. More /\ state = "begin" /\ slash' = slash
    BY <1>2 DEF BeginProgram
  <2>2. CASE c = "quote"
    <3>1. Uses("programquoted", none)
      BY <1>2, <2>2 DEF BeginProgram, none
    <3> QED
      BY <1>0, <1>b, <1>a, <2>1, <3>1, UsesInv DEF State
  <2>3. CASE c # "quote"
    <3>1. Uses("program", Out)
      BY <1>2, <2>3 DEF BeginProgram
    <3> QED
      BY <1>0, <1>b, <2>1, <3>1, UsesInv DEF State
  <2> QED
    BY <2>2, <2>3
<1>3. CASE SkipBlank
  <2>1. /\ More /\ Uses("outside", none) /\ slash' = slash
        /\ state = "outside"
    BY <1>3 DEF SkipBlank, none
  <2> QED
    BY <1>0, <1>b, <1>a, <2>1, UsesInv DEF State
<1>4. CASE OpenArgument
  BY <1>4, OpenArgumentInv
<1>5. CASE Copy
  <2>1. /\ More /\ Uses(state, Out) /\ slash' = slash
        /\ state \in {"unquoted", "quoted", "program", "programquoted"}
    BY <1>5 DEF Copy
  <2> QED
    BY <1>0, <1>b, <2>1, UsesInv DEF State
<1>6. CASE OpenQuote
  <2>1. /\ More /\ Uses("quoted", none) /\ slash' = slash
        /\ state = "unquoted"
    BY <1>6 DEF OpenQuote, none
  <2> QED
    BY <1>0, <1>b, <1>a, <2>1, UsesInv DEF State
<1>7. CASE CloseQuote
  <2>1. /\ More /\ Uses("closing", none) /\ slash' = slash
        /\ state = "quoted"
    BY <1>7 DEF CloseQuote, none
  <2> QED
    BY <1>0, <1>b, <1>a, <2>1, UsesInv DEF State
<1>8. CASE Closing
  <2>1. More /\ state = "closing"
    BY <1>8 DEF Closing
  <2>2. CASE c = "quote"
    <3>1. Uses("unquoted", Out) /\ slash' = slash
      BY <1>8, <2>2 DEF Closing
    <3> QED
      BY <1>0, <1>b, <2>1, <3>1, UsesInv DEF State
  <2>3. CASE c # "quote"
    <3>1. Unreads("unquoted") /\ buf' = buf
      BY <1>8, <2>3 DEF Closing
    <3>2. buf' \in Seq(Byte) /\ Len(buf') <= Len(buf) /\ argv[argc] <= Len(buf')
      BY <1>0, <3>1 DEF TypeOK, SlashBound
    <3> QED
      BY <2>1, <3>1, <3>2, UnreadsInv
  <2> QED
    BY <2>2, <2>3
<1>9. CASE FirstSlash
  <2>1. /\ More /\ c = "backslash"
        /\ Uses(IF state = "quoted" THEN "slashesquoted" ELSE "slashes", Out)
        /\ state \in {"unquoted", "quoted"} /\ slash' = 1
    BY <1>9 DEF FirstSlash
  <2>2. /\ (IF state = "quoted" THEN "slashesquoted" ELSE "slashes") \in
             {"slashes", "slashesquoted"}
        /\ slash' \in Nat
        /\ slash' <= Len(buf) - argv[argc] + Len(Out)
    <3>1. Len(Out) = 1
      BY <1>b, <2>1
    <3> QED
      BY <1>0, <2>1, <3>1 DEF SlashBound
  <2> QED
    BY <1>0, <1>b, <2>1, <2>2, UsesInv DEF State
<1>10. CASE MoreSlashes
  <2>1. /\ More /\ Uses(state, Out) /\ c = "backslash"
        /\ state \in {"slashes", "slashesquoted"} /\ slash' = slash + 1
    BY <1>10 DEF MoreSlashes
  <2>2. /\ state \in {"slashes", "slashesquoted"}
        /\ slash' \in Nat
        /\ slash' <= Len(buf) - argv[argc] + Len(Out)
    <3>1. Len(Out) = 1
      BY <1>b, <2>1
    <3> QED
      BY <1>0, <2>1, <3>1 DEF SlashBound
  <2> QED
    BY <1>0, <1>b, <2>1, <2>2, UsesInv DEF State
<1>11. CASE EndSlashesQuote
  BY <1>11, EndSlashesQuoteInv
<1>12. CASE EndSlashes
  <2>1. More /\ Unreads(Around) /\ buf' = buf /\ state \in {"slashes", "slashesquoted"}
    BY <1>12 DEF EndSlashes
  <2>2. Around \in {"quoted", "unquoted"}
    BY DEF Around
  <2>3. buf' \in Seq(Byte) /\ Len(buf') <= Len(buf) /\ argv[argc] <= Len(buf')
    BY <1>0, <2>1 DEF TypeOK, SlashBound
  <2> QED
    BY <2>1, <2>2, <2>3, UnreadsInv
<1>13. CASE Finish
  BY <1>13, FinishInv
<1>14. CASE UNCHANGED vars
  <2>1. UNCHANGED <<cmd, pos, state, slash, argv, buf>> /\ argc' = argc
    BY <1>14 DEF vars, argc
  <2>2. TypeOK' /\ PointersBound' /\ BytesBound' /\ SlashBound'
    BY <2>1 DEF CommandLineInv, TypeOK, PointersBound, BytesBound, SlashBound
  <2> QED
    BY <2>2 DEF CommandLineInv
<1> QED
  BY <1>1, <1>2, <1>3, <1>4, <1>5, <1>6, <1>7, <1>8, <1>9, <1>10, <1>11, <1>12,
     <1>13, <1>14 DEF Next, Step, Stopped

-----------------------------------------------------------------------------
LEMMA Bounded == CommandLineInv => Fits /\ (Len(cmd) < CmdMax - 1 => argc < PtrMax)
<1> SUFFICES ASSUME CommandLineInv
             PROVE  Fits /\ (Len(cmd) < CmdMax - 1 => argc < PtrMax)
  OBVIOUS
<1>1. /\ TypeOK /\ PointersBound /\ BytesBound /\ SlashBound
      /\ Len(cmd) \in Nat /\ Len(cmd) <= 2 * PtrMax - 2
      /\ argc \in Nat /\ Len(buf) \in Nat /\ pos \in 1 .. Len(cmd) + 1
      /\ PtrMax \in Nat /\ CmdMax = 2 * PtrMax - 1
  BY CommandsAssumption, SizeAssumption DEF CommandLineInv, TypeOK, argc
<1>2. 2 * argc <= Len(cmd) + 2
  BY <1>1 DEF PointersBound
<1>3. argc <= PtrMax /\ (Len(cmd) < CmdMax - 1 => argc < PtrMax)
  BY <1>1, <1>2
<1>4. Len(buf) <= 3 * Len(cmd) + 1
  BY <1>1 DEF BytesBound
<1> QED
  BY <1>1, <1>3, <1>4 DEF Fits, SlashBound

THEOREM Invariance == Spec => []CommandLineInv
BY InitInv, StepInv, PTL DEF Spec

(***************************************************************************)
(* Whatever the command line, the pointers to the arguments and the bytes  *)
(* stay in their parts of the array, and only backslashes of the argument  *)
(* under way are ever taken back.                                          *)
(***************************************************************************)
THEOREM FitsCorrect == Spec => []Fits
BY Invariance, Bounded, PTL

(***************************************************************************)
(* A command line that is not of maximum length leaves a pointer free, so  *)
(* the null pointer that ends argv does not fall on the bytes.             *)
(***************************************************************************)
THEOREM TerminatorFits == Spec => [](Len(cmd) < CmdMax - 1 => argc < PtrMax)
BY Invariance, Bounded, PTL

-----------------------------------------------------------------------------
(***************************************************************************)
(* Least elements, and induction over sets of numbers.                     *)
(***************************************************************************)
LEMMA LeastExists ==
  ASSUME NEW I, I \subseteq Nat, I # {}
  PROVE  \E x \in I : \A i \in I : x <= i
<1>1. PICK x \in I : \A y \in I : ~(<<y, x>> \in OpToRel(<, Nat))
  BY NatLessThanWellFounded, WFMin, Zenon
<1>2. \A y \in I : ~(y < x)
  BY <1>1 DEF OpToRel
<1>3. \A y \in I : x <= y
  BY <1>2
<1> QED
  BY <1>3

\* From the last of the numbers up to M down to the first.
LEMMA Downwards ==
  ASSUME NEW M \in Nat, NEW S, M \in S,
         \A k \in 1 .. M - 1 : k + 1 \in S => k \in S
  PROVE  \A k \in 1 .. M : k \in S
<1> SUFFICES ASSUME NEW b \in 1 .. M, b \notin S PROVE FALSE
  OBVIOUS
<1> DEFINE I == {d \in Nat : d <= M - 1 /\ M - d \notin S}
<1>1. M - b \in I
  OBVIOUS
<1>2. PICK d \in I : \A e \in I : d <= e
  <2>1. I \subseteq Nat /\ I # {}
    BY <1>1
  <2> HIDE DEF I
  <2> QED
    BY <2>1, LeastExists
<1>3. d # 0 /\ d \in Nat /\ d <= M - 1 /\ M - d \notin S
  <2>1. M - 0 = M
    OBVIOUS
  <2> QED
    BY <1>2, <2>1
<1>4. d - 1 \notin I
  BY <1>2, <1>3
<1>5. M - (d - 1) \in S
  BY <1>3, <1>4
<1>6. M - (d - 1) = (M - d) + 1 /\ M - d \in 1 .. M - 1
  BY <1>3
<1> QED
  BY <1>3, <1>5, <1>6

-----------------------------------------------------------------------------
(***************************************************************************)
(* Reading a command line with lookahead.                                  *)
(***************************************************************************)
LEMMA NextRune ==
  ASSUME NEW line \in Seq(Unit), NEW i \in 1 .. Len(line)
  PROVE  /\ NextAt(line, i) \in i + 1 .. Len(line) + 1
         /\ RuneAt(line, i) \in Rune
         /\ line[i] \in Unit
<1>1. line[i] \in Unit /\ Len(line) \in Nat
  OBVIOUS
<1>2. CASE Is(line, i, "hi") /\ Is(line, i + 1, "lo")
  <2>1. NextAt(line, i) = i + 2 /\ i + 1 <= Len(line)
    BY <1>2 DEF NextAt, Is
  <2> QED
    BY <1>1, <2>1 DEF RuneAt, Rune
<1>3. CASE ~(Is(line, i, "hi") /\ Is(line, i + 1, "lo"))
  <2>1. NextAt(line, i) = i + 1
    BY <1>3 DEF NextAt
  <2>2. i + 1 # i + 2
    OBVIOUS
  <2>3. RuneAt(line, i) = line[i]
    BY <2>1, <2>2 DEF RuneAt
  <2> QED
    BY <1>1, <2>1, <2>3 DEF Rune
<1> QED
  BY <1>2, <1>3

\* There is one number of backslashes from a unit on.
LEMMA RunIs ==
  ASSUME NEW line \in Seq(Unit), NEW i \in 1 .. Len(line) + 1,
         NEW n \in 0 .. Len(line) + 1 - i,
         \A k \in i .. i + n - 1 : Is(line, k, "backslash"),
         ~Is(line, i + n, "backslash")
  PROVE  Run(line, i) = n
<1> DEFINE P(m) == /\ \A k \in i .. i + m - 1 : Is(line, k, "backslash")
                   /\ ~Is(line, i + m, "backslash")
<1>1. Run(line, i) = CHOOSE m \in 0 .. Len(line) + 1 - i : P(m)
  BY DEF Run
<1>2. P(n)
  OBVIOUS
<1>3. ASSUME NEW m \in 0 .. Len(line) + 1 - i, P(m) PROVE m = n
  <2>1. CASE m < n
    <3>1. i + m \in i .. i + n - 1
      BY <2>1
    <3> QED
      BY <1>2, <1>3, <3>1
  <2>2. CASE n < m
    <3>1. i + n \in i .. i + m - 1
      BY <2>2
    <3> QED
      BY <1>2, <1>3, <3>1
  <2> QED
    BY <2>1, <2>2
<1> HIDE DEF P
<1> QED
  BY <1>1, <1>2, <1>3

LEMMA RunEnds ==
  ASSUME NEW line \in Seq(Unit), NEW i \in 1 .. Len(line) + 1
  PROVE  /\ Run(line, i) \in 0 .. Len(line) + 1 - i
         /\ \A k \in i .. i + Run(line, i) - 1 : Is(line, k, "backslash")
         /\ ~Is(line, i + Run(line, i), "backslash")
<1> DEFINE last == Len(line) + 1 - i
           I == {n \in Nat : ~Is(line, i + n, "backslash")}
<1>1. last \in Nat /\ i + last > Len(line)
  OBVIOUS
<1>2. last \in I
  BY <1>1 DEF Is
<1>3. PICK n \in I : \A m \in I : n <= m
  <2>1. I \subseteq Nat /\ I # {}
    BY <1>2
  <2> HIDE DEF I
  <2> QED
    BY <2>1, LeastExists
<1>4. n \in 0 .. last /\ ~Is(line, i + n, "backslash")
  BY <1>1, <1>2, <1>3
<1>5. ASSUME NEW k \in i .. i + n - 1 PROVE Is(line, k, "backslash")
  <2>1. k - i \in Nat /\ k - i < n /\ i + (k - i) = k
    BY <1>4
  <2>2. k - i \notin I
    <3>1. ~(n <= k - i)
      BY <1>4, <2>1
    <3> HIDE DEF I
    <3> QED
      BY <1>3, <3>1
  <2> QED
    BY <2>1, <2>2
<1>6. Run(line, i) = n
  BY <1>4, <1>5, RunIs
<1> QED
  BY <1>4, <1>5, <1>6

LEMMA SlashesAre ==
  ASSUME NEW n \in Nat
  PROVE  /\ Slashes(n) \in Seq(Byte) /\ Len(Slashes(n)) = n
         /\ \A k \in 1 .. n : Slashes(n)[k] = "backslash"
<1>1. "backslash" \in Byte
  BY DEF Byte, Rune, Unit
<1> QED
  BY <1>1 DEF Slashes

(***************************************************************************)
(* What is left from a unit on depends on what is left further on only, so *)
(* the recursive definition of Rest says what it seems to say.             *)
(***************************************************************************)
LEMMA RunGoesOn ==
  ASSUME NEW line \in Seq(Unit), NEW i \in 1 .. Len(line), line[i] = "backslash"
  PROVE  /\ i + Run(line, i) \in i + 1 .. Len(line) + 1
         /\ Run(line, i) \in Nat
         /\ Is(line, i + Run(line, i), "quote") =>
              i + Run(line, i) + 1 \in i + 1 .. Len(line) + 1
<1> DEFINE n == Run(line, i)
<1>1. n \in 0 .. Len(line) + 1 - i /\ ~Is(line, i + n, "backslash")
  BY RunEnds
<1> HIDE DEF n
<1>2. n # 0
  BY <1>1 DEF Is
<1>3. n \in Nat /\ i + n \in i + 1 .. Len(line) + 1
  BY <1>1, <1>2
<1>4. Is(line, i + n, "quote") => i + n + 1 \in i + 1 .. Len(line) + 1
  BY <1>3 DEF Is
<1> QED
  BY <1>3, <1>4 DEF n

LEMMA RestAgrees ==
  ASSUME NEW line \in Seq(Unit), NEW i \in 1 .. Len(line) + 1, NEW m \in Mode, NEW f, NEW g,
         \A j \in i + 1 .. Len(line) + 1 : f[j] = g[j]
  PROVE  RestAt(line, f, i, m) = RestAt(line, g, i, m)
<1>1. CASE Ends(line, i, m)
  BY <1>1 DEF RestAt
<1>2. CASE ~Ends(line, i, m)
  <2>1. i \in 1 .. Len(line)
    BY <1>2 DEF Ends
  <2>2. CASE m \in {"unquoted", "quoted"} /\ line[i] = "quote"
    <3>1. i + 1 \in i + 1 .. Len(line) + 1
      BY <2>1
    <3>2. Is(line, i + 1, "quote") => i + 2 \in i + 1 .. Len(line) + 1
      BY <2>1 DEF Is
    <3>3. Quote(line, f, i, m) = Quote(line, g, i, m)
      BY <3>1, <3>2, Zenon DEF Quote
    <3> QED
      BY <1>2, <2>2, <3>3, Zenon DEF RestAt
  <2>3. CASE m \in {"unquoted", "quoted"} /\ line[i] = "backslash"
    <3> DEFINE n == Run(line, i)
    <3>1. /\ i + n \in i + 1 .. Len(line) + 1
          /\ Is(line, i + n, "quote") => i + n + 1 \in i + 1 .. Len(line) + 1
      BY <2>1, <2>3, RunGoesOn
    <3> HIDE DEF n
    <3>2. f[i + n] = g[i + n] /\ (Is(line, i + n, "quote") => f[i + n + 1] = g[i + n + 1])
      BY <3>1, Zenon
    <3>3. Backslashes(line, f, i, m) = Backslashes(line, g, i, m)
      BY <3>2, Zenon DEF Backslashes, n
    <3>4. line[i] # "quote"
      BY <2>3
    <3> QED
      BY <1>2, <2>3, <3>3, <3>4, Zenon DEF RestAt
  <2>4. CASE ~(m \in {"unquoted", "quoted"} /\ line[i] \in {"quote", "backslash"})
    <3>1. f[NextAt(line, i)] = g[NextAt(line, i)]
      BY <2>1, NextRune
    <3>2. /\ ~(m \in {"unquoted", "quoted"} /\ line[i] = "quote")
          /\ ~(m \in {"unquoted", "quoted"} /\ line[i] = "backslash")
      BY <2>4
    <3> QED
      BY <1>2, <3>1, <3>2, Zenon DEF RestAt
  <2> QED
    BY <2>2, <2>3, <2>4
<1> QED
  BY <1>1, <1>2

Reads(f, line, b) ==
  f = [i \in b .. Len(line) + 1 |-> [m \in Mode |-> RestAt(line, f, i, m)]]

LEMMA RestChosen ==
  ASSUME NEW line PROVE Rest(line) = CHOOSE f : Reads(f, line, 1)
BY DEF Rest, Reads

LEMMA RestExists ==
  ASSUME NEW line \in Seq(Unit) PROVE \E f : Reads(f, line, 1)
<1> DEFINE E == Len(line) + 1
           S == {b \in 1 .. E : \E f : Reads(f, line, b)}
<1>1. E \in Nat /\ E >= 1
  OBVIOUS
<1>2. E \in S
  <2> DEFINE none == [i \in {} |-> 0]
             f == [i \in E .. E |-> [m \in Mode |-> RestAt(line, none, i, m)]]
  <2>1. \A i \in E .. E : i = E
    OBVIOUS
  <2>2. ASSUME NEW i \in E .. E, NEW m \in Mode
        PROVE  RestAt(line, none, i, m) = RestAt(line, f, i, m)
    <3> HIDE DEF none, f
    <3>1. i \in 1 .. E /\ \A j \in i + 1 .. E : none[j] = f[j]
      BY <1>1
    <3> QED
      BY <3>1, RestAgrees
  <2>3. Reads(f, line, E)
    BY <2>2, Zenon DEF Reads
  <2> QED
    BY <1>1, <2>3
<1>3. ASSUME NEW k \in 1 .. E - 1, k + 1 \in S PROVE k \in S
  <2>1. PICK f : Reads(f, line, k + 1)
    BY <1>3
  <2> DEFINE first == [m \in Mode |-> RestAt(line, f, k, m)]
             h == [i \in k .. E |-> IF i = k THEN first ELSE f[i]]
  <2>2. /\ k \in 1 .. E /\ k + 1 \in 1 .. E
        /\ \A i \in k .. E : i \in 1 .. E /\ (i = k \/ i \in k + 1 .. E)
        /\ \A i \in k + 1 .. E : i \in k .. E /\ i # k /\ i \in 1 .. E
        /\ \A i \in k .. E : \A j \in i + 1 .. E : j \in k + 1 .. E
    BY <1>1
  <2> HIDE DEF first
  <2>3. \A i \in k + 1 .. E : h[i] = f[i]
    BY <2>2
  <2>4. h[k] = first
    BY <2>2
  <2>5. h = [i \in k .. E |-> h[i]]
    BY <2>2
  <2> HIDE DEF h
  <2>6. ASSUME NEW i \in k .. E, NEW m \in Mode
        PROVE  RestAt(line, f, i, m) = RestAt(line, h, i, m)
    <3>1. i \in 1 .. E /\ \A j \in i + 1 .. E : f[j] = h[j]
      BY <2>2, <2>3
    <3> QED
      BY <3>1, RestAgrees
  <2>7. ASSUME NEW i \in k .. E PROVE h[i] = [m \in Mode |-> RestAt(line, h, i, m)]
    <3>1. CASE i = k
      BY <2>4, <2>6, <3>1, Zenon DEF first
    <3>2. CASE i # k
      <4>1. i \in k + 1 .. E
        BY <2>2, <3>2
      <4>2. h[i] = [m \in Mode |-> RestAt(line, f, i, m)]
        BY <2>1, <2>3, <4>1, Zenon DEF Reads
      <4> QED
        BY <2>6, <4>2, Zenon
    <3> QED
      BY <3>1, <3>2
  <2>8. Reads(h, line, k)
    BY <2>5, <2>7, Zenon DEF Reads
  <2> QED
    BY <2>2, <2>8
<1>4. 1 \in S
  <2> HIDE DEF S, E
  <2>1. 1 \in 1 .. E
    BY <1>1
  <2> QED
    BY <1>1, <1>2, <1>3, <2>1, Downwards
<1> QED
  BY <1>4

LEMMA RestSteps ==
  ASSUME NEW line \in Seq(Unit), NEW i \in 1 .. Len(line) + 1, NEW m \in Mode
  PROVE  Rest(line)[i][m] = RestAt(line, Rest(line), i, m)
<1> DEFINE f == Rest(line)
<1>1. Reads(f, line, 1)
  BY RestExists, RestChosen, Zenon
<1> HIDE DEF f
<1>2. f = [j \in 1 .. Len(line) + 1 |-> [n \in Mode |-> RestAt(line, f, j, n)]]
  BY <1>1, Zenon DEF Reads
<1>3. f[i] = [n \in Mode |-> RestAt(line, f, i, n)]
  BY <1>2, Zenon
<1> QED
  BY <1>3, Zenon DEF f

(***************************************************************************)
(* What is left of an argument is bytes, and what comes after it is after  *)
(* the unit that it begins with.                                           *)
(***************************************************************************)
Piece(line, b) == [text : Seq(Byte), next : b .. Len(line) + 1]

LEMMA WithPiece ==
  ASSUME NEW line \in Seq(Unit), NEW i \in 1 .. Len(line), NEW j \in i + 1 .. Len(line) + 1,
         NEW bytes \in Seq(Byte), NEW arg \in Piece(line, j)
  PROVE  With(bytes, arg) \in Piece(line, i + 1) /\ arg \in Piece(line, i + 1)
<1>1. arg.text \in Seq(Byte) /\ arg.next \in j .. Len(line) + 1
  BY DEF Piece
<1>2. bytes \o arg.text \in Seq(Byte) /\ arg.next \in i + 1 .. Len(line) + 1
  BY <1>1, Joined
<1> QED
  BY <1>2 DEF With, Piece

LEMMA RestPiece ==
  ASSUME NEW line \in Seq(Unit), NEW i \in 1 .. Len(line) + 1, NEW m \in Mode, NEW f,
         \A j \in i + 1 .. Len(line) + 1 : \A n \in Mode : f[j][n] \in Piece(line, j)
  PROVE  /\ RestAt(line, f, i, m) \in Piece(line, i)
         /\ ~Ends(line, i, m) => RestAt(line, f, i, m) \in Piece(line, i + 1)
<1> DEFINE E == Len(line) + 1
           r == RestAt(line, f, i, m)
<1>1. CASE Ends(line, i, m)
  <2> DEFINE none == <<>>
             next == IF m = "programquoted" /\ i <= Len(line) THEN i + 1 ELSE i
  <2>1. none \in Seq(Byte) /\ next \in i .. E
    OBVIOUS
  <2>2. r = [text |-> none, next |-> next]
    BY <1>1 DEF RestAt
  <2> HIDE DEF none, next, r
  <2>3. r \in Piece(line, i)
    BY <2>1, <2>2 DEF Piece
  <2> QED
    BY <1>1, <2>3 DEF r
<1>2. CASE ~Ends(line, i, m)
  <2>1. i \in 1 .. Len(line)
    BY <1>2 DEF Ends
  <2>2. "quote" \in Byte /\ "backslash" \in Byte
    BY DEF Byte, Rune, Unit
  <2>3. r \in Piece(line, i + 1)
    <3>1. CASE m \in {"unquoted", "quoted"} /\ line[i] = "quote"
      <4>1. r = Quote(line, f, i, m)
        BY <1>2, <3>1, Zenon DEF RestAt
      <4> DEFINE other == IF m = "quoted" THEN "unquoted" ELSE "quoted"
                 one == <<"quote">>
      <4>2. other \in Mode /\ "unquoted" \in Mode /\ one \in Seq(Byte) /\ i + 1 \in i + 1 .. E
        BY <2>1, <2>2 DEF Mode
      <4>3. CASE m = "quoted" /\ Is(line, i + 1, "quote")
        <5>1. i + 2 \in i + 1 .. E
          BY <2>1, <4>3 DEF Is
        <5>2. r = With(one, f[i + 2]["unquoted"])
          BY <4>1, <4>3, Zenon DEF Quote
        <5> HIDE DEF one, r
        <5>3. f[i + 2]["unquoted"] \in Piece(line, i + 2)
          BY <4>2, <5>1
        <5> QED
          BY <2>1, <4>2, <5>1, <5>2, <5>3, WithPiece
      <4>4. CASE ~(m = "quoted" /\ Is(line, i + 1, "quote"))
        <5>1. r = f[i + 1][other]
          BY <4>1, <4>4, Zenon DEF Quote
        <5> HIDE DEF other, r
        <5> QED
          BY <4>2, <5>1
      <4> QED
        BY <4>3, <4>4
    <3>2. CASE m \in {"unquoted", "quoted"} /\ line[i] = "backslash"
      <4> DEFINE n == Run(line, i)
      <4>1. /\ i + n \in i + 1 .. E /\ n \in Nat
            /\ Is(line, i + n, "quote") => i + n + 1 \in i + 1 .. E
        BY <2>1, <3>2, RunGoesOn
      <4>2. r = Backslashes(line, f, i, m)
        <5>1. line[i] # "quote"
          BY <3>2
        <5> QED
          BY <1>2, <3>2, <5>1, Zenon DEF RestAt
      <4> HIDE DEF n, r
      <4>3. CASE ~Is(line, i + n, "quote")
        <5>1. r = With(Slashes(n), f[i + n][m])
          BY <4>2, <4>3, Zenon DEF Backslashes, n
        <5>2. f[i + n][m] \in Piece(line, i + n) /\ Slashes(n) \in Seq(Byte)
          BY <4>1, SlashesAre
        <5> QED
          BY <2>1, <4>1, <5>1, <5>2, WithPiece
      <4>4. CASE Is(line, i + n, "quote")
        <5>1. n \div 2 \in Nat
          BY <4>1
        <5>2. Slashes(n \div 2) \in Seq(Byte)
          BY <5>1, SlashesAre
        <5> DEFINE some == Slashes(n \div 2)
                   more == Append(some, "quote")
        <5>3. some \in Seq(Byte) /\ more \in Seq(Byte)
          <6> HIDE DEF some
          <6>1. some \in Seq(Byte)
            BY <5>2 DEF some
          <6> QED
            BY <2>2, <6>1
        <5>4. CASE n % 2 = 0
          <6>1. r = With(some, f[i + n][m])
            BY <4>2, <4>4, <5>4, Zenon DEF Backslashes, n
          <6> HIDE DEF some, more
          <6>2. f[i + n][m] \in Piece(line, i + n)
            BY <4>1
          <6> QED
            BY <2>1, <4>1, <5>3, <6>1, <6>2, WithPiece
        <5>5. CASE n % 2 # 0
          <6>1. r = With(more, f[i + n + 1][m])
            BY <4>2, <4>4, <5>5, Zenon DEF Backslashes, n
          <6> HIDE DEF some, more
          <6>2. f[i + n + 1][m] \in Piece(line, i + n + 1)
            BY <4>1, <4>4
          <6> QED
            BY <2>1, <4>1, <4>4, <5>3, <6>1, <6>2, WithPiece
        <5> QED
          BY <5>4, <5>5
      <4> QED
        BY <4>3, <4>4
    <3>3. CASE ~(m \in {"unquoted", "quoted"} /\ line[i] \in {"quote", "backslash"})
      <4> DEFINE j == NextAt(line, i)
                 bytes == Encoded(RuneAt(line, i))
      <4>1. j \in i + 1 .. E /\ bytes \in Seq(Byte)
        BY <2>1, NextRune, EncodedBytes
      <4>2. /\ ~(m \in {"unquoted", "quoted"} /\ line[i] = "quote")
            /\ ~(m \in {"unquoted", "quoted"} /\ line[i] = "backslash")
        BY <3>3
      <4>3. r = With(bytes, f[j][m])
        BY <1>2, <4>2, Zenon DEF RestAt
      <4> HIDE DEF j, bytes, r
      <4>4. f[j][m] \in Piece(line, j)
        BY <4>1
      <4> QED
        BY <2>1, <4>1, <4>3, <4>4, WithPiece
    <3> QED
      BY <3>1, <3>2, <3>3
  <2>4. Piece(line, i + 1) \subseteq Piece(line, i)
    <3>1. i + 1 .. E \subseteq i .. E
      OBVIOUS
    <3> QED
      BY <3>1 DEF Piece
  <2> QED
    BY <1>2, <2>3, <2>4
<1> QED
  BY <1>1, <1>2

LEMMA RestType ==
  ASSUME NEW line \in Seq(Unit)
  PROVE  \A i \in 1 .. Len(line) + 1 : \A m \in Mode :
           /\ Rest(line)[i][m] \in Piece(line, i)
           /\ ~Ends(line, i, m) => Rest(line)[i][m] \in Piece(line, i + 1)
<1> DEFINE E == Len(line) + 1
           f == Rest(line)
           S == {b \in 1 .. E : \A j \in b .. E : \A m \in Mode : f[j][m] \in Piece(line, j)}
<1>1. E \in Nat /\ E >= 1
  OBVIOUS
<1>2. ASSUME NEW i \in 1 .. E, NEW m \in Mode,
             \A j \in i + 1 .. E : \A n \in Mode : f[j][n] \in Piece(line, j)
      PROVE  /\ f[i][m] \in Piece(line, i)
             /\ ~Ends(line, i, m) => f[i][m] \in Piece(line, i + 1)
  <2>1. f[i][m] = RestAt(line, f, i, m)
    BY RestSteps
  <2> HIDE DEF f
  <2>2. /\ RestAt(line, f, i, m) \in Piece(line, i)
        /\ ~Ends(line, i, m) => RestAt(line, f, i, m) \in Piece(line, i + 1)
    BY <1>2, RestPiece
  <2> QED
    BY <2>1, <2>2, Zenon
<1> HIDE DEF f
<1>3. E \in S
  <2>1. \A j \in E .. E : j = E
    OBVIOUS
  <2>2. E \in 1 .. E /\ \A j \in E + 1 .. E : FALSE
    BY <1>1
  <2> QED
    BY <1>2, <2>1, <2>2
<1>4. ASSUME NEW k \in 1 .. E - 1, k + 1 \in S PROVE k \in S
  <2>1. k \in 1 .. E /\ \A j \in k .. E : j = k \/ j \in k + 1 .. E
    BY <1>1
  <2>2. \A j \in k + 1 .. E : \A m \in Mode : f[j][m] \in Piece(line, j)
    BY <1>4
  <2> QED
    BY <1>2, <2>1, <2>2
<1>5. \A k \in 1 .. E : k \in S
  <2> HIDE DEF S, E
  <2> QED
    BY <1>1, <1>3, <1>4, Downwards
<1>6. ASSUME NEW i \in 1 .. E, NEW m \in Mode
      PROVE  /\ f[i][m] \in Piece(line, i)
             /\ ~Ends(line, i, m) => f[i][m] \in Piece(line, i + 1)
  <2>1. ASSUME NEW j \in i + 1 .. E, NEW n \in Mode PROVE f[j][n] \in Piece(line, j)
    <3>1. j \in S /\ j \in j .. E
      BY <1>5
    <3> QED
      BY <3>1
  <2> QED
    BY <1>2, <2>1
<1> QED
  BY <1>6 DEF f

-----------------------------------------------------------------------------
(***************************************************************************)
(* The list of the arguments, from a unit on.                              *)
(***************************************************************************)
Arg == Seq(Byte)

Lists(f, line, b) == f = [i \in b .. Len(line) + 1 |-> ListAt(line, f, i)]

LEMMA ListChosen ==
  ASSUME NEW line PROVE List(line) = CHOOSE f : Lists(f, line, 1)
BY DEF List, Lists

\* The first argument from a unit on, if that is no blank.
LEMMA FirstArgument ==
  ASSUME NEW line \in Seq(Unit), NEW i \in 1 .. Len(line), ~blank(line[i])
  PROVE  /\ Rest(line)[i]["unquoted"].text \in Arg
         /\ Rest(line)[i]["unquoted"].next \in i + 1 .. Len(line) + 1
<1>1. ~Ends(line, i, "unquoted")
  BY DEF Ends
<1>2. "unquoted" \in Mode /\ i \in 1 .. Len(line) + 1
  BY DEF Mode
<1>3. Rest(line)[i]["unquoted"] \in Piece(line, i + 1)
  BY <1>1, <1>2, RestType
<1> QED
  BY <1>3 DEF Piece, Arg

LEMMA ListAgrees ==
  ASSUME NEW line \in Seq(Unit), NEW i \in 1 .. Len(line) + 1, NEW f, NEW g,
         \A j \in i + 1 .. Len(line) + 1 : f[j] = g[j]
  PROVE  ListAt(line, f, i) = ListAt(line, g, i)
<1>1. CASE i > Len(line)
  BY <1>1 DEF ListAt
<1>2. CASE ~(i > Len(line)) /\ blank(line[i])
  <2>1. i + 1 \in i + 1 .. Len(line) + 1
    BY <1>2
  <2>2. f[i + 1] = g[i + 1]
    BY <2>1
  <2> QED
    BY <1>2, <2>2, Zenon DEF ListAt
<1>3. CASE ~(i > Len(line)) /\ ~blank(line[i])
  <2> DEFINE n == Rest(line)[i]["unquoted"].next
  <2>1. i \in 1 .. Len(line)
    BY <1>3
  <2>2. n \in i + 1 .. Len(line) + 1
    BY <1>3, <2>1, FirstArgument
  <2> HIDE DEF n
  <2>3. f[n] = g[n]
    BY <2>2
  <2> QED
    BY <1>3, <2>3, Zenon DEF ListAt, n
<1> QED
  BY <1>1, <1>2, <1>3

LEMMA ListExists ==
  ASSUME NEW line \in Seq(Unit) PROVE \E f : Lists(f, line, 1)
<1> DEFINE E == Len(line) + 1
           S == {b \in 1 .. E : \E f : Lists(f, line, b)}
<1>1. E \in Nat /\ E >= 1
  OBVIOUS
<1>2. E \in S
  <2> DEFINE none == [i \in {} |-> 0]
             f == [i \in E .. E |-> ListAt(line, none, i)]
  <2>1. ASSUME NEW i \in E .. E PROVE ListAt(line, none, i) = ListAt(line, f, i)
    <3> HIDE DEF none, f
    <3>1. i \in 1 .. E /\ \A j \in i + 1 .. E : none[j] = f[j]
      BY <1>1
    <3> QED
      BY <3>1, ListAgrees
  <2>2. Lists(f, line, E)
    BY <2>1, Zenon DEF Lists
  <2> QED
    BY <1>1, <2>2
<1>3. ASSUME NEW k \in 1 .. E - 1, k + 1 \in S PROVE k \in S
  <2>1. PICK f : Lists(f, line, k + 1)
    BY <1>3
  <2> DEFINE first == ListAt(line, f, k)
             h == [i \in k .. E |-> IF i = k THEN first ELSE f[i]]
  <2>2. /\ k \in 1 .. E /\ k + 1 \in 1 .. E
        /\ \A i \in k .. E : i \in 1 .. E /\ (i = k \/ i \in k + 1 .. E)
        /\ \A i \in k + 1 .. E : i \in k .. E /\ i # k /\ i \in 1 .. E
        /\ \A i \in k .. E : \A j \in i + 1 .. E : j \in k + 1 .. E
    BY <1>1
  <2> HIDE DEF first
  <2>3. \A i \in k + 1 .. E : h[i] = f[i]
    BY <2>2
  <2>4. h[k] = first
    BY <2>2
  <2>5. h = [i \in k .. E |-> h[i]]
    BY <2>2
  <2> HIDE DEF h
  <2>6. ASSUME NEW i \in k .. E PROVE ListAt(line, f, i) = ListAt(line, h, i)
    <3>1. i \in 1 .. E /\ \A j \in i + 1 .. E : f[j] = h[j]
      BY <2>2, <2>3
    <3> QED
      BY <3>1, ListAgrees
  <2>7. ASSUME NEW i \in k .. E PROVE h[i] = ListAt(line, h, i)
    <3>1. CASE i = k
      BY <2>4, <2>6, <3>1, Zenon DEF first
    <3>2. CASE i # k
      <4>1. i \in k + 1 .. E
        BY <2>2, <3>2
      <4>2. h[i] = ListAt(line, f, i)
        BY <2>1, <2>3, <4>1, Zenon DEF Lists
      <4> QED
        BY <2>6, <4>2, Zenon
    <3> QED
      BY <3>1, <3>2
  <2>8. Lists(h, line, k)
    BY <2>5, <2>7, Zenon DEF Lists
  <2> QED
    BY <2>2, <2>8
<1>4. 1 \in S
  <2> HIDE DEF S, E
  <2>1. 1 \in 1 .. E
    BY <1>1
  <2> QED
    BY <1>1, <1>2, <1>3, <2>1, Downwards
<1> QED
  BY <1>4

LEMMA ListSteps ==
  ASSUME NEW line \in Seq(Unit), NEW i \in 1 .. Len(line) + 1
  PROVE  List(line)[i] = ListAt(line, List(line), i)
<1> DEFINE f == List(line)
<1>1. Lists(f, line, 1)
  BY ListExists, ListChosen, Zenon
<1> HIDE DEF f
<1>2. f = [j \in 1 .. Len(line) + 1 |-> ListAt(line, f, j)]
  BY <1>1, Zenon DEF Lists
<1> QED
  BY <1>2, Zenon DEF f

LEMMA ListType ==
  ASSUME NEW line \in Seq(Unit)
  PROVE  \A i \in 1 .. Len(line) + 1 : List(line)[i] \in Seq(Arg)
<1> DEFINE E == Len(line) + 1
           f == List(line)
           S == {b \in 1 .. E : \A j \in b .. E : f[j] \in Seq(Arg)}
<1>1. E \in Nat /\ E >= 1
  OBVIOUS
<1>2. ASSUME NEW i \in 1 .. E, \A j \in i + 1 .. E : f[j] \in Seq(Arg)
      PROVE  f[i] \in Seq(Arg)
  <2>1. f[i] = ListAt(line, f, i)
    BY ListSteps
  <2> HIDE DEF f
  <2>2. CASE i > Len(line)
    BY <2>1, <2>2 DEF ListAt
  <2>3. CASE ~(i > Len(line)) /\ blank(line[i])
    <3>1. i + 1 \in i + 1 .. E
      BY <1>1, <2>3
    <3>2. f[i] = f[i + 1]
      BY <2>1, <2>3 DEF ListAt
    <3> QED
      BY <1>2, <3>1, <3>2
  <2>4. CASE ~(i > Len(line)) /\ ~blank(line[i])
    <3> DEFINE arg == Rest(line)[i]["unquoted"]
               one == <<arg.text>>
    <3>1. i \in 1 .. Len(line)
      BY <2>4
    <3>2. arg.text \in Arg /\ arg.next \in i + 1 .. E
      BY <2>4, <3>1, FirstArgument
    <3>3. f[i] = one \o f[arg.next]
      BY <2>1, <2>4, Zenon DEF ListAt
    <3> HIDE DEF arg
    <3>4. one \in Seq(Arg) /\ f[arg.next] \in Seq(Arg)
      BY <1>2, <3>2
    <3> HIDE DEF one
    <3> QED
      BY <3>3, <3>4
  <2> QED
    BY <2>2, <2>3, <2>4
<1> HIDE DEF f
<1>3. E \in S
  <2>1. \A j \in E .. E : j = E
    OBVIOUS
  <2>2. E \in 1 .. E /\ \A j \in E + 1 .. E : FALSE
    BY <1>1
  <2> QED
    BY <1>2, <2>1, <2>2
<1>4. ASSUME NEW k \in 1 .. E - 1, k + 1 \in S PROVE k \in S
  <2>1. k \in 1 .. E /\ \A j \in k .. E : j = k \/ j \in k + 1 .. E
    BY <1>1
  <2>2. \A j \in k + 1 .. E : f[j] \in Seq(Arg)
    BY <1>4
  <2> QED
    BY <1>2, <2>1, <2>2
<1>5. \A k \in 1 .. E : k \in S
  <2> HIDE DEF S, E
  <2> QED
    BY <1>1, <1>3, <1>4, Downwards
<1>6. ASSUME NEW i \in 1 .. E PROVE f[i] \in Seq(Arg)
  <2>1. i \in S /\ i \in i .. E
    BY <1>5
  <2> QED
    BY <2>1
<1> QED
  BY <1>6 DEF f

-----------------------------------------------------------------------------
(***************************************************************************)
(* Bytes, and the strings in them that a null ends.                        *)
(***************************************************************************)
LEMMA PartKept ==
  ASSUME NEW b \in Seq(Byte), NEW d \in Seq(Byte), NEW a \in Nat, NEW n \in Nat,
         n <= Len(b), n <= Len(d), \A i \in 1 .. n : d[i] = b[i]
  PROVE  SubSeq(d, a + 1, n) = SubSeq(b, a + 1, n) /\ SubSeq(b, a + 1, n) \in Seq(Byte)
<1> DEFINE x == SubSeq(b, a + 1, n)
           y == SubSeq(d, a + 1, n)
<1>1. CASE a + 1 <= n
  <2>1. /\ x \in Seq(Byte) /\ Len(x) = n - a
        /\ \A i \in 1 .. n - a : x[i] = b[a + i]
    BY <1>1
  <2>2. /\ y \in Seq(Byte) /\ Len(y) = n - a
        /\ \A i \in 1 .. n - a : y[i] = d[a + i]
    BY <1>1
  <2>3. \A i \in 1 .. n - a : a + i \in 1 .. n
    OBVIOUS
  <2> HIDE DEF x, y
  <2>4. \A i \in 1 .. n - a : x[i] = y[i]
    BY <2>1, <2>2, <2>3
  <2>5. x = y
    BY <2>1, <2>2, <2>4
  <2> QED
    BY <2>1, <2>5 DEF x, y
<1>2. CASE ~(a + 1 <= n)
  <2>1. x = <<>> /\ y = <<>>
    BY <1>2
  <2> QED
    BY <2>1
<1> QED
  BY <1>1, <1>2

LEMMA PartIs ==
  ASSUME NEW b \in Seq(Byte), NEW n \in 0 .. Len(b), NEW a \in 0 .. n
  PROVE  /\ SubSeq(b, a + 1, n) \in Seq(Byte) /\ Len(SubSeq(b, a + 1, n)) = n - a
         /\ \A i \in 1 .. n - a : SubSeq(b, a + 1, n)[i] = b[a + i]
<1>1. CASE a + 1 <= n
  BY <1>1
<1>2. CASE ~(a + 1 <= n)
  <2>1. SubSeq(b, a + 1, n) = <<>> /\ n - a = 0
    BY <1>2
  <2> QED
    BY <2>1
<1> QED
  BY <1>1, <1>2

LEMMA JoinedIs ==
  ASSUME NEW x \in Seq(Byte), NEW y \in Seq(Byte)
  PROVE  /\ x \o y \in Seq(Byte) /\ Len(x \o y) = Len(x) + Len(y)
         /\ \A i \in 1 .. Len(x) : (x \o y)[i] = x[i]
         /\ \A i \in Len(x) + 1 .. Len(x) + Len(y) : (x \o y)[i] = y[i - Len(x)]
OBVIOUS

LEMMA PartGrown ==
  ASSUME NEW b \in Seq(Byte), NEW more \in Seq(Byte), NEW a \in 0 .. Len(b)
  PROVE  /\ b \o more \in Seq(Byte) /\ Len(b \o more) = Len(b) + Len(more)
         /\ \A i \in 1 .. Len(b) : (b \o more)[i] = b[i]
         /\ \A i \in Len(b) + 1 .. Len(b) + Len(more) : (b \o more)[i] = more[i - Len(b)]
         /\ SubSeq(b \o more, a + 1, Len(b) + Len(more)) = SubSeq(b, a + 1, Len(b)) \o more
         /\ SubSeq(b, a + 1, Len(b)) \in Seq(Byte)
<1> DEFINE d == b \o more
           x == SubSeq(b, a + 1, Len(b))
           y == SubSeq(d, a + 1, Len(b) + Len(more))
           z == x \o more
           n == Len(b) - a
<1>1. /\ d \in Seq(Byte) /\ Len(d) = Len(b) + Len(more)
      /\ \A i \in 1 .. Len(b) : d[i] = b[i]
      /\ \A i \in Len(b) + 1 .. Len(b) + Len(more) : d[i] = more[i - Len(b)]
  BY JoinedIs
<1>2. Len(b) \in Nat /\ Len(more) \in Nat /\ n \in Nat /\ Len(b) = a + n /\ a \in Nat
  OBVIOUS
<1> HIDE DEF d
<1>3. x \in Seq(Byte) /\ Len(x) = n /\ \A i \in 1 .. n : x[i] = b[a + i]
  <2>1. Len(b) \in 0 .. Len(b) /\ a \in 0 .. Len(b) /\ n = Len(b) - a
    BY <1>2
  <2> HIDE DEF n
  <2> QED
    BY <2>1, PartIs
<1>4. /\ y \in Seq(Byte) /\ Len(y) = n + Len(more)
      /\ \A i \in 1 .. n + Len(more) : y[i] = d[a + i]
  <2> DEFINE last == Len(b) + Len(more)
  <2>1. last \in 0 .. Len(d) /\ a \in 0 .. last /\ last - a = n + Len(more)
    BY <1>1, <1>2
  <2>2. y = SubSeq(d, a + 1, last)
    OBVIOUS
  <2> HIDE DEF last, y
  <2> QED
    BY <1>1, <2>1, <2>2, PartIs, SMTT(20)
<1> HIDE DEF x, y, n
<1>5. /\ z \in Seq(Byte) /\ Len(z) = n + Len(more)
      /\ \A i \in 1 .. n : z[i] = x[i]
      /\ \A i \in n + 1 .. n + Len(more) : z[i] = more[i - n]
  BY <1>3, JoinedIs
<1> HIDE DEF z
<1>6. ASSUME NEW i \in 1 .. n + Len(more) PROVE y[i] = z[i]
  <2>1. CASE i <= n
    <3>1. i \in 1 .. n /\ a + i \in 1 .. Len(b)
      BY <1>2, <2>1
    <3>2. i \in 1 .. n + Len(more)
      OBVIOUS
    <3>3. y[i] = d[a + i] /\ d[a + i] = b[a + i]
      BY <1>1, <1>4, <3>1, <3>2, Zenon
    <3>4. z[i] = x[i] /\ x[i] = b[a + i]
      BY <1>3, <1>5, <3>1, Zenon
    <3> QED
      BY <3>3, <3>4, Zenon
  <2>2. CASE ~(i <= n)
    <3>1. /\ i \in n + 1 .. n + Len(more)
          /\ a + i \in Len(b) + 1 .. Len(b) + Len(more) /\ (a + i) - Len(b) = i - n
      BY <1>2, <2>2
    <3> QED
      BY <1>1, <1>4, <1>5, <3>1
  <2> QED
    BY <2>1, <2>2
<1>7. y = z
  BY <1>2, <1>4, <1>5, <1>6
<1> QED
  BY <1>1, <1>3, <1>7 DEF d, x, y, z

LEMMA CStringIs ==
  ASSUME NEW b \in Seq(Byte), NEW a \in Nat, NEW n \in a + 1 .. Len(b), b[n] = "nul",
         \A j \in a + 1 .. n - 1 : b[j] # "nul"
  PROVE  CString(b, a) = SubSeq(b, a + 1, n - 1)
<1> DEFINE P(i) == b[i] = "nul" /\ \A j \in a + 1 .. i - 1 : b[j] # "nul"
           nul == CHOOSE i \in a + 1 .. Len(b) : P(i)
<1>1. P(n)
  OBVIOUS
<1>2. ASSUME NEW i \in a + 1 .. Len(b), P(i) PROVE i = n
  <2>1. CASE i < n
    <3>1. i \in a + 1 .. n - 1
      BY <2>1
    <3> QED
      BY <1>1, <1>2, <3>1
  <2>2. CASE n < i
    <3>1. n \in a + 1 .. i - 1
      BY <2>2
    <3> QED
      BY <1>1, <1>2, <3>1
  <2> QED
    BY <2>1, <2>2
<1>3. nul = n
  <2> HIDE DEF P
  <2> QED
    BY <1>1, <1>2
<1>4. CString(b, a) = SubSeq(b, a + 1, nul - 1)
  BY DEF CString
<1> HIDE DEF nul
<1> QED
  BY <1>3, <1>4

\* A string stays what it is while only bytes behind its null change.
LEMMA CStringKept ==
  ASSUME NEW b \in Seq(Byte), NEW d \in Seq(Byte), NEW a \in Nat, NEW L \in Nat,
         L <= Len(b), L <= Len(d), \A i \in 1 .. L : d[i] = b[i],
         \E i \in a + 1 .. L : b[i] = "nul"
  PROVE  CString(d, a) = CString(b, a) /\ CString(b, a) \in Seq(Byte)
<1> DEFINE I == {i \in a + 1 .. L : b[i] = "nul"}
<1>1. PICK n \in I : \A i \in I : n <= i
  <2>1. I \subseteq Nat /\ I # {}
    OBVIOUS
  <2> HIDE DEF I
  <2> QED
    BY <2>1, LeastExists
<1>2. n \in a + 1 .. L /\ b[n] = "nul" /\ n \in Nat
  BY <1>1
<1>3. ASSUME NEW j \in a + 1 .. n - 1 PROVE b[j] # "nul"
  <2>1. j \in a + 1 .. L /\ ~(n <= j)
    BY <1>2
  <2> QED
    BY <1>1, <2>1
<1>4. n \in a + 1 .. Len(b) /\ n \in a + 1 .. Len(d) /\ n - 1 \in Nat
      /\ n - 1 <= Len(b) /\ n - 1 <= Len(d)
  BY <1>2
<1>5. d[n] = "nul" /\ \A j \in a + 1 .. n - 1 : d[j] # "nul"
  <2>1. n \in 1 .. L /\ \A j \in a + 1 .. n - 1 : j \in 1 .. L
    BY <1>2
  <2> QED
    BY <1>2, <1>3, <2>1
<1>6. CString(b, a) = SubSeq(b, a + 1, n - 1) /\ CString(d, a) = SubSeq(d, a + 1, n - 1)
  BY <1>2, <1>3, <1>4, <1>5, CStringIs
<1>7. \A i \in 1 .. n - 1 : d[i] = b[i]
  BY <1>2
<1>8. SubSeq(d, a + 1, n - 1) = SubSeq(b, a + 1, n - 1)
      /\ SubSeq(b, a + 1, n - 1) \in Seq(Byte)
  BY <1>4, <1>7, PartKept
<1> QED
  BY <1>6, <1>8

-----------------------------------------------------------------------------
(***************************************************************************)
(* What lookahead finds, one rule at a time.                               *)
(***************************************************************************)
Special == {"quote", "backslash"}

LEMMA EndsHere ==
  ASSUME NEW line \in Seq(Unit), NEW i \in 1 .. Len(line) + 1, NEW m \in Mode, Ends(line, i, m)
  PROVE  /\ Rest(line)[i][m].text = <<>>
         /\ Rest(line)[i][m].next = IF m = "programquoted" /\ i <= Len(line) THEN i + 1 ELSE i
<1>1. Rest(line)[i][m] = RestAt(line, Rest(line), i, m)
  BY RestSteps
<1> QED
  BY <1>1 DEF RestAt

LEMMA PlainRune ==
  ASSUME NEW line \in Seq(Unit), NEW i \in 1 .. Len(line), NEW m \in Mode, ~Ends(line, i, m),
         ~(m \in {"unquoted", "quoted"} /\ line[i] \in Special)
  PROVE  Rest(line)[i][m] = With(Encoded(RuneAt(line, i)), Rest(line)[NextAt(line, i)][m])
<1>1. Rest(line)[i][m] = RestAt(line, Rest(line), i, m)
  BY RestSteps
<1>2. /\ ~(m \in {"unquoted", "quoted"} /\ line[i] = "quote")
      /\ ~(m \in {"unquoted", "quoted"} /\ line[i] = "backslash")
  BY DEF Special
<1> QED
  BY <1>1, <1>2, Zenon DEF RestAt

LEMMA QuoteHere ==
  ASSUME NEW line \in Seq(Unit), NEW i \in 1 .. Len(line), line[i] = "quote"
  PROVE  /\ Rest(line)[i]["unquoted"] = Rest(line)[i + 1]["quoted"]
         /\ Rest(line)[i]["quoted"] =
              IF Is(line, i + 1, "quote") THEN With(<<"quote">>, Rest(line)[i + 2]["unquoted"])
              ELSE Rest(line)[i + 1]["unquoted"]
<1>1. i \in 1 .. Len(line) + 1 /\ ~(i > Len(line)) /\ "unquoted" \in Mode /\ "quoted" \in Mode
  BY DEF Mode
<1>2. ~Ends(line, i, "unquoted") /\ ~Ends(line, i, "quoted")
  BY <1>1 DEF Ends, blank
<1> DEFINE f == Rest(line)
<1>3. /\ f[i]["unquoted"] = RestAt(line, f, i, "unquoted")
      /\ f[i]["quoted"] = RestAt(line, f, i, "quoted")
  BY <1>1, RestSteps
<1> HIDE DEF f
<1>4. /\ f[i]["unquoted"] = Quote(line, f, i, "unquoted")
      /\ f[i]["quoted"] = Quote(line, f, i, "quoted")
  BY <1>2, <1>3 DEF RestAt
<1>5. f[i]["unquoted"] = f[i + 1]["quoted"]
  BY <1>4 DEF Quote
<1>6. f[i]["quoted"] = IF Is(line, i + 1, "quote") THEN With(<<"quote">>, f[i + 2]["unquoted"])
                       ELSE f[i + 1]["unquoted"]
  BY <1>4 DEF Quote
<1> QED
  BY <1>5, <1>6 DEF f

\* What becomes of a run of backslashes, seen from its end.
LEMMA BackslashesBehind ==
  ASSUME NEW line \in Seq(Unit), NEW i \in 1 .. Len(line) + 1, NEW n \in 1 .. i - 1,
         \A k \in i - n .. i - 1 : line[k] = "backslash",
         ~Is(line, i, "backslash"), NEW m \in {"unquoted", "quoted"}
  PROVE  Rest(line)[i - n][m] =
           IF ~Is(line, i, "quote") THEN With(Slashes(n), Rest(line)[i][m])
           ELSE IF n % 2 = 0 THEN With(Slashes(n \div 2), Rest(line)[i][m])
           ELSE With(Append(Slashes(n \div 2), "quote"), Rest(line)[i + 1][m])
<1> DEFINE b == i - n
           f == Rest(line)
<1>1. b \in 1 .. Len(line) /\ b \in 1 .. Len(line) + 1 /\ n \in 0 .. Len(line) + 1 - b
      /\ b + n = i /\ ~(b > Len(line)) /\ m \in Mode
  BY DEF Mode
<1>2. \A k \in b .. b + n - 1 : Is(line, k, "backslash")
  BY DEF Is
<1>3. b \in i - n .. i - 1 /\ line[b] = "backslash"
  OBVIOUS
<1> HIDE DEF b
<1>4. Run(line, b) = n
  BY <1>1, <1>2, RunIs
<1>5. ~Ends(line, b, m)
  BY <1>1, <1>3 DEF Ends, blank
<1>6. f[b][m] = RestAt(line, f, b, m)
  BY <1>1, RestSteps
<1> HIDE DEF f
<1>7. f[b][m] = Backslashes(line, f, b, m)
  <2>1. line[b] # "quote" /\ m \in {"unquoted", "quoted"}
    BY <1>3
  <2> QED
    BY <1>3, <1>5, <1>6, <2>1, Zenon DEF RestAt
<1>8. f[b][m] = IF ~Is(line, i, "quote") THEN With(Slashes(n), f[i][m])
                ELSE IF n % 2 = 0 THEN With(Slashes(n \div 2), f[i][m])
                ELSE With(Append(Slashes(n \div 2), "quote"), f[i + 1][m])
  BY <1>1, <1>4, <1>7, Zenon DEF Backslashes
<1> QED
  BY <1>8, Zenon DEF b, f

LEMMA RestText ==
  ASSUME NEW line \in Seq(Unit), NEW i \in 1 .. Len(line) + 1, NEW m \in Mode
  PROVE  Rest(line)[i][m].text \in Seq(Byte) /\ Rest(line)[i][m].next \in i .. Len(line) + 1
<1>1. Rest(line)[i][m] \in Piece(line, i)
  BY RestType
<1> QED
  BY <1>1 DEF Piece

LEMMA ListHere ==
  ASSUME NEW line \in Seq(Unit), NEW i \in 1 .. Len(line) + 1
  PROVE  /\ i = Len(line) + 1 => List(line)[i] = <<>>
         /\ i <= Len(line) /\ blank(line[i]) => List(line)[i] = List(line)[i + 1]
         /\ i <= Len(line) /\ ~blank(line[i]) =>
              List(line)[i] = <<Rest(line)[i]["unquoted"].text>>
                                \o List(line)[Rest(line)[i]["unquoted"].next]
<1>1. List(line)[i] = ListAt(line, List(line), i)
  BY ListSteps
<1>2. (i = Len(line) + 1 => i > Len(line)) /\ (i <= Len(line) => ~(i > Len(line)))
  OBVIOUS
<1> QED
  BY <1>1, <1>2, Zenon DEF ListAt

\* Reading without lookahead finds the same runes.
LEMMA SameRune ==
  ASSUME TypeOK, More
  PROVE  /\ cmd \in Seq(Unit) /\ pos \in 1 .. Len(cmd)
         /\ c = RuneAt(cmd, pos) /\ pos + Units = NextAt(cmd, pos)
         /\ \A r \in {"space", "tab", "quote", "backslash"} :
              c = r <=> cmd[pos] = r
         /\ blank(c) <=> blank(cmd[pos])
<1>1. cmd \in Seq(Unit) /\ pos \in 1 .. Len(cmd)
  BY CommandsAssumption DEF TypeOK, More
<1>2. CASE Paired
  <2>1. Is(cmd, pos, "hi") /\ Is(cmd, pos + 1, "lo")
    BY <1>1, <1>2 DEF Paired, Is
  <2>2. NextAt(cmd, pos) = pos + 2 /\ RuneAt(cmd, pos) = "pair" /\ c = "pair" /\ Units = 2
    BY <1>2, <2>1 DEF NextAt, RuneAt, c, Units
  <2>3. cmd[pos] = "hi"
    BY <1>2 DEF Paired
  <2> QED
    BY <1>1, <2>2, <2>3 DEF blank
<1>3. CASE ~Paired
  <2>1. ~(Is(cmd, pos, "hi") /\ Is(cmd, pos + 1, "lo"))
    BY <1>1, <1>3 DEF Paired, Is
  <2>2. NextAt(cmd, pos) = pos + 1 /\ pos + 1 # pos + 2
    BY <1>1, <2>1 DEF NextAt
  <2>3. RuneAt(cmd, pos) = cmd[pos] /\ c = cmd[pos] /\ Units = 1
    BY <1>3, <2>2 DEF RuneAt, c, Units
  <2> QED
    BY <1>1, <2>2, <2>3
<1> QED
  BY <1>2, <1>3

LEMMA NoNull ==
  ASSUME NEW r \in Rune
  PROVE  \A i \in 1 .. Len(Encoded(r)) : Encoded(r)[i] # "nul"
<1>0. r # "nul"
  BY DEF Rune, Unit
<1>1. CASE r = "e"
  <2>1. Encoded(r) = <<r, "cont">>
    BY <1>1 DEF Encoded
  <2> QED
    BY <1>0, <2>1
<1>2. CASE r \in {"u", "hi", "lo"}
  <2>1. Encoded(r) = <<r, "cont", "cont">>
    BY <1>2 DEF Encoded
  <2> QED
    BY <1>0, <2>1
<1>3. CASE r = "pair"
  <2>1. Encoded(r) = <<r, "cont", "cont", "cont">>
    BY <1>3 DEF Encoded
  <2> QED
    BY <1>0, <2>1
<1>4. CASE r \notin {"e", "u", "hi", "lo", "pair"}
  <2>1. Encoded(r) = <<r>>
    BY <1>4 DEF Encoded
  <2> QED
    BY <1>0, <2>1
<1> QED
  BY <1>1, <1>2, <1>3, <1>4

-----------------------------------------------------------------------------
(***************************************************************************)
(* The arguments are those read with lookahead.  While the command line is *)
(* read, they are the arguments that are complete, then what was written   *)
(* of the one under way with what lookahead finds left of it, then what    *)
(* lookahead finds behind it.  A run of backslashes is not counted as      *)
(* written, since what becomes of it is not known before its end; nor is a *)
(* quotation mark as read that may be followed by another.                 *)
(***************************************************************************)
Finished == IF state = "outside" THEN argc ELSE argc - 1
Limit    == IF state = "outside" THEN Len(buf) ELSE argv[argc]

Past == [k \in 1 .. Finished |-> Argument(k)]

InSlashes == state \in {"slashes", "slashesquoted"}

\* The bytes of the argument under way, up to n.
Last(n) == SubSeq(buf, argv[argc] + 1, n)

Written == Last(IF InSlashes THEN Len(buf) - slash ELSE Len(buf))

Left == IF InSlashes THEN Rest(cmd)[pos - slash][Around]
        ELSE IF state = "closing" THEN Rest(cmd)[pos - 1]["quoted"]
        ELSE Rest(cmd)[pos][state]

Ahead(bytes, arg) == <<bytes \o arg.text>> \o List(cmd)[arg.next]

LeftInv ==
  /\ state = "begin" => pos = 1 /\ argv = <<0>> /\ buf = <<>>
  /\ state = "outside" => Arguments(cmd) = Past \o List(cmd)[pos]
  /\ state \notin {"begin", "outside"} => Arguments(cmd) = Past \o Ahead(Written, Left)

\* What was read before, as far as it matters.
ReadInv ==
  /\ state = "closing" => pos > 1 /\ cmd[pos - 1] = "quote"
  /\ InSlashes =>
       /\ slash \in 1 .. pos - 1
       /\ \A k \in pos - slash .. pos - 1 : cmd[k] = "backslash"
       /\ \A i \in Len(buf) - slash + 1 .. Len(buf) : buf[i] = "backslash"

\* A null ends each complete argument, and there is none in the last one.
NulInv ==
  /\ \A k \in 1 .. Finished : \E i \in argv[k] + 1 .. Limit : buf[i] = "nul"
  /\ state # "outside" => \A i \in argv[argc] + 1 .. Len(buf) : buf[i] # "nul"

ReadingInv == LeftInv /\ ReadInv /\ NulInv

ExactInv ==
  /\ CommandLineInv
  /\ state # "done" => ReadingInv
  /\ Len(cmd) < CmdMax - 1 => ArgumentsExact

LEMMA Facts ==
  ASSUME CommandLineInv
  PROVE  /\ cmd \in Seq(Unit) /\ Len(cmd) \in Nat /\ pos \in 1 .. Len(cmd) + 1
         /\ buf \in Seq(Byte) /\ Len(buf) \in Nat /\ slash \in Nat
         /\ argv \in Seq(Nat) /\ argc = Len(argv) /\ argc \in Nat \ {0}
         /\ argv[argc] \in 0 .. Len(buf) /\ \A k \in 1 .. argc : argv[k] \in Nat
         /\ Finished \in 0 .. argc /\ Limit \in 0 .. Len(buf)
         /\ state # "outside" => Finished = argc - 1 /\ Limit = argv[argc]
         /\ state = "outside" => Finished = argc /\ Limit = Len(buf)
         /\ InSlashes => Len(buf) - slash \in argv[argc] .. Len(buf)
<1>1. TypeOK /\ SlashBound
  BY DEF CommandLineInv
<1>2. cmd \in Seq(Unit) /\ pos \in 1 .. Len(cmd) + 1 /\ buf \in Seq(Byte)
      /\ slash \in Nat /\ argv \in Seq(Nat)
  BY <1>1, CommandsAssumption DEF TypeOK
<1>3. Len(cmd) \in Nat /\ Len(buf) \in Nat /\ argc = Len(argv) /\ argc \in Nat
  BY <1>2 DEF argc
<1>4. argc >= 1 /\ argv[argc] <= Len(buf)
  BY <1>1 DEF SlashBound
<1>5. \A k \in 1 .. argc : argv[k] \in Nat
  BY <1>2, <1>3
<1>6. argv[argc] \in 0 .. Len(buf)
  BY <1>3, <1>4, <1>5
<1>7. /\ Finished \in 0 .. argc /\ Limit \in 0 .. Len(buf)
      /\ state # "outside" => Finished = argc - 1 /\ Limit = argv[argc]
      /\ state = "outside" => Finished = argc /\ Limit = Len(buf)
  BY <1>3, <1>4, <1>6 DEF Finished, Limit
<1>8. InSlashes => Len(buf) - slash \in argv[argc] .. Len(buf)
  <2>1. InSlashes => slash <= Len(buf) - argv[argc]
    BY <1>1 DEF SlashBound, InSlashes
  <2> QED
    BY <1>2, <1>3, <1>6, <2>1
<1> QED
  BY <1>2, <1>3, <1>4, <1>5, <1>6, <1>7, <1>8

\* The complete arguments stay what they are.
LEMMA PastKept ==
  ASSUME CommandLineInv, NulInv, Finished' = Finished,
         \A k \in 1 .. Finished : argv'[k] = argv[k],
         buf' \in Seq(Byte), Limit <= Len(buf'), \A i \in 1 .. Limit : buf'[i] = buf[i]
  PROVE  /\ Past' = Past /\ Past \in Seq(Arg)
         /\ \A k \in 1 .. Finished : \E i \in argv'[k] + 1 .. Limit : buf'[i] = "nul"
<1>1. ASSUME NEW k \in 1 .. Finished
      PROVE  /\ CString(buf', argv[k]) = CString(buf, argv[k])
             /\ CString(buf, argv[k]) \in Arg
             /\ argv'[k] = argv[k]
             /\ \E i \in argv'[k] + 1 .. Limit : buf'[i] = "nul"
  <2>1. /\ argv[k] \in Nat /\ Limit \in Nat /\ Limit <= Len(buf) /\ buf \in Seq(Byte)
        /\ argv'[k] = argv[k]
    BY Facts
  <2>2. PICK i \in argv[k] + 1 .. Limit : buf[i] = "nul"
    BY DEF NulInv
  <2>3. buf'[i] = "nul"
    <3>1. i \in 1 .. Limit
      BY <2>1
    <3> QED
      BY <2>2, <3>1
  <2>4. CString(buf', argv[k]) = CString(buf, argv[k]) /\ CString(buf, argv[k]) \in Arg
    BY <2>1, <2>2, CStringKept DEF Arg
  <2> QED
    BY <2>1, <2>3, <2>4
<1>2. Past' = [k \in 1 .. Finished |-> CString(buf', argv'[k])]
  BY DEF Past, Argument
<1>3. Past = [k \in 1 .. Finished |-> CString(buf, argv[k])]
  BY DEF Past, Argument
<1>4. Past' = Past
  BY <1>1, <1>2, <1>3, Zenon
<1>5. Past \in Seq(Arg)
  <2>1. Past \in [1 .. Finished -> Arg] /\ Finished \in Nat
    BY <1>1, <1>3, Facts
  <2> QED
    BY <2>1
<1> QED
  BY <1>1, <1>4, <1>5

LEMMA PastType ==
  ASSUME CommandLineInv, NulInv PROVE Past \in Seq(Arg)
<1>1. ASSUME NEW k \in 1 .. Finished PROVE CString(buf, argv[k]) \in Arg
  <2>1. /\ argv[k] \in Nat /\ Limit \in Nat /\ Limit <= Len(buf) /\ buf \in Seq(Byte)
    BY Facts
  <2>2. \E i \in argv[k] + 1 .. Limit : buf[i] = "nul"
    BY DEF NulInv
  <2> QED
    BY <2>1, <2>2, CStringKept DEF Arg
<1>2. Past = [k \in 1 .. Finished |-> CString(buf, argv[k])]
  BY DEF Past, Argument
<1>3. Past \in [1 .. Finished -> Arg] /\ Finished \in Nat
  BY <1>1, <1>2, Facts
<1> QED
  BY <1>3

LEMMA ListsJoined ==
  ASSUME NEW x \in Seq(Arg), NEW y \in Seq(Arg)
  PROVE  /\ x \o y \in Seq(Arg) /\ Len(x \o y) = Len(x) + Len(y)
         /\ \A i \in 1 .. Len(x) : (x \o y)[i] = x[i]
         /\ \A i \in Len(x) + 1 .. Len(x) + Len(y) : (x \o y)[i] = y[i - Len(x)]
OBVIOUS

LEMMA AddedIs ==
  ASSUME NEW s \in Seq(Arg), NEW x \in Arg
  PROVE  /\ s \o <<x>> \in Seq(Arg) /\ Len(s \o <<x>>) = Len(s) + 1
         /\ \A k \in 1 .. Len(s) : (s \o <<x>>)[k] = s[k]
         /\ (s \o <<x>>)[Len(s) + 1] = x
<1> DEFINE y == <<x>>
<1>1. y \in Seq(Arg) /\ Len(y) = 1 /\ y[1] = x
  OBVIOUS
<1> HIDE DEF y
<1>2. /\ s \o y \in Seq(Arg) /\ Len(s \o y) = Len(s) + Len(y)
      /\ \A k \in 1 .. Len(s) : (s \o y)[k] = s[k]
      /\ \A k \in Len(s) + 1 .. Len(s) + Len(y) : (s \o y)[k] = y[k - Len(s)]
  BY <1>1, ListsJoined
<1>3. /\ Len(s) + 1 \in Len(s) + 1 .. Len(s) + Len(y) /\ (Len(s) + 1) - Len(s) = 1
      /\ Len(s) + Len(y) = Len(s) + 1
  BY <1>1
<1> QED
  BY <1>1, <1>2, <1>3 DEF y

\* A null completes the argument under way.
LEMMA PastComplete ==
  ASSUME CommandLineInv, NulInv, state # "outside", argv' = argv, buf' = buf \o Ended
  PROVE  /\ [k \in 1 .. argc |-> Argument(k)]' = Past \o <<Last(Len(buf))>>
         /\ Past \in Seq(Arg) /\ Last(Len(buf)) \in Arg
         /\ \A k \in 1 .. argc : \E i \in argv[k] + 1 .. Len(buf') : buf'[i] = "nul"
<1> DEFINE all == [k \in 1 .. argc |-> CString(buf', argv[k])]
           n == Len(buf) + 1
           x == Last(Len(buf))
           both == Past \o <<x>>
<1>1. /\ buf \in Seq(Byte) /\ Len(buf) \in Nat /\ argc \in Nat \ {0} /\ Finished = argc - 1
      /\ argv[argc] \in 0 .. Len(buf) /\ \A k \in 1 .. argc : argv[k] \in Nat
      /\ Limit = argv[argc]
  BY Facts
<1>2. Ended \in Seq(Byte) /\ Len(Ended) = 1 /\ Ended[1] = "nul"
  BY DEF Ended, Byte
<1>3. /\ buf' \in Seq(Byte) /\ Len(buf') = n /\ buf'[n] = "nul"
      /\ \A i \in 1 .. Len(buf) : buf'[i] = buf[i]
  <2>1. /\ buf' \in Seq(Byte) /\ Len(buf') = n
        /\ \A i \in 1 .. Len(buf) : buf'[i] = buf[i]
        /\ \A i \in Len(buf) + 1 .. Len(buf) + 1 : buf'[i] = Ended[i - Len(buf)]
    <3>1. /\ buf \o Ended \in Seq(Byte) /\ Len(buf \o Ended) = Len(buf) + Len(Ended)
          /\ \A i \in 1 .. Len(buf) : (buf \o Ended)[i] = buf[i]
          /\ \A i \in Len(buf) + 1 .. Len(buf) + Len(Ended) :
               (buf \o Ended)[i] = Ended[i - Len(buf)]
      BY <1>1, <1>2, JoinedIs
    <3> QED
      BY <1>2, <3>1
  <2>2. n \in Len(buf) + 1 .. Len(buf) + 1 /\ n - Len(buf) = 1
    BY <1>1
  <2> QED
    BY <1>2, <2>1, <2>2
<1>4. ASSUME NEW k \in 1 .. Finished
      PROVE  CString(buf', argv[k]) = Past[k] /\ \E i \in argv[k] + 1 .. n : buf'[i] = "nul"
  <2>1. argv[k] \in Nat /\ Limit \in Nat /\ Limit <= Len(buf) /\ Limit <= Len(buf')
        /\ \A i \in 1 .. Limit : i \in 1 .. Len(buf) /\ i \in 1 .. n
    BY <1>1, <1>3
  <2>2. PICK i \in argv[k] + 1 .. Limit : buf[i] = "nul"
    BY DEF NulInv
  <2>3. CString(buf', argv[k]) = CString(buf, argv[k])
    <3>1. buf \in Seq(Byte) /\ buf' \in Seq(Byte) /\ \A j \in 1 .. Limit : buf'[j] = buf[j]
      BY <1>1, <1>3, <2>1
    <3>2. \E j \in argv[k] + 1 .. Limit : buf[j] = "nul"
      BY <2>2
    <3> HIDE DEF n
    <3> QED
      BY <2>1, <3>1, <3>2, CStringKept
  <2>4. i \in argv[k] + 1 .. n /\ buf'[i] = "nul"
    BY <1>3, <2>1, <2>2
  <2> QED
    BY <2>3, <2>4 DEF Past, Argument
<1>5. CString(buf', argv[argc]) = x /\ x \in Arg
  <2>1. n \in argv[argc] + 1 .. Len(buf') /\ argv[argc] \in Nat /\ n - 1 = Len(buf)
    BY <1>1, <1>3
  <2>2. \A j \in argv[argc] + 1 .. n - 1 : buf'[j] # "nul"
    <3>1. \A j \in argv[argc] + 1 .. n - 1 : j \in argv[argc] + 1 .. Len(buf) /\ j \in 1 .. Len(buf)
      BY <1>1
    <3> QED
      BY <1>3, <3>1 DEF NulInv
  <2>3. CString(buf', argv[argc]) = SubSeq(buf', argv[argc] + 1, n - 1)
    BY <1>3, <2>1, <2>2, CStringIs
  <2>4. SubSeq(buf', argv[argc] + 1, Len(buf)) = x /\ x \in Seq(Byte)
    <3>1. Len(buf) <= Len(buf) /\ Len(buf) <= Len(buf')
      BY <1>1, <1>3
    <3>2. buf' \in Seq(Byte) /\ \A i \in 1 .. Len(buf) : buf'[i] = buf[i]
      BY <1>3
    <3>3. x = SubSeq(buf, argv[argc] + 1, Len(buf))
      BY DEF Last
    <3>4. argv[argc] \in Nat /\ Len(buf) \in Nat /\ buf \in Seq(Byte)
      BY <1>1
    <3> DEFINE d == buf'
    <3>5. d \in Seq(Byte) /\ Len(buf) <= Len(d) /\ \A i \in 1 .. Len(buf) : d[i] = buf[i]
      BY <3>1, <3>2
    <3> HIDE DEF x, n, d
    <3>6. SubSeq(d, argv[argc] + 1, Len(buf)) = SubSeq(buf, argv[argc] + 1, Len(buf))
          /\ SubSeq(buf, argv[argc] + 1, Len(buf)) \in Seq(Byte)
      BY <3>1, <3>4, <3>5, PartKept
    <3> QED
      BY <3>3, <3>6 DEF d
  <2> QED
    BY <2>1, <2>3, <2>4 DEF Arg
<1>6. Past \in Seq(Arg) /\ Len(Past) = Finished
  <2>1. Past \in Seq(Arg)
    BY PastType
  <2>2. Len(Past) = Finished
    BY <1>1 DEF Past
  <2> QED
    BY <2>1, <2>2
<1>7. /\ both \in Seq(Arg) /\ Len(both) = argc
      /\ \A k \in 1 .. argc - 1 : both[k] = Past[k]
      /\ both[argc] = x
  <2>1. x \in Arg
    BY <1>5
  <2> HIDE DEF x
  <2>2. /\ both \in Seq(Arg) /\ Len(both) = Finished + 1
        /\ \A k \in 1 .. Finished : both[k] = Past[k]
        /\ both[Finished + 1] = x
    BY <1>6, <2>1, AddedIs
  <2>3. Finished + 1 = argc
    BY <1>1
  <2> HIDE DEF both
  <2> QED
    BY <1>1, <2>2, <2>3
<1>8. all = both
  <2> HIDE DEF x, both
  <2>1. ASSUME NEW k \in 1 .. argc PROVE CString(buf', argv[k]) = both[k]
    <3>1. CASE k = argc
      BY <1>5, <1>7, <3>1
    <3>2. CASE k # argc
      <4>1. k \in 1 .. Finished /\ k \in 1 .. argc - 1
        BY <1>1, <3>2
      <4> QED
        BY <1>4, <1>7, <4>1
    <3> QED
      BY <3>1, <3>2
  <2>2. both = [k \in 1 .. argc |-> both[k]]
    BY <1>1, <1>7
  <2> QED
    BY <2>1, <2>2, Zenon
<1>9. [k \in 1 .. argc |-> Argument(k)]' = all
  BY DEF Argument, argc
<1>10. ASSUME NEW k \in 1 .. argc PROVE \E i \in argv[k] + 1 .. n : buf'[i] = "nul"
  <2>1. CASE k = argc
    <3>1. n \in argv[k] + 1 .. n
      BY <1>1, <2>1
    <3> QED
      BY <1>3, <3>1
  <2>2. CASE k # argc
    <3>1. k \in 1 .. Finished
      BY <1>1, <2>2
    <3> QED
      BY <1>4, <3>1
  <2> QED
    BY <2>1, <2>2
<1> QED
  BY <1>3, <1>5, <1>6, <1>8, <1>9, <1>10

-----------------------------------------------------------------------------
(***************************************************************************)
(* Steps within an argument.                                               *)
(***************************************************************************)
LEMMA Moves ==
  ASSUME NEW w \in Seq(Byte), NEW more \in Seq(Byte), NEW arg, arg.text \in Seq(Byte)
  PROVE  Ahead(w, With(more, arg)) = Ahead(w \o more, arg)
<1> DEFINE rest == arg.text
<1>1. w \o (more \o rest) = (w \o more) \o rest
  <2>1. rest \in Seq(Byte)
    OBVIOUS
  <2> HIDE DEF rest
  <2> QED
    BY <2>1, ConcatAssociative, SMTT(30)
<1>2. With(more, arg).text = more \o rest /\ With(more, arg).next = arg.next
  BY DEF With
<1> QED
  BY <1>1, <1>2, Zenon DEF Ahead

LEMMA BackslashesAfter ==
  ASSUME NEW b \in Seq(Byte), NEW a \in Nat, NEW n \in a .. Len(b), NEW t \in Nat,
         n + t <= Len(b), \A i \in n + 1 .. n + t : b[i] = "backslash"
  PROVE  SubSeq(b, a + 1, n + t) = SubSeq(b, a + 1, n) \o Slashes(t)
<1> DEFINE x == SubSeq(b, a + 1, n)
           y == SubSeq(b, a + 1, n + t)
           sl == Slashes(t)
           z == x \o sl
           L == n - a
<1>1. L \in Nat /\ n = a + L /\ n \in 0 .. Len(b) /\ a \in 0 .. n
  OBVIOUS
<1>2. x \in Seq(Byte) /\ Len(x) = L /\ \A i \in 1 .. L : x[i] = b[a + i]
  <2> HIDE DEF L
  <2>1. L = n - a
    BY DEF L
  <2> QED
    BY <1>1, <2>1, PartIs
<1>3. y \in Seq(Byte) /\ Len(y) = L + t /\ \A i \in 1 .. L + t : y[i] = b[a + i]
  <2> DEFINE last == n + t
  <2>1. last \in 0 .. Len(b) /\ a \in 0 .. last /\ last - a = L + t
    BY <1>1
  <2>2. y = SubSeq(b, a + 1, last)
    OBVIOUS
  <2> HIDE DEF last, y, L
  <2>3. y \in Seq(Byte) /\ Len(y) = last - a /\ \A i \in 1 .. last - a : y[i] = b[a + i]
    BY <2>1, <2>2, PartIs, Zenon
  <2> QED
    BY <2>1, <2>3
<1>4. sl \in Seq(Byte) /\ Len(sl) = t /\ \A i \in 1 .. t : sl[i] = "backslash"
  BY SlashesAre
<1> HIDE DEF x, y, L, sl
<1>5. /\ z \in Seq(Byte) /\ Len(z) = L + t
      /\ \A i \in 1 .. L : z[i] = x[i]
      /\ \A i \in L + 1 .. L + t : z[i] = sl[i - L]
  BY <1>2, <1>4, JoinedIs
<1> HIDE DEF z
<1>6. ASSUME NEW i \in 1 .. L + t PROVE y[i] = z[i]
  <2>1. CASE i <= L
    <3>1. i \in 1 .. L
      BY <1>1, <2>1
    <3> QED
      BY <1>2, <1>3, <1>5, <3>1
  <2>2. CASE ~(i <= L)
    <3>1. i \in L + 1 .. L + t /\ a + i \in n + 1 .. n + t /\ i - L \in 1 .. t
      BY <1>1, <2>2
    <3>2. y[i] = "backslash"
      BY <1>3, <3>1
    <3>3. z[i] = "backslash"
      BY <1>4, <1>5, <3>1
    <3> QED
      BY <3>2, <3>3
  <2> QED
    BY <2>1, <2>2
<1>7. y = z
  BY <1>1, <1>3, <1>5, <1>6
<1> QED
  BY <1>7 DEF x, y, z, sl

LEMMA GoesOn ==
  ASSUME CommandLineInv, ReadingInv, cmd' = cmd,
         state' \notin {"begin", "outside", "done"},
         Finished' = Finished, Limit' = Limit,
         \A k \in 1 .. Finished : argv'[k] = argv[k],
         buf' \in Seq(Byte), Limit <= Len(buf'),
         \A i \in 1 .. Limit : buf'[i] = buf[i],
         \A i \in Limit + 1 .. Len(buf') : buf'[i] # "nul",
         ReadInv', Arguments(cmd) = Past \o Ahead(Written', Left')
  PROVE  ReadingInv'
<1>1. NulInv
  BY DEF ReadingInv
<1>2. Past' = Past /\ \A k \in 1 .. Finished : \E i \in argv'[k] + 1 .. Limit : buf'[i] = "nul"
  BY <1>1, PastKept
<1>3. LeftInv'
  <2>1. Ahead(Written, Left)' = Ahead(Written', Left')
    BY DEF Ahead
  <2>2. Arguments(cmd)' = Past' \o Ahead(Written, Left)'
    BY <1>2, <2>1
  <2> QED
    BY <2>2 DEF LeftInv
<1>4. NulInv'
  <2>1. Limit' = argv'[argc']
    BY DEF Limit
  <2>2. \A k \in 1 .. Finished' : \E i \in argv'[k] + 1 .. Limit' : buf'[i] = "nul"
    BY <1>2
  <2>3. \A i \in argv'[argc'] + 1 .. Len(buf') : buf'[i] # "nul"
    BY <2>1
  <2> QED
    BY <2>2, <2>3 DEF NulInv
<1> QED
  BY <1>3, <1>4 DEF ReadingInv

\* The same for the argument that was under way before.
LEMMA StaysInside ==
  ASSUME CommandLineInv, ReadingInv, UNCHANGED <<cmd, argv>>,
         state # "outside", state' \notin {"begin", "outside", "done"},
         buf' \in Seq(Byte), argv[argc] <= Len(buf'),
         \A i \in 1 .. argv[argc] : buf'[i] = buf[i],
         \A i \in argv[argc] + 1 .. Len(buf') : buf'[i] # "nul",
         ReadInv', Arguments(cmd) = Past \o Ahead(Written', Left')
  PROVE  ReadingInv'
<1>1. argc' = argc
  BY DEF argc
<1>2. Finished' = Finished /\ Limit' = Limit /\ Limit = argv[argc]
  BY <1>1 DEF Finished, Limit
<1>3. \A k \in 1 .. Finished : argv'[k] = argv[k]
  OBVIOUS
<1> QED
  BY <1>2, <1>3, GoesOn

\* Bytes without a null are written for it.
LEMMA Writes ==
  ASSUME CommandLineInv, NEW bytes \in Seq(Byte), \A i \in 1 .. Len(bytes) : bytes[i] # "nul",
         state # "outside" => NulInv, argv' = argv, buf' = buf \o bytes
  PROVE  /\ buf' \in Seq(Byte) /\ Len(buf') = Len(buf) + Len(bytes)
         /\ \A i \in 1 .. Len(buf) : buf'[i] = buf[i]
         /\ \A i \in Len(buf) + 1 .. Len(buf') : buf'[i] = bytes[i - Len(buf)]
         /\ argv[argc] <= Len(buf')
         /\ \A i \in 1 .. argv[argc] : buf'[i] = buf[i]
         /\ state # "outside" => \A i \in argv[argc] + 1 .. Len(buf') : buf'[i] # "nul"
         /\ Last(Len(buf))' = Last(Len(buf)) \o bytes
         /\ SubSeq(buf', argv[argc] + 1, Len(buf)) = Last(Len(buf))
         /\ Last(Len(buf)) \in Seq(Byte)
<1> DEFINE a == argv[argc]
<1>1. /\ buf \in Seq(Byte) /\ Len(buf) \in Nat /\ a \in 0 .. Len(buf) /\ a \in Nat
      /\ Len(bytes) \in Nat
  BY Facts
<1> HIDE DEF a
<1>2. /\ buf' \in Seq(Byte) /\ Len(buf') = Len(buf) + Len(bytes)
      /\ \A i \in 1 .. Len(buf) : buf'[i] = buf[i]
      /\ \A i \in Len(buf) + 1 .. Len(buf) + Len(bytes) : buf'[i] = bytes[i - Len(buf)]
      /\ SubSeq(buf', a + 1, Len(buf) + Len(bytes)) = SubSeq(buf, a + 1, Len(buf)) \o bytes
      /\ SubSeq(buf, a + 1, Len(buf)) \in Seq(Byte)
  BY <1>1, PartGrown
<1>3. a <= Len(buf') /\ \A i \in 1 .. a : buf'[i] = buf[i]
  BY <1>1, <1>2
<1>4. ASSUME state # "outside", NEW i \in a + 1 .. Len(buf') PROVE buf'[i] # "nul"
  <2>1. CASE i <= Len(buf)
    <3>1. i \in a + 1 .. Len(buf) /\ i \in 1 .. Len(buf)
      BY <1>1, <2>1
    <3>2. buf[i] # "nul"
      BY <1>4, <3>1 DEF NulInv, a
    <3> QED
      BY <1>2, <3>1, <3>2
  <2>2. CASE ~(i <= Len(buf))
    <3>1. i \in Len(buf) + 1 .. Len(buf) + Len(bytes) /\ i - Len(buf) \in 1 .. Len(bytes)
      BY <1>1, <1>2, <2>2
    <3> QED
      BY <1>2, <3>1
  <2> QED
    BY <2>1, <2>2
<1>5. SubSeq(buf', a + 1, Len(buf)) = SubSeq(buf, a + 1, Len(buf))
  <2>1. Len(buf) <= Len(buf') /\ Len(buf) <= Len(buf)
    BY <1>1, <1>2
  <2> QED
    BY <1>1, <1>2, <2>1, PartKept
<1>6. Last(Len(buf)) = SubSeq(buf, a + 1, Len(buf))
      /\ Last(Len(buf))' = SubSeq(buf', a + 1, Len(buf'))
  BY DEF Last, a, argc
<1>7. \A i \in Len(buf) + 1 .. Len(buf') : buf'[i] = bytes[i - Len(buf)]
  BY <1>2
<1> QED
  BY <1>2, <1>3, <1>4, <1>5, <1>6, <1>7 DEF a

-----------------------------------------------------------------------------
(***************************************************************************)
(* What is left of the argument, once nothing read is undecided.           *)
(***************************************************************************)
Settled ==
  IF state = "begin" THEN "program"
  ELSE IF InSlashes THEN Around
  ELSE IF state = "closing" THEN "unquoted"
  ELSE state

LEMMA NothingBefore ==
  ASSUME NEW arg, arg.text \in Seq(Byte), NEW w \in Seq(Byte)
  PROVE  /\ Ahead(<<>>, arg) = <<arg.text>> \o List(cmd)[arg.next]
         /\ Ahead(w, With(<<>>, arg)) = Ahead(w, arg)
<1> DEFINE rest == arg.text
<1>1. <<>> \o rest = rest
  <2>1. rest \in Seq(Byte)
    OBVIOUS
  <2> HIDE DEF rest
  <2> QED
    BY <2>1
<1>2. With(<<>>, arg).text = <<>> \o rest /\ With(<<>>, arg).next = arg.next
  BY DEF With
<1> QED
  BY <1>1, <1>2, Zenon DEF Ahead

LEMMA AheadType ==
  ASSUME CommandLineInv, NEW w \in Seq(Byte), NEW arg, arg.text \in Seq(Byte),
         arg.next \in 1 .. Len(cmd) + 1
  PROVE  Ahead(w, arg) \in Seq(Arg)
<1> DEFINE rest == arg.text
           x == w \o rest
           one == <<x>>
           behind == List(cmd)[arg.next]
<1>1. x \in Arg
  <2>1. rest \in Seq(Byte)
    OBVIOUS
  <2> HIDE DEF rest
  <2> QED
    BY <2>1, JoinedIs DEF Arg
<1>2. behind \in Seq(Arg)
  BY Facts, ListType
<1> HIDE DEF x, behind
<1>3. one \in Seq(Arg)
  BY <1>1
<1> HIDE DEF one
<1>4. one \o behind \in Seq(Arg)
  BY <1>2, <1>3, ListsJoined
<1> QED
  BY <1>4 DEF Ahead, one, x, behind

LEMMA AtBegin ==
  ASSUME CommandLineInv, ReadingInv, state = "begin"
  PROVE  /\ pos = 1 /\ Past = <<>> /\ Last(Len(buf)) = <<>>
         /\ Program(cmd).text \in Seq(Byte)
         /\ Arguments(cmd) = Past \o Ahead(Last(Len(buf)), Program(cmd))
<1>1. pos = 1 /\ argv = <<0>> /\ buf = <<>>
  BY DEF ReadingInv, LeftInv
<1>2. cmd \in Seq(Unit) /\ Len(cmd) \in Nat
  BY Facts
<1>3. Past = <<>>
  <2>1. Finished = 0
    BY <1>1 DEF Finished, argc
  <2> QED
    BY <2>1 DEF Past
<1>4. Last(Len(buf)) = <<>>
  BY <1>1 DEF Last, argc
<1>5. /\ Program(cmd).text \in Seq(Byte)
      /\ Program(cmd).next \in 1 .. Len(cmd) + 1
  <2>1. CASE Is(cmd, 1, "quote")
    <3>1. 2 \in 1 .. Len(cmd) + 1
      BY <1>2, <2>1 DEF Is
    <3>2. "programquoted" \in Mode
      BY DEF Mode
    <3> DEFINE arg == Rest(cmd)[2]["programquoted"]
    <3>3. arg.text \in Seq(Byte) /\ arg.next \in 2 .. Len(cmd) + 1
      BY <1>2, <3>1, <3>2, RestText
    <3>4. Program(cmd) = arg
      BY <2>1 DEF Program
    <3> HIDE DEF arg
    <3> QED
      BY <1>2, <3>3, <3>4
  <2>2. CASE ~Is(cmd, 1, "quote")
    <3>1. 1 \in 1 .. Len(cmd) + 1
      BY <1>2
    <3>2. "program" \in Mode
      BY DEF Mode
    <3> DEFINE arg == Rest(cmd)[1]["program"]
    <3>3. arg.text \in Seq(Byte) /\ arg.next \in 1 .. Len(cmd) + 1
      BY <1>2, <3>1, <3>2, RestText
    <3>4. Program(cmd) = arg
      BY <2>2 DEF Program
    <3> HIDE DEF arg
    <3> QED
      BY <3>3, <3>4
  <2> QED
    BY <2>1, <2>2
<1> DEFINE all == Ahead(<<>>, Program(cmd))
<1>6. all = Arguments(cmd)
  <2>1. all = <<Program(cmd).text>> \o List(cmd)[Program(cmd).next]
    BY <1>5, NothingBefore, <<>> \in Seq(Byte), Zenon
  <2> QED
    BY <2>1 DEF Arguments
<1>7. <<>> \o all = all
  <2>1. all \in Seq(Arg)
    BY <1>5, AheadType, <<>> \in Seq(Byte)
  <2> HIDE DEF all
  <2> QED
    BY <2>1
<1> QED
  BY <1>1, <1>3, <1>4, <1>5, <1>6, <1>7, Zenon

\* Up to any of the backslashes of a run, they are all that was written.
LEMMA SlashesLast ==
  ASSUME CommandLineInv, ReadInv, InSlashes, NEW t \in 0 .. slash
  PROVE  /\ Last(Len(buf) - slash) \in Seq(Byte)
         /\ Len(buf) - slash + t \in argv[argc] .. Len(buf)
         /\ Last(Len(buf) - slash + t) = Last(Len(buf) - slash) \o Slashes(t)
<1> DEFINE a == argv[argc]
           n == Len(buf) - slash
<1>1. /\ buf \in Seq(Byte) /\ Len(buf) \in Nat /\ slash \in Nat
      /\ a \in Nat /\ n \in a .. Len(buf) /\ t \in Nat
  BY Facts
<1>2. n + t <= Len(buf) /\ n + t \in a .. Len(buf)
  BY <1>1
<1>3. \A i \in n + 1 .. n + t : buf[i] = "backslash"
  <2>1. \A i \in n + 1 .. n + t : i \in Len(buf) - slash + 1 .. Len(buf)
    BY <1>1
  <2> QED
    BY <2>1 DEF ReadInv
<1>4. Last(n) = SubSeq(buf, a + 1, n) /\ Last(n + t) = SubSeq(buf, a + 1, n + t)
  BY DEF Last
<1>5. n = Len(buf) - slash
  OBVIOUS
<1>6. a \in 0 .. n /\ n \in 0 .. Len(buf)
  BY <1>1
<1> HIDE DEF a, n
<1>7. SubSeq(buf, a + 1, n + t) = SubSeq(buf, a + 1, n) \o Slashes(t)
  BY <1>1, <1>2, <1>3, BackslashesAfter
<1>8. SubSeq(buf, a + 1, n) \in Seq(Byte)
  BY <1>1, <1>6, PartIs
<1> QED
  BY <1>2, <1>4, <1>5, <1>7, <1>8, Zenon DEF a

LEMMA LeftSettled ==
  ASSUME CommandLineInv, ReadingInv, state \notin {"outside", "done"},
         state \in {"begin", "closing"} \/ InSlashes => ~Is(cmd, pos, "quote"),
         InSlashes => ~Is(cmd, pos, "backslash")
  PROVE  /\ Settled \in Mode
         /\ Last(Len(buf)) \in Seq(Byte)
         /\ Rest(cmd)[pos][Settled].text \in Seq(Byte)
         /\ Rest(cmd)[pos][Settled].next \in pos .. Len(cmd) + 1
         /\ Arguments(cmd) = Past \o Ahead(Last(Len(buf)), Rest(cmd)[pos][Settled])
<1> DEFINE last == Last(Len(buf))
           arg == Rest(cmd)[pos][Settled]
<1>1. cmd \in Seq(Unit) /\ Len(cmd) \in Nat /\ pos \in 1 .. Len(cmd) + 1
  BY Facts
<1>2. Settled \in Mode /\ (InSlashes => Around \in {"unquoted", "quoted"} /\ Settled = Around)
  <2>1. state \in State
    BY DEF CommandLineInv, TypeOK
  <2>2. InSlashes => Around \in {"unquoted", "quoted"} /\ Settled = Around
    BY DEF Around, Settled, InSlashes
  <2>3. ~InSlashes => Settled \in Mode
    BY <2>1 DEF Settled, InSlashes, State, Mode
  <2> QED
    BY <2>2, <2>3 DEF Mode
<1>3. last \in Seq(Byte)
  <2>1. buf \in Seq(Byte) /\ Len(buf) \in 0 .. Len(buf) /\ argv[argc] \in 0 .. Len(buf)
    BY Facts
  <2> QED
    BY <2>1, PartIs DEF Last
<1>4. arg.text \in Seq(Byte) /\ arg.next \in pos .. Len(cmd) + 1
  BY <1>1, <1>2, RestText
<1>5. ReadInv /\ LeftInv
  BY DEF ReadingInv
<1>6. Arguments(cmd) = Past \o Ahead(last, arg)
  <2>1. CASE state = "begin"
    <3>1. pos = 1 /\ Arguments(cmd) = Past \o Ahead(last, Program(cmd))
      BY <2>1, AtBegin
    <3>2. Program(cmd) = arg
      BY <2>1, <3>1 DEF Program, Settled
    <3> QED
      BY <3>1, <3>2
  <2>2. CASE InSlashes
    <3> DEFINE m == Around
               before == Last(Len(buf) - slash)
               sl == Slashes(slash)
    <3>1. /\ slash \in 1 .. pos - 1 /\ \A k \in pos - slash .. pos - 1 : cmd[k] = "backslash"
      BY <1>5, <2>2 DEF ReadInv
    <3>2. ~Is(cmd, pos, "quote") /\ ~Is(cmd, pos, "backslash")
      BY <2>2
    <3>3. Rest(cmd)[pos - slash][m] = With(sl, Rest(cmd)[pos][m])
      BY <1>1, <1>2, <2>2, <3>1, <3>2, BackslashesBehind
    <3>4. slash \in 0 .. slash /\ slash \in Nat /\ Len(buf) \in Nat
      BY Facts
    <3>5. Len(buf) - slash + slash = Len(buf)
      BY <3>4
    <3>6. before \in Seq(Byte) /\ last = before \o sl
      <4>1. before \in Seq(Byte) /\ Last(Len(buf) - slash + slash) = before \o sl
        BY <1>5, <2>2, <3>4, SlashesLast
      <4> QED
        BY <3>5, <4>1
    <3>7. sl \in Seq(Byte)
      BY <3>4, SlashesAre
    <3>8. Arguments(cmd) = Past \o Ahead(before, With(sl, arg))
      <4>1. Arguments(cmd) = Past \o Ahead(Written, Left)
        BY <1>5, <2>2 DEF LeftInv, InSlashes
      <4>2. Written = before /\ Left = Rest(cmd)[pos - slash][m]
        BY <2>2 DEF Written, Left
      <4> QED
        BY <1>2, <2>2, <3>3, <4>1, <4>2
    <3>9. Ahead(before, With(sl, arg)) = Ahead(before \o sl, arg)
      <4> HIDE DEF before, sl, arg
      <4> QED
        BY <1>4, <3>6, <3>7, Moves
    <3> QED
      BY <3>6, <3>8, <3>9
  <2>3. CASE state = "closing"
    <3>1. pos > 1 /\ cmd[pos - 1] = "quote"
      BY <1>5, <2>3 DEF ReadInv
    <3> DEFINE i == pos - 1
    <3>2. i \in 1 .. Len(cmd) /\ i + 1 = pos /\ cmd[i] = "quote"
      BY <1>1, <3>1
    <3>3. ~Is(cmd, pos, "quote")
      BY <2>3
    <3>4. Rest(cmd)[i]["quoted"] = Rest(cmd)[pos]["unquoted"]
      <4> HIDE DEF i
      <4>1. Rest(cmd)[i]["quoted"] =
              IF Is(cmd, i + 1, "quote") THEN With(<<"quote">>, Rest(cmd)[i + 2]["unquoted"])
              ELSE Rest(cmd)[i + 1]["unquoted"]
        BY <1>1, <3>2, QuoteHere
      <4> QED
        BY <3>2, <3>3, <4>1
    <3>5. Written = last /\ Left = Rest(cmd)[i]["quoted"] /\ Settled = "unquoted"
      BY <2>3 DEF Written, Left, InSlashes, Settled
    <3> HIDE DEF i
    <3> QED
      BY <1>5, <2>3, <3>4, <3>5 DEF LeftInv
  <2>4. CASE state # "begin" /\ ~InSlashes /\ state # "closing"
    <3>1. Written = last /\ Left = arg
      BY <2>4 DEF Written, Left, Settled
    <3> HIDE DEF last, arg
    <3> QED
      BY <1>5, <2>4, <3>1 DEF LeftInv
  <2> QED
    BY <2>1, <2>2, <2>3, <2>4
<1> QED
  BY <1>2, <1>3, <1>4, <1>6

-----------------------------------------------------------------------------
(***************************************************************************)
(* Each step leaves the arguments what they are: what it writes is taken   *)
(* from what is left of the argument under way.                            *)
(***************************************************************************)
\* Bytes are written of what lookahead finds.
LEMMA WritesOn ==
  ASSUME CommandLineInv, ReadingInv, UNCHANGED <<cmd, argv>>,
         NEW bytes \in Seq(Byte), \A i \in 1 .. Len(bytes) : bytes[i] # "nul",
         buf' = buf \o bytes,
         state # "outside", state' \in Mode \cup {"closing"}, ReadInv',
         Left.text' \in Seq(Byte),
         Arguments(cmd) = Past \o Ahead(Last(Len(buf)), With(bytes, Left'))
  PROVE  ReadingInv'
<1> DEFINE last == Last(Len(buf))
<1>1. NulInv
  BY DEF ReadingInv
<1>2. /\ buf' \in Seq(Byte) /\ argv[argc] <= Len(buf')
      /\ \A i \in 1 .. argv[argc] : buf'[i] = buf[i]
      /\ \A i \in argv[argc] + 1 .. Len(buf') : buf'[i] # "nul"
      /\ Last(Len(buf))' = last \o bytes
      /\ last \in Seq(Byte)
  BY <1>1, Writes
<1>3. state' \notin {"begin", "outside", "done", "slashes", "slashesquoted"}
  BY DEF Mode
<1>4. Written' = last \o bytes
  <2>1. Written' = Last(Len(buf))'
    BY <1>3 DEF Written, InSlashes
  <2> QED
    BY <1>2, <2>1
<1>5. Arguments(cmd) = Past \o Ahead(Written', Left')
  <2> DEFINE arg == Left'
  <2>1. arg.text \in Seq(Byte)
    OBVIOUS
  <2> HIDE DEF last, arg
  <2>2. Ahead(last, With(bytes, arg)) = Ahead(last \o bytes, arg)
    BY <1>2, <2>1, Moves
  <2> QED
    BY <1>4, <2>2, Zenon DEF last, arg
<1> QED
  BY <1>2, <1>3, <1>5, StaysInside

\* Nothing is written of it, since it is read only.
LEMMA ReadsOn ==
  ASSUME CommandLineInv, ReadingInv, UNCHANGED <<cmd, argv, buf>>,
         state # "outside", state' \in Mode \cup {"closing"}, ReadInv',
         Arguments(cmd) = Past \o Ahead(Last(Len(buf)), Left')
  PROVE  ReadingInv'
<1>1. buf \in Seq(Byte) /\ argv[argc] \in 0 .. Len(buf)
  BY Facts
<1>2. state' \notin {"begin", "outside", "done", "slashes", "slashesquoted"}
  BY DEF Mode
<1>3. Written' = Last(Len(buf))
  BY <1>2 DEF Written, InSlashes, Last, argc
<1>4. \A i \in argv[argc] + 1 .. Len(buf') : buf'[i] # "nul"
  BY DEF ReadingInv, NulInv
<1> QED
  BY <1>1, <1>2, <1>3, <1>4, StaysInside

LEMMA NothingRead == state' \notin {"closing", "slashes", "slashesquoted"} => ReadInv'
BY DEF ReadInv, InSlashes

\* The rune that is read is the one lookahead sees, and has no null in it.
LEMMA RuneTaken ==
  ASSUME CommandLineInv, More
  PROVE  /\ cmd \in Seq(Unit) /\ Len(cmd) \in Nat /\ pos \in 1 .. Len(cmd)
         /\ Out \in Seq(Byte) /\ \A i \in 1 .. Len(Out) : Out[i] # "nul"
         /\ Out = Encoded(RuneAt(cmd, pos)) /\ pos + Units = NextAt(cmd, pos)
         /\ pos + Units \in pos + 1 .. Len(cmd) + 1
         /\ \A r \in {"space", "tab", "quote", "backslash"} :
              /\ c = r <=> cmd[pos] = r
              /\ c = r <=> Is(cmd, pos, r)
              /\ c = r => Units = 1 /\ Out = <<r>>
         /\ blank(c) <=> blank(cmd[pos])
<1>1. TypeOK
  BY DEF CommandLineInv
<1>2. /\ cmd \in Seq(Unit) /\ pos \in 1 .. Len(cmd)
      /\ c = RuneAt(cmd, pos) /\ pos + Units = NextAt(cmd, pos)
      /\ \A r \in {"space", "tab", "quote", "backslash"} : c = r <=> cmd[pos] = r
      /\ blank(c) <=> blank(cmd[pos])
  BY <1>1, SameRune
<1>3. /\ c \in Rune /\ Units \in 1 .. 2 /\ (c = "pair" <=> Units = 2)
      /\ pos + Units <= Len(cmd) + 1 /\ Out \in Seq(Byte)
  BY <1>1, RuneRead
<1>4. \A i \in 1 .. Len(Out) : Out[i] # "nul"
  BY <1>3, NoNull DEF Out
<1>5. ASSUME NEW r \in {"space", "tab", "quote", "backslash"}
      PROVE  /\ c = r <=> Is(cmd, pos, r)
             /\ c = r => Units = 1 /\ Out = <<r>>
  <2>1. c = r <=> Is(cmd, pos, r)
    BY <1>2 DEF Is
  <2>2. c = r => Units = 1
    BY <1>3
  <2>3. c = r => Out = <<r>>
    BY DEF Out, Encoded
  <2> QED
    BY <2>1, <2>2, <2>3
<1>6. pos + Units \in pos + 1 .. Len(cmd) + 1
  BY <1>2, <1>3
<1> QED
  BY <1>2, <1>3, <1>4, <1>5, <1>6 DEF Out

LEMMA CopyExact ==
  ASSUME CommandLineInv, ReadingInv, Copy
  PROVE  ReadingInv'
<1>1. More /\ pos' = pos + Units /\ state' = state /\ buf' = buf \o Out /\ UNCHANGED <<cmd, argv>>
  BY DEF Copy, Uses
<1>2. /\ cmd \in Seq(Unit) /\ pos \in 1 .. Len(cmd) /\ pos' \in 1 .. Len(cmd) + 1
      /\ Out \in Seq(Byte) /\ \A i \in 1 .. Len(Out) : Out[i] # "nul"
      /\ Out = Encoded(RuneAt(cmd, pos)) /\ pos' = NextAt(cmd, pos)
      /\ \A r \in {"space", "tab", "quote", "backslash"} : c = r <=> cmd[pos] = r
      /\ blank(c) <=> blank(cmd[pos])
  BY <1>1, RuneTaken
<1>3. state \in Mode /\ ~Ends(cmd, pos, state)
      /\ ~(state \in {"unquoted", "quoted"} /\ cmd[pos] \in Special)
  <2>1. state \in Mode
    BY DEF Copy, Mode
  <2>2. ~(state \in {"unquoted", "quoted"} /\ cmd[pos] \in Special)
    BY <1>2 DEF Copy, Special
  <2>3. ~Ends(cmd, pos, state)
    BY <1>2 DEF Copy, Ends
  <2> QED
    BY <2>1, <2>2, <2>3
<1>4. Rest(cmd)[pos][state] = With(Out, Rest(cmd)[pos'][state])
  BY <1>2, <1>3, PlainRune
<1>5. Settled = state /\ state \notin {"begin", "outside", "done", "closing"} /\ ~InSlashes
  BY <1>3 DEF Settled, Mode, InSlashes
<1>6. Arguments(cmd) = Past \o Ahead(Last(Len(buf)), Rest(cmd)[pos][state])
  BY <1>5, LeftSettled
<1>7. Left' = Rest(cmd)[pos'][state]
  BY <1>1, <1>5 DEF Left, InSlashes
<1>8. Left.text' \in Seq(Byte)
  BY <1>2, <1>3, <1>7, RestText
<1>9. ReadInv'
  BY <1>1, <1>5, NothingRead DEF InSlashes
<1>10. state' \in Mode \cup {"closing"} /\ state # "outside"
  BY <1>1, <1>3, <1>5
<1>11. Arguments(cmd) = Past \o Ahead(Last(Len(buf)), With(Out, Left'))
  BY <1>4, <1>6, <1>7
<1> QED
  BY <1>1, <1>2, <1>8, <1>9, <1>10, <1>11, WritesOn

LEMMA BeginProgramExact ==
  ASSUME CommandLineInv, ReadingInv, BeginProgram
  PROVE  ReadingInv'
<1> DEFINE bytes == IF c = "quote" THEN <<>> ELSE Out
           last == Last(Len(buf))
<1>1. More /\ state = "begin" /\ ~blank(c) /\ pos' = pos + Units /\ buf' = buf \o bytes
      /\ UNCHANGED <<cmd, argv>>
      /\ state' = IF c = "quote" THEN "programquoted" ELSE "program"
  BY DEF BeginProgram, Uses
<1>2. /\ cmd \in Seq(Unit) /\ pos \in 1 .. Len(cmd) /\ pos' \in 1 .. Len(cmd) + 1
      /\ Out \in Seq(Byte) /\ \A i \in 1 .. Len(Out) : Out[i] # "nul"
      /\ Out = Encoded(RuneAt(cmd, pos)) /\ pos' = NextAt(cmd, pos)
      /\ (c = "quote" <=> Is(cmd, pos, "quote")) /\ (c = "quote" => Units = 1)
      /\ blank(c) <=> blank(cmd[pos])
  BY <1>1, RuneTaken
<1>3. bytes \in Seq(Byte) /\ \A i \in 1 .. Len(bytes) : bytes[i] # "nul"
  BY <1>2
<1>4. state' \in Mode /\ state' \notin {"closing", "slashes", "slashesquoted"}
  BY <1>1 DEF Mode
<1>5. Left' = Rest(cmd)[pos'][state']
  BY <1>1, <1>4 DEF Left, InSlashes
<1>6. Left.text' \in Seq(Byte)
  BY <1>2, <1>4, <1>5, RestText
<1>7. pos = 1 /\ Arguments(cmd) = Past \o Ahead(last, Program(cmd)) /\ last = <<>>
  BY <1>1, AtBegin
<1>8. Ahead(last, Program(cmd)) = Ahead(last, With(bytes, Left'))
  <2>1. CASE c = "quote"
    <3> DEFINE arg == Left'
    <3>1. Program(cmd) = arg /\ bytes = <<>>
      BY <1>1, <1>2, <1>5, <1>7, <2>1 DEF Program
    <3>2. arg.text \in Seq(Byte)
      BY <1>6
    <3>3. last \in Seq(Byte)
      BY <1>7
    <3> HIDE DEF last, arg, bytes
    <3> QED
      BY <3>1, <3>2, <3>3, NothingBefore DEF arg
  <2>2. CASE c # "quote"
    <3>1. Program(cmd) = Rest(cmd)[pos]["program"] /\ bytes = Out
      BY <1>2, <1>7, <2>2 DEF Program
    <3>2. ~Ends(cmd, pos, "program") /\ "program" \in Mode
      BY <1>1, <1>2 DEF Ends, Mode
    <3>3. Rest(cmd)[pos]["program"] = With(Out, Rest(cmd)[pos']["program"])
      BY <1>2, <3>2, PlainRune
    <3> QED
      BY <1>1, <1>5, <2>2, <3>1, <3>3
  <2> QED
    BY <2>1, <2>2
<1>9. ReadInv'
  BY <1>4, NothingRead
<1>10. Arguments(cmd) = Past \o Ahead(Last(Len(buf)), With(bytes, Left'))
  BY <1>7, <1>8
<1> HIDE DEF bytes, last
<1> QED
  BY <1>1, <1>3, <1>4, <1>6, <1>9, <1>10, WritesOn

LEMMA OpenQuoteExact ==
  ASSUME CommandLineInv, ReadingInv, OpenQuote
  PROVE  ReadingInv'
<1>1. More /\ state = "unquoted" /\ c = "quote" /\ pos' = pos + Units /\ buf' = buf \o <<>>
      /\ UNCHANGED <<cmd, argv>> /\ state' = "quoted"
  BY DEF OpenQuote, Uses
<1>2. /\ cmd \in Seq(Unit) /\ pos \in 1 .. Len(cmd) /\ cmd[pos] = "quote" /\ pos' = pos + 1
  BY <1>1, RuneTaken
<1>3. Rest(cmd)[pos]["unquoted"] = Rest(cmd)[pos + 1]["quoted"]
  BY <1>2, QuoteHere
<1>4. Settled = "unquoted" /\ ~InSlashes
  BY <1>1 DEF Settled, InSlashes
<1>5. Arguments(cmd) = Past \o Ahead(Last(Len(buf)), Rest(cmd)[pos]["unquoted"])
  BY <1>1, <1>4, LeftSettled
<1>6. Left' = Rest(cmd)[pos]["unquoted"]
  BY <1>1, <1>2, <1>3 DEF Left, InSlashes
<1>7. ReadInv'
  BY <1>1, NothingRead
<1>8. buf' = buf
  BY <1>1, Facts
<1>9. state' \in Mode \cup {"closing"} /\ state # "outside"
  BY <1>1 DEF Mode
<1> QED
  BY <1>1, <1>5, <1>6, <1>7, <1>8, <1>9, ReadsOn

LEMMA CloseQuoteExact ==
  ASSUME CommandLineInv, ReadingInv, CloseQuote
  PROVE  ReadingInv'
<1>1. More /\ state = "quoted" /\ c = "quote" /\ pos' = pos + Units /\ buf' = buf \o <<>>
      /\ UNCHANGED <<cmd, argv>> /\ state' = "closing"
  BY DEF CloseQuote, Uses
<1>2. pos \in 1 .. Len(cmd) /\ Len(cmd) \in Nat /\ cmd[pos] = "quote" /\ pos' = pos + 1
  BY <1>1, RuneTaken
<1>3. Settled = "quoted" /\ ~InSlashes
  BY <1>1 DEF Settled, InSlashes
<1>4. Arguments(cmd) = Past \o Ahead(Last(Len(buf)), Rest(cmd)[pos]["quoted"])
  BY <1>1, <1>3, LeftSettled
<1>5. pos' > 1 /\ pos' - 1 = pos
  BY <1>2
<1>6. Left' = Rest(cmd)[pos]["quoted"]
  BY <1>1, <1>5 DEF Left, InSlashes
<1>7. ReadInv'
  BY <1>1, <1>2, <1>5 DEF ReadInv, InSlashes
<1>8. buf' = buf
  BY <1>1, Facts
<1> QED
  BY <1>1, <1>4, <1>6, <1>7, <1>8, ReadsOn

LEMMA ClosingExact ==
  ASSUME CommandLineInv, ReadingInv, Closing
  PROVE  ReadingInv'
<1>1. More /\ state = "closing" /\ UNCHANGED <<cmd, argv>> /\ state' = "unquoted"
  BY DEF Closing, Uses, Unreads
<1>2. state' \in Mode \cup {"closing"} /\ state # "outside" /\ ~InSlashes /\ ~InSlashes'
  BY <1>1 DEF Mode, InSlashes
<1>3. ReadInv'
  BY <1>1, NothingRead
<1>4. /\ cmd \in Seq(Unit) /\ Len(cmd) \in Nat /\ pos \in 1 .. Len(cmd)
      /\ (c = "quote" <=> Is(cmd, pos, "quote"))
      /\ (c = "quote" => Units = 1 /\ Out = <<"quote">> /\ Out \in Seq(Byte))
      /\ \A i \in 1 .. Len(Out) : Out[i] # "nul"
  BY <1>1, RuneTaken
<1>5. CASE c = "quote"
  <2> DEFINE i == pos - 1
  <2>1. i \in 1 .. Len(cmd) /\ i + 1 = pos /\ i + 2 = pos + 1 /\ cmd[i] = "quote"
    <3>1. pos > 1 /\ cmd[pos - 1] = "quote"
      BY <1>1 DEF ReadingInv, ReadInv
    <3> QED
      BY <1>4, <3>1
  <2>2. pos' = pos + 1 /\ buf' = buf \o Out
    BY <1>4, <1>5 DEF Closing, Uses
  <2>3. Written = Last(Len(buf)) /\ Left = Rest(cmd)[i]["quoted"]
    BY <1>1, <1>2 DEF Written, Left
  <2> HIDE DEF i
  <2>4. Rest(cmd)[i]["quoted"] = With(Out, Rest(cmd)[pos + 1]["unquoted"])
    <3>1. Rest(cmd)[i]["quoted"] =
            IF Is(cmd, i + 1, "quote") THEN With(<<"quote">>, Rest(cmd)[i + 2]["unquoted"])
            ELSE Rest(cmd)[i + 1]["unquoted"]
      BY <1>4, <2>1, QuoteHere
    <3> QED
      BY <1>4, <1>5, <2>1, <3>1
  <2>5. Left' = Rest(cmd)[pos + 1]["unquoted"]
    BY <1>1, <1>2, <2>2 DEF Left
  <2>6. Left.text' \in Seq(Byte)
    <3>1. pos + 1 \in 1 .. Len(cmd) + 1 /\ "unquoted" \in Mode
      BY <1>4 DEF Mode
    <3> QED
      BY <1>4, <2>5, <3>1, RestText
  <2>7. Arguments(cmd) = Past \o Ahead(Last(Len(buf)), With(Out, Left'))
    BY <1>1, <2>3, <2>4, <2>5 DEF ReadingInv, LeftInv
  <2> QED
    BY <1>1, <1>2, <1>3, <1>4, <1>5, <2>2, <2>6, <2>7, WritesOn
<1>6. CASE c # "quote"
  <2>1. Settled = "unquoted"
    BY <1>1, <1>2 DEF Settled
  <2>2. Arguments(cmd) = Past \o Ahead(Last(Len(buf)), Rest(cmd)[pos]["unquoted"])
    BY <1>1, <1>2, <1>4, <1>6, <2>1, LeftSettled
  <2>3. pos' = pos /\ buf' = buf
    BY <1>6 DEF Closing, Unreads
  <2>4. Left' = Rest(cmd)[pos]["unquoted"]
    BY <1>1, <1>2, <2>3 DEF Left
  <2> QED
    BY <1>1, <1>2, <1>3, <2>2, <2>3, <2>4, ReadsOn
<1> QED
  BY <1>5, <1>6

LEMMA EndSlashesExact ==
  ASSUME CommandLineInv, ReadingInv, EndSlashes
  PROVE  ReadingInv'
<1>1. More /\ InSlashes /\ c \notin {"quote", "backslash"} /\ UNCHANGED <<cmd, argv, buf, pos>>
      /\ state' = Around
  BY DEF EndSlashes, Unreads, InSlashes
<1>2. ~Is(cmd, pos, "quote") /\ ~Is(cmd, pos, "backslash")
  BY <1>1, RuneTaken
<1>3. state \notin {"outside", "done", "begin", "closing"} /\ Settled = Around
  BY <1>1 DEF InSlashes, Settled
<1>4. state' \in {"unquoted", "quoted"} /\ ~InSlashes'
  BY <1>1 DEF Around, InSlashes
<1>5. Arguments(cmd) = Past \o Ahead(Last(Len(buf)), Rest(cmd)[pos][Around])
  BY <1>2, <1>3, LeftSettled
<1>6. Left' = Rest(cmd)[pos][Around]
  BY <1>1, <1>4 DEF Left
<1>7. ReadInv'
  BY <1>4, NothingRead
<1> QED
  BY <1>1, <1>3, <1>4, <1>5, <1>6, <1>7, ReadsOn DEF Mode

LEMMA FirstSlashExact ==
  ASSUME CommandLineInv, ReadingInv, FirstSlash
  PROVE  ReadingInv'
<1>1. /\ More /\ state \in {"unquoted", "quoted"} /\ c = "backslash" /\ pos' = pos + Units
      /\ buf' = buf \o Out /\ UNCHANGED <<cmd, argv>> /\ slash' = 1
      /\ state' = IF state = "quoted" THEN "slashesquoted" ELSE "slashes"
  BY DEF FirstSlash, Uses
<1>2. /\ cmd \in Seq(Unit) /\ Len(cmd) \in Nat /\ pos \in 1 .. Len(cmd)
      /\ cmd[pos] = "backslash" /\ pos' = pos + 1 /\ Out = <<"backslash">>
      /\ Out \in Seq(Byte) /\ \A i \in 1 .. Len(Out) : Out[i] # "nul"
  BY <1>1, RuneTaken
<1>3. InSlashes' /\ Around' = state /\ ~InSlashes /\ Settled = state
  BY <1>1 DEF InSlashes, Around, Settled
<1>4. state \notin {"outside", "done", "begin", "closing"} /\ NulInv
  BY <1>1 DEF ReadingInv
<1>5. Arguments(cmd) = Past \o Ahead(Last(Len(buf)), Rest(cmd)[pos][state])
  BY <1>3, <1>4, LeftSettled
<1>6. /\ buf' \in Seq(Byte) /\ Len(buf') = Len(buf) + Len(Out) /\ argv[argc] <= Len(buf')
      /\ \A i \in 1 .. argv[argc] : buf'[i] = buf[i]
      /\ \A i \in argv[argc] + 1 .. Len(buf') : buf'[i] # "nul"
      /\ \A i \in Len(buf) + 1 .. Len(buf') : buf'[i] = Out[i - Len(buf)]
      /\ SubSeq(buf', argv[argc] + 1, Len(buf)) = Last(Len(buf))
  BY <1>1, <1>2, <1>4, Writes
<1>7. Len(buf) \in Nat /\ Len(Out) = 1 /\ Out[1] = "backslash"
  BY <1>2, Facts
<1>8. Len(buf') = Len(buf) + 1 /\ Len(buf') - slash' = Len(buf) /\ pos' - slash' = pos
  BY <1>1, <1>2, <1>6, <1>7
<1>9. Written' = Last(Len(buf))
  <2>1. Written' = SubSeq(buf', argv'[argc'] + 1, Len(buf') - slash')
    BY <1>3 DEF Written, Last
  <2>2. argv'[argc'] = argv[argc]
    BY <1>1 DEF argc
  <2> QED
    BY <1>6, <1>8, <2>1, <2>2
<1>10. Left' = Rest(cmd)[pos][state]
  BY <1>1, <1>3, <1>8 DEF Left
<1>11. ReadInv'
  <2>1. slash' \in 1 .. pos' - 1
    BY <1>1, <1>2
  <2>2. \A k \in pos' - slash' .. pos' - 1 : cmd'[k] = "backslash"
    <3>1. \A k \in pos' - slash' .. pos' - 1 : k = pos
      BY <1>2, <1>8
    <3> QED
      BY <1>1, <1>2, <3>1
  <2>3. \A i \in Len(buf') - slash' + 1 .. Len(buf') : buf'[i] = "backslash"
    <3>1. \A i \in Len(buf') - slash' + 1 .. Len(buf') :
             i \in Len(buf) + 1 .. Len(buf') /\ i - Len(buf) = 1
      BY <1>7, <1>8
    <3> QED
      BY <1>6, <1>7, <3>1
  <2>4. state' # "closing"
    BY <1>1
  <2> QED
    BY <2>1, <2>2, <2>3, <2>4 DEF ReadInv
<1>12. state' \notin {"begin", "outside", "done"}
  BY <1>1
<1> QED
  BY <1>1, <1>4, <1>5, <1>6, <1>9, <1>10, <1>11, <1>12, StaysInside

LEMMA MoreSlashesExact ==
  ASSUME CommandLineInv, ReadingInv, MoreSlashes
  PROVE  ReadingInv'
<1> DEFINE a == argv[argc]
           n == Len(buf) - slash
<1>1. /\ More /\ InSlashes /\ c = "backslash" /\ pos' = pos + Units
      /\ buf' = buf \o Out /\ UNCHANGED <<cmd, argv, state>> /\ slash' = slash + 1
  BY DEF MoreSlashes, Uses, InSlashes
<1>2. /\ cmd \in Seq(Unit) /\ Len(cmd) \in Nat /\ pos \in 1 .. Len(cmd)
      /\ cmd[pos] = "backslash" /\ pos' = pos + 1 /\ Out = <<"backslash">>
      /\ Out \in Seq(Byte) /\ \A i \in 1 .. Len(Out) : Out[i] # "nul"
  BY <1>1, RuneTaken
<1>3. InSlashes' /\ Around' = Around /\ state \notin {"outside", "done", "begin", "closing"}
  BY <1>1 DEF InSlashes, Around
<1>4. NulInv /\ LeftInv /\ ReadInv
  BY DEF ReadingInv
<1>5. /\ buf' \in Seq(Byte) /\ Len(buf') = Len(buf) + Len(Out) /\ a <= Len(buf')
      /\ \A i \in 1 .. Len(buf) : buf'[i] = buf[i]
      /\ \A i \in Len(buf) + 1 .. Len(buf') : buf'[i] = Out[i - Len(buf)]
      /\ \A i \in 1 .. a : buf'[i] = buf[i]
      /\ \A i \in a + 1 .. Len(buf') : buf'[i] # "nul"
  BY <1>1, <1>2, <1>3, <1>4, Writes
<1>6. /\ buf \in Seq(Byte) /\ Len(buf) \in Nat /\ slash \in Nat /\ a \in Nat /\ n \in a .. Len(buf)
      /\ Len(Out) = 1 /\ Out[1] = "backslash"
  BY <1>1, <1>2, Facts, SMTT(20)
<1>7. Len(buf') = Len(buf) + 1 /\ Len(buf') - slash' = n /\ pos' - slash' = pos - slash
  <2>1. Len(buf') = Len(buf) + 1
    BY <1>5, <1>6
  <2>2. slash' = slash + 1 /\ pos' = pos + 1 /\ pos \in Nat
    BY <1>1, <1>2
  <2> QED
    BY <1>6, <2>1, <2>2
<1>8. Written' = Written
  <2>1. Written' = SubSeq(buf', a + 1, n)
    <3>1. Written' = SubSeq(buf', argv'[argc'] + 1, Len(buf') - slash')
      BY <1>3 DEF Written, Last
    <3>2. argv'[argc'] = a
      BY <1>1 DEF argc
    <3> QED
      BY <1>7, <3>1, <3>2
  <2>2. Written = SubSeq(buf, a + 1, n)
    BY <1>1 DEF Written, Last
  <2>3. n \in Nat /\ n <= Len(buf) /\ n <= Len(buf') /\ \A i \in 1 .. n : buf'[i] = buf[i]
    BY <1>5, <1>6, <1>7
  <2> DEFINE d == buf'
  <2>4. /\ d \in Seq(Byte) /\ n <= Len(d) /\ \A i \in 1 .. n : d[i] = buf[i]
        /\ n \in Nat /\ n <= Len(buf) /\ a \in Nat /\ buf \in Seq(Byte)
    BY <1>5, <1>6, <2>3
  <2> HIDE DEF a, n, d
  <2>5. SubSeq(d, a + 1, n) = SubSeq(buf, a + 1, n)
    BY <2>4, PartKept
  <2> QED
    BY <2>1, <2>2, <2>5 DEF d
<1>9. Left' = Left
  BY <1>1, <1>3, <1>7 DEF Left
<1>10. Arguments(cmd) = Past \o Ahead(Written, Left)
  BY <1>3, <1>4 DEF LeftInv
<1>11. ReadInv'
  <2>1. slash \in 1 .. pos - 1 /\ (\A k \in pos - slash .. pos - 1 : cmd[k] = "backslash")
        /\ \A i \in Len(buf) - slash + 1 .. Len(buf) : buf[i] = "backslash"
    BY <1>1, <1>4 DEF ReadInv
  <2>2. slash' \in 1 .. pos' - 1
    BY <1>1, <1>2, <2>1
  <2>3. \A k \in pos' - slash' .. pos' - 1 : cmd'[k] = "backslash"
    <3>1. \A k \in pos' - slash' .. pos' - 1 : k = pos \/ k \in pos - slash .. pos - 1
      BY <1>2, <1>6, <1>7
    <3> QED
      BY <1>1, <1>2, <2>1, <3>1
  <2>4. ASSUME NEW i \in Len(buf') - slash' + 1 .. Len(buf') PROVE buf'[i] = "backslash"
    <3>1. CASE i = Len(buf')
      <4>1. i \in Len(buf) + 1 .. Len(buf') /\ i - Len(buf) = 1
        BY <1>6, <1>7, <3>1
      <4> QED
        BY <1>5, <1>6, <4>1
    <3>2. CASE i # Len(buf')
      <4>1. i \in Len(buf) - slash + 1 .. Len(buf) /\ i \in 1 .. Len(buf)
        BY <1>6, <1>7, <3>2
      <4> QED
        BY <1>5, <2>1, <4>1
    <3> QED
      BY <3>1, <3>2
  <2>5. state' # "closing"
    BY <1>1, <1>3
  <2> QED
    BY <2>2, <2>3, <2>4, <2>5 DEF ReadInv
<1>12. state' \notin {"begin", "outside", "done"} /\ state # "outside"
  BY <1>1, <1>3
<1>13. Arguments(cmd) = Past \o Ahead(Written', Left')
  BY <1>8, <1>9, <1>10
<1> HIDE DEF n
<1> QED
  BY <1>1, <1>5, <1>11, <1>12, <1>13, StaysInside

LEMMA EndSlashesQuoteExact ==
  ASSUME CommandLineInv, ReadingInv, EndSlashesQuote
  PROVE  ReadingInv'
<1> DEFINE a == argv[argc]
           half == slash \div 2
           n == Len(buf) - slash
           m == Around
           kept == SubSeq(buf, 1, n + half)
           sl == Slashes(half)
           before == Last(n)
<1>1. /\ More /\ InSlashes /\ c = "quote" /\ UNCHANGED <<cmd, argv>> /\ state' = m
  BY DEF EndSlashesQuote, Unreads, InSlashes
<1>2. /\ cmd \in Seq(Unit) /\ Len(cmd) \in Nat /\ pos \in 1 .. Len(cmd)
      /\ Is(cmd, pos, "quote") /\ cmd[pos] = "quote" /\ Out = <<"quote">> /\ Units = 1
  BY <1>1, RuneTaken
<1>3. NulInv /\ LeftInv /\ ReadInv
  BY DEF ReadingInv
<1>4. /\ buf \in Seq(Byte) /\ Len(buf) \in Nat /\ slash \in Nat /\ a \in Nat /\ n \in a .. Len(buf)
  BY <1>1, Facts
<1>5. half \in 0 .. slash /\ half \in Nat /\ Len(buf) - TakenBack = n + half
      /\ n + half \in a .. Len(buf)
  BY <1>4 DEF TakenBack
<1>6. /\ slash \in 1 .. pos - 1 /\ \A k \in pos - slash .. pos - 1 : cmd[k] = "backslash"
  BY <1>1, <1>3 DEF ReadInv
<1>7. m \in {"unquoted", "quoted"} /\ m \in Mode /\ ~InSlashes'
      /\ state \notin {"outside", "done", "begin", "closing"}
  BY <1>1 DEF Around, Mode, InSlashes
<1>8. ReadInv'
  BY <1>1, <1>7, NothingRead
<1>9. before \in Seq(Byte) /\ Last(n + half) = before \o sl
  <2>1. n = Len(buf) - slash
    OBVIOUS
  <2> HIDE DEF n, half
  <2> QED
    BY <1>1, <1>3, <1>5, <2>1, SlashesLast
<1>10. Last(n + half) = SubSeq(buf, a + 1, n + half)
  BY DEF Last
<1>11. sl \in Seq(Byte)
  BY <1>5, SlashesAre
<1>12. /\ kept \in Seq(Byte) /\ Len(kept) = n + half
       /\ \A i \in 1 .. n + half : kept[i] = buf[i]
  BY <1>4, <1>5, SMTT(30)
<1> HIDE DEF half
<1>13. \A i \in a + 1 .. Len(buf) : buf[i] # "nul"
  BY <1>3, <1>7 DEF NulInv
<1>14. Rest(cmd)[pos - slash][m] =
         IF slash % 2 = 0 THEN With(sl, Rest(cmd)[pos][m])
         ELSE With(Append(sl, "quote"), Rest(cmd)[pos + 1][m])
  <2>1. pos \in 1 .. Len(cmd) + 1 /\ ~Is(cmd, pos, "backslash")
    BY <1>2 DEF Is
  <2> HIDE DEF m
  <2> QED
    BY <1>2, <1>6, <1>7, <2>1, BackslashesBehind DEF half
<1>15. Arguments(cmd) = Past \o Ahead(before, Rest(cmd)[pos - slash][m])
  <2>1. Written = before /\ Left = Rest(cmd)[pos - slash][m]
    BY <1>1 DEF Written, Left
  <2> QED
    BY <1>3, <1>7, <2>1 DEF LeftInv
<1>16. SubSeq(kept, a + 1, n + half) = before \o sl
  <2>1. n + half \in Nat /\ n + half <= Len(buf) /\ n + half <= Len(kept)
    BY <1>4, <1>5, <1>12
  <2> DEFINE last == n + half
  <2> HIDE DEF a, n, half, kept, last
  <2>2. SubSeq(kept, a + 1, last) = SubSeq(buf, a + 1, last)
    BY <1>4, <1>12, <2>1, PartKept DEF last
  <2> QED
    BY <1>9, <1>10, <2>2 DEF last
<1>17. Written' = SubSeq(buf', a + 1, Len(buf'))
  <2>1. argv'[argc'] = a
    BY <1>1 DEF argc
  <2> QED
    BY <1>7, <2>1 DEF Written, Last
<1>18. Left' = Rest(cmd)[pos'][m]
  BY <1>1, <1>7 DEF Left
<1>19. state' \notin {"begin", "outside", "done"} /\ state # "outside"
  BY <1>1, <1>7
<1> HIDE DEF m, n
<1>20. CASE slash % 2 = 0
  <2>1. pos' = pos /\ buf' = kept
    BY <1>5, <1>20 DEF EndSlashesQuote, Unreads
  <2>2. Written' = before \o sl
    BY <1>12, <1>16, <1>17, <2>1
  <2>3. Ahead(before, With(sl, Rest(cmd)[pos][m])) = Ahead(before \o sl, Rest(cmd)[pos][m])
    <3> DEFINE arg == Rest(cmd)[pos][m]
    <3>1. arg.text \in Seq(Byte)
      BY <1>2, <1>7, RestText
    <3> HIDE DEF arg, before, sl
    <3>2. Ahead(before, With(sl, arg)) = Ahead(before \o sl, arg)
      BY <1>9, <1>11, <3>1, Moves
    <3> QED
      BY <3>2 DEF arg
  <2>4. Arguments(cmd) = Past \o Ahead(Written', Left')
    BY <1>14, <1>15, <1>18, <1>20, <2>1, <2>2, <2>3
  <2>5. /\ buf' \in Seq(Byte) /\ a <= Len(buf')
        /\ \A i \in 1 .. a : buf'[i] = buf[i]
        /\ \A i \in a + 1 .. Len(buf') : buf'[i] # "nul"
    BY <1>4, <1>5, <1>12, <1>13, <2>1
  <2> HIDE DEF n, half, kept, sl, before
  <2> QED
    BY <1>1, <1>8, <1>19, <2>4, <2>5, StaysInside
<1>21. CASE slash % 2 # 0
  <2>1. slash % 2 = 1
    BY <1>4, <1>21
  <2>2. pos' = pos + 1 /\ buf' = kept \o Out
    BY <1>2, <1>5, <2>1 DEF EndSlashesQuote
  <2>3. Out \in Seq(Byte) /\ Len(Out) = 1 /\ Out[1] = "quote"
    BY <1>1, <1>2, RuneTaken
  <2>4. /\ buf' \in Seq(Byte) /\ Len(buf') = n + half + 1
        /\ \A i \in 1 .. n + half : buf'[i] = kept[i]
        /\ \A i \in n + half + 1 .. n + half + 1 : buf'[i] = Out[i - (n + half)]
        /\ SubSeq(buf', a + 1, n + half + 1) = SubSeq(kept, a + 1, n + half) \o Out
    <3>1. a \in 0 .. Len(kept)
      BY <1>4, <1>5, <1>12
    <3> HIDE DEF kept
    <3>2. /\ buf' \in Seq(Byte) /\ Len(buf') = Len(kept) + Len(Out)
          /\ \A i \in 1 .. Len(kept) : buf'[i] = kept[i]
          /\ \A i \in Len(kept) + 1 .. Len(kept) + Len(Out) : buf'[i] = Out[i - Len(kept)]
          /\ SubSeq(buf', a + 1, Len(kept) + Len(Out)) = SubSeq(kept, a + 1, Len(kept)) \o Out
      BY <1>12, <2>2, <2>3, <3>1, PartGrown
    <3> HIDE DEF a, n, half
    <3> QED
      BY <1>12, <2>3, <3>2
  <2>5. Written' = Append(before \o sl, "quote")
    <3>1. Written' = (before \o sl) \o Out
      BY <1>16, <1>17, <2>4
    <3> DEFINE w == before \o sl
    <3>2. w \in Seq(Byte)
      BY <1>9, <1>11, JoinedIs
    <3> HIDE DEF w
    <3> QED
      BY <1>2, <3>1, <3>2 DEF w
  <2>6. Ahead(before, With(Append(sl, "quote"), Rest(cmd)[pos + 1][m])) =
          Ahead(Append(before \o sl, "quote"), Rest(cmd)[pos + 1][m])
    <3> DEFINE arg == Rest(cmd)[pos + 1][m]
               more == Append(sl, "quote")
    <3>1. arg.text \in Seq(Byte)
      <4>1. pos + 1 \in 1 .. Len(cmd) + 1
        BY <1>2
      <4> QED
        BY <1>2, <1>7, <4>1, RestText
    <3> HIDE DEF arg, before, sl
    <3>2. more \in Seq(Byte) /\ before \o more = Append(before \o sl, "quote")
      <4>1. "quote" \in Byte
        BY DEF Byte, Rune, Unit
      <4> QED
        BY <1>9, <1>11, <4>1
    <3> HIDE DEF more
    <3>3. before \in Seq(Byte) /\ more \in Seq(Byte)
      BY <1>9, <3>2
    <3>4. Ahead(before, With(more, arg)) = Ahead(before \o more, arg)
      BY <3>1, <3>3, Moves, SMTT(30)
    <3> QED
      BY <3>2, <3>4 DEF more, arg
  <2>7. Arguments(cmd) = Past \o Ahead(Written', Left')
    BY <1>14, <1>15, <1>18, <1>21, <2>2, <2>5, <2>6
  <2>8. a <= Len(buf') /\ \A i \in 1 .. a : buf'[i] = buf[i]
    <3>1. a <= n + half /\ n + half \in Nat /\ a \in Nat
      BY <1>4, <1>5
    <3> HIDE DEF a, kept
    <3>2. \A i \in 1 .. a : i \in 1 .. n + half
      BY <3>1
    <3>3. a <= Len(buf')
      BY <2>4, <3>1
    <3> QED
      BY <1>12, <2>4, <3>2, <3>3
  <2>9. ASSUME NEW i \in a + 1 .. Len(buf') PROVE buf'[i] # "nul"
    <3>1. CASE i = n + half + 1
      BY <1>4, <1>5, <2>3, <2>4, <3>1, SMTT(30)
    <3>2. CASE i # n + half + 1
      <4>1. Len(buf') = n + half + 1 /\ n + half \in a .. Len(buf) /\ a \in Nat
            /\ Len(buf) \in Nat
        BY <1>4, <1>5, <2>4
      <4> HIDE DEF a, kept
      <4>2. i \in 1 .. n + half /\ i \in a + 1 .. Len(buf)
        BY <3>2, <4>1
      <4> QED
        BY <1>12, <1>13, <2>4, <4>2
    <3> QED
      BY <3>1, <3>2
  <2> HIDE DEF n, half, kept, sl, before
  <2> QED
    BY <1>1, <1>8, <1>19, <2>4, <2>7, <2>8, <2>9, StaysInside
<1> QED
  BY <1>20, <1>21

LEMMA OpenArgumentExact ==
  ASSUME CommandLineInv, ReadingInv, OpenArgument
  PROVE  ReadingInv'
<1> DEFINE bytes == IF c = "quote" THEN <<>> ELSE Out
           arg == Rest(cmd)[pos]["unquoted"]
<1>1. /\ More /\ state = "outside" /\ ~blank(c) /\ argv' = Append(argv, Len(buf)) /\ cmd' = cmd
      /\ pos' = pos + Units /\ buf' = IF c = "quote" THEN buf ELSE buf \o Out
      /\ state' = CASE c = "quote" -> "quoted" [] c = "backslash" -> "slashes"
                    [] OTHER -> "unquoted"
      /\ slash' = IF c = "backslash" THEN 1 ELSE slash
  BY DEF OpenArgument
<1>2. /\ cmd \in Seq(Unit) /\ Len(cmd) \in Nat /\ pos \in 1 .. Len(cmd)
      /\ pos' \in 1 .. Len(cmd) + 1
      /\ Out \in Seq(Byte) /\ \A i \in 1 .. Len(Out) : Out[i] # "nul"
      /\ Out = Encoded(RuneAt(cmd, pos)) /\ pos' = NextAt(cmd, pos)
      /\ \A r \in {"quote", "backslash"} :
           /\ c = r <=> cmd[pos] = r
           /\ c = r => Units = 1 /\ Out = <<r>>
      /\ blank(c) <=> blank(cmd[pos])
  BY <1>1, RuneTaken
<1>3. /\ argv \in Seq(Nat) /\ buf \in Seq(Byte) /\ Len(buf) \in Nat
      /\ argc = Len(argv) /\ argc \in Nat \ {0} /\ Finished = argc /\ Limit = Len(buf)
  BY <1>1, Facts
<1>4. argc' = argc + 1 /\ argv'[argc'] = Len(buf) /\ \A k \in 1 .. argc : argv'[k] = argv[k]
  BY <1>1, <1>3 DEF argc
<1>5. /\ state' \in {"unquoted", "quoted", "slashes"}
      /\ state' = "quoted" <=> c = "quote"
      /\ state' = "slashes" <=> c = "backslash"
  BY <1>1
<1>6. Finished' = Finished /\ Limit' = Limit
  BY <1>3, <1>4, <1>5 DEF Finished, Limit
<1>7. bytes \in Seq(Byte) /\ buf' = buf \o bytes /\ \A i \in 1 .. Len(bytes) : bytes[i] # "nul"
  <2>1. CASE c = "quote"
    <3>1. bytes = <<>> /\ buf' = buf
      BY <1>1, <2>1
    <3> HIDE DEF bytes
    <3> QED
      BY <1>3, <3>1
  <2>2. CASE c # "quote"
    <3>1. bytes = Out /\ buf' = buf \o Out
      BY <1>1, <2>2
    <3> HIDE DEF bytes
    <3> QED
      BY <1>2, <3>1
  <2> QED
    BY <2>1, <2>2
<1> HIDE DEF bytes
<1>8. /\ buf' \in Seq(Byte) /\ Len(buf') = Len(buf) + Len(bytes)
      /\ \A i \in 1 .. Len(buf) : buf'[i] = buf[i]
      /\ \A i \in Len(buf) + 1 .. Len(buf) + Len(bytes) : buf'[i] = bytes[i - Len(buf)]
      /\ SubSeq(buf', Len(buf) + 1, Len(buf')) = bytes
  <2>1. Len(buf) \in 0 .. Len(buf)
    BY <1>3
  <2>2. /\ buf' \in Seq(Byte) /\ Len(buf') = Len(buf) + Len(bytes)
        /\ \A i \in 1 .. Len(buf) : buf'[i] = buf[i]
        /\ \A i \in Len(buf) + 1 .. Len(buf) + Len(bytes) : buf'[i] = bytes[i - Len(buf)]
        /\ SubSeq(buf', Len(buf) + 1, Len(buf) + Len(bytes)) =
             SubSeq(buf, Len(buf) + 1, Len(buf)) \o bytes
    BY <1>3, <1>7, <2>1, PartGrown
  <2>3. SubSeq(buf, Len(buf) + 1, Len(buf)) = <<>>
    BY <1>3
  <2>4. <<>> \o bytes = bytes
    BY <1>7
  <2> QED
    BY <2>2, <2>3, <2>4
<1>9. Limit <= Len(buf') /\ \A i \in Limit + 1 .. Len(buf') : buf'[i] # "nul"
  <2>1. Len(bytes) \in Nat
    BY <1>7
  <2>2. \A i \in Limit + 1 .. Len(buf') : /\ i \in Len(buf) + 1 .. Len(buf) + Len(bytes)
                                          /\ i - Len(buf) \in 1 .. Len(bytes)
    BY <1>3, <1>8, <2>1
  <2>3. \A i \in Limit + 1 .. Len(buf') : buf'[i] # "nul"
    BY <1>7, <1>8, <2>2
  <2>4. Limit <= Len(buf')
    BY <1>3, <1>8, <2>1
  <2> QED
    BY <2>3, <2>4
<1>10. Arguments(cmd) = Past \o Ahead(<<>>, arg) /\ arg.text \in Seq(Byte)
  <2>1. arg.text \in Seq(Byte)
    <3>1. "unquoted" \in Mode /\ pos \in 1 .. Len(cmd) + 1
      BY <1>2 DEF Mode
    <3> QED
      BY <1>2, <3>1, RestText
  <2>2. Arguments(cmd) = Past \o List(cmd)[pos]
    BY <1>1 DEF ReadingInv, LeftInv
  <2>3. List(cmd)[pos] = <<arg.text>> \o List(cmd)[arg.next]
    <3>1. pos \in 1 .. Len(cmd) + 1 /\ pos <= Len(cmd) /\ ~blank(cmd[pos])
      BY <1>1, <1>2
    <3> QED
      BY <1>2, <3>1, ListHere
  <2> HIDE DEF arg
  <2>4. Ahead(<<>>, arg) = <<arg.text>> \o List(cmd)[arg.next]
    BY <2>1, NothingBefore, <<>> \in Seq(Byte)
  <2> QED
    BY <2>1, <2>2, <2>3, <2>4
<1>11. \A n : Last(n)' = SubSeq(buf', Len(buf) + 1, n')
  BY <1>4 DEF Last
<1>12. Ahead(<<>>, arg) = Ahead(Written', Left')
  <2>1. CASE c = "quote"
    <3>1. Written' = SubSeq(buf', Len(buf) + 1, Len(buf'))
      BY <1>4, <1>5, <2>1 DEF Written, Last, InSlashes
    <3>2. Written' = <<>>
      BY <1>8, <2>1, <3>1 DEF bytes
    <3>3. Left' = Rest(cmd)[pos + 1]["quoted"]
      BY <1>1, <1>2, <1>5, <2>1 DEF Left, InSlashes
    <3>4. arg = Rest(cmd)[pos + 1]["quoted"]
      BY <1>2, <2>1, QuoteHere
    <3> QED
      BY <3>2, <3>3, <3>4
  <2>2. CASE c = "backslash"
    <3>1. bytes = <<"backslash">> /\ Len(bytes) = 1 /\ pos' = pos + 1 /\ slash' = 1
      BY <1>1, <1>2, <2>2 DEF bytes
    <3>2. Len(buf') - slash' = Len(buf) /\ pos' - slash' = pos
      BY <1>2, <1>3, <1>8, <3>1
    <3>3. Written' = SubSeq(buf', Len(buf) + 1, Len(buf))
      <4>1. Written' = SubSeq(buf', argv'[argc'] + 1, Len(buf') - slash')
        BY <1>5, <2>2 DEF Written, Last, InSlashes
      <4> QED
        BY <1>4, <3>2, <4>1
    <3>4. Written' = <<>>
      BY <1>3, <1>8, <3>3
    <3>5. Left' = arg
      BY <1>1, <1>5, <2>2, <3>2 DEF Left, InSlashes, Around
    <3> QED
      BY <3>4, <3>5
  <2>3. CASE c \notin {"quote", "backslash"}
    <3> DEFINE then == Rest(cmd)[pos']["unquoted"]
    <3>1. Written' = SubSeq(buf', Len(buf) + 1, Len(buf'))
      BY <1>4, <1>5, <2>3 DEF Written, Last, InSlashes
    <3>2. bytes = Out /\ Written' = Out
      BY <1>8, <2>3, <3>1 DEF bytes
    <3>3. Left' = then
      BY <1>1, <1>5, <2>3 DEF Left, InSlashes
    <3>4. "unquoted" \in Mode /\ ~Ends(cmd, pos, "unquoted") /\ cmd[pos] \notin Special
      BY <1>1, <1>2, <2>3 DEF Mode, Ends, Special
    <3>5. arg = With(Out, then)
      BY <1>2, <3>4, PlainRune
    <3>6. then.text \in Seq(Byte)
      BY <1>2, <3>4, RestText
    <3> HIDE DEF then, arg
    <3>7. Ahead(<<>>, With(Out, then)) = Ahead(<<>> \o Out, then)
      BY <1>2, <3>6, Moves, <<>> \in Seq(Byte)
    <3>8. <<>> \o Out = Out
      BY <1>2
    <3> QED
      BY <3>2, <3>3, <3>5, <3>7, <3>8
  <2> QED
    BY <2>1, <2>2, <2>3
<1>13. ReadInv'
  <2>1. CASE c # "backslash"
    BY <1>5, <2>1, NothingRead
  <2>2. CASE c = "backslash"
    <3>1. /\ bytes = <<"backslash">> /\ Len(bytes) = 1 /\ bytes[1] = "backslash"
          /\ pos' = pos + 1 /\ slash' = 1 /\ cmd[pos] = "backslash"
      BY <1>1, <1>2, <2>2 DEF bytes
    <3>2. slash' \in 1 .. pos' - 1
      BY <1>2, <3>1
    <3>3. \A k \in pos' - slash' .. pos' - 1 : cmd'[k] = "backslash"
      <4>1. \A k \in pos' - slash' .. pos' - 1 : k = pos
        BY <1>2, <3>1
      <4> QED
        BY <1>1, <3>1, <4>1
    <3>4. \A i \in Len(buf') - slash' + 1 .. Len(buf') : buf'[i] = "backslash"
      <4>1. \A i \in Len(buf') - slash' + 1 .. Len(buf') :
               i \in Len(buf) + 1 .. Len(buf) + Len(bytes) /\ i - Len(buf) = 1
        BY <1>3, <1>8, <3>1
      <4> QED
        BY <1>8, <3>1, <4>1
    <3>5. state' # "closing"
      BY <1>5
    <3> QED
      BY <3>2, <3>3, <3>4, <3>5 DEF ReadInv
  <2> QED
    BY <2>1, <2>2
<1>14. state' \notin {"begin", "outside", "done"}
  BY <1>5
<1>15. Arguments(cmd) = Past \o Ahead(Written', Left')
  BY <1>10, <1>12
<1>16. \A k \in 1 .. Finished : argv'[k] = argv[k]
  BY <1>3, <1>4
<1>17. \A i \in 1 .. Limit : buf'[i] = buf[i]
  BY <1>3, <1>8
<1> HIDE DEF arg
<1> QED
  BY <1>1, <1>6, <1>8, <1>9, <1>13, <1>14, <1>15, <1>16, <1>17, GoesOn

LEMMA SkipBlankExact ==
  ASSUME CommandLineInv, ReadingInv, SkipBlank
  PROVE  ReadingInv'
<1>1. /\ More /\ state = "outside" /\ state' = "outside" /\ blank(c) /\ pos' = pos + Units
      /\ buf' = buf \o <<>> /\ UNCHANGED <<cmd, argv>>
  BY DEF SkipBlank, Uses
<1>2. /\ cmd \in Seq(Unit) /\ pos \in 1 .. Len(cmd) /\ blank(cmd[pos]) /\ pos' = pos + 1
  BY <1>1, RuneTaken DEF blank
<1>3. /\ buf' = buf /\ buf \in Seq(Byte) /\ Len(buf) \in Nat /\ argc' = argc
      /\ Finished = argc /\ Limit = Len(buf)
  BY <1>1, Facts DEF argc
<1>4. Finished' = Finished /\ Limit' = Limit
  BY <1>1, <1>3 DEF Finished, Limit
<1>5. NulInv
  BY DEF ReadingInv
<1>6. /\ Past' = Past
      /\ \A k \in 1 .. Finished : \E i \in argv'[k] + 1 .. Limit : buf'[i] = "nul"
  BY <1>1, <1>3, <1>4, <1>5, PastKept
<1>7. List(cmd)[pos] = List(cmd)[pos']
  <2>1. pos \in 1 .. Len(cmd) + 1 /\ pos <= Len(cmd)
    BY <1>2
  <2> QED
    BY <1>2, <2>1, ListHere
<1>8. LeftInv'
  <2>1. Arguments(cmd) = Past \o List(cmd)[pos]
    BY <1>1 DEF ReadingInv, LeftInv
  <2> QED
    BY <1>1, <1>6, <1>7, <2>1 DEF LeftInv
<1>9. ReadInv' /\ NulInv'
  BY <1>1, <1>4, <1>6, NothingRead DEF NulInv
<1> QED
  BY <1>8, <1>9 DEF ReadingInv

\* An argument that ends has nothing left.
LEMMA Complete ==
  ASSUME CommandLineInv, ReadingInv, state \notin {"outside", "done"},
         argv' = argv, buf' = buf \o Ended, Last(Len(buf)) \in Seq(Byte),
         NEW arg, arg.text = <<>>, arg.next \in 1 .. Len(cmd) + 1,
         Arguments(cmd) = Past \o Ahead(Last(Len(buf)), arg)
  PROVE  /\ Arguments(cmd) = [k \in 1 .. argc |-> Argument(k)]' \o List(cmd)[arg.next]
         /\ [k \in 1 .. argc |-> Argument(k)]' \in Seq(Arg)
         /\ \A k \in 1 .. argc : \E i \in argv[k] + 1 .. Len(buf') : buf'[i] = "nul"
<1> DEFINE last == Last(Len(buf))
           one == <<last>>
           behind == List(cmd)[arg.next]
<1>1. NulInv
  BY DEF ReadingInv
<1>2. /\ [k \in 1 .. argc |-> Argument(k)]' = Past \o one
      /\ Past \in Seq(Arg) /\ last \in Arg
      /\ \A k \in 1 .. argc : \E i \in argv[k] + 1 .. Len(buf') : buf'[i] = "nul"
  BY <1>1, PastComplete
<1>3. behind \in Seq(Arg)
  BY Facts, ListType
<1>4. Ahead(last, arg) = one \o behind
  <2>1. last \o <<>> = last
    <3> HIDE DEF last
    <3> QED
      OBVIOUS
  <2>2. Ahead(last, arg) = <<last \o arg.text>> \o behind
    BY Zenon DEF Ahead
  <2> QED
    BY <2>1, <2>2
<1> HIDE DEF last, behind
<1>5. one \in Seq(Arg)
  BY <1>2
<1> HIDE DEF one
<1>6. (Past \o one) \o behind = Past \o (one \o behind)
  <2>1. Past \in Seq(Arg) /\ one \in Seq(Arg) /\ behind \in Seq(Arg)
    BY <1>2, <1>3, <1>5
  <2> QED
    BY <2>1, ConcatAssociative, SMTT(60)
<1>7. Past \o one \in Seq(Arg)
  BY <1>2, <1>5, ListsJoined
<1> QED
  BY <1>2, <1>4, <1>6, <1>7 DEF last, behind

LEMMA EndArgumentExact ==
  ASSUME CommandLineInv, ReadingInv, EndArgument
  PROVE  ReadingInv'
<1> DEFINE m == Settled
           arg == Rest(cmd)[pos][m]
           last == Last(Len(buf))
<1>1. /\ More /\ pos' = pos + Units /\ state' = "outside" /\ buf' = buf \o Ended
      /\ UNCHANGED <<cmd, argv>>
      /\ \/ state \in {"begin", "program", "unquoted"} /\ blank(c)
         \/ state = "programquoted" /\ c = "quote"
  BY DEF EndArgument, Uses
<1>2. /\ cmd \in Seq(Unit) /\ Len(cmd) \in Nat /\ pos \in 1 .. Len(cmd)
      /\ (c = "quote" => cmd[pos] = "quote")
      /\ (c = "quote" <=> Is(cmd, pos, "quote"))
      /\ (blank(c) <=> blank(cmd[pos]))
  BY <1>1, RuneTaken
<1>3. pos' = pos + 1
  BY <1>1, RuneTaken DEF blank
<1>4. /\ ~InSlashes /\ state \notin {"outside", "done", "closing"}
      /\ m = IF state = "begin" THEN "program" ELSE state
      /\ m = "programquoted" <=> state = "programquoted"
  BY <1>1 DEF InSlashes, Settled
<1>5. state = "begin" => ~Is(cmd, pos, "quote")
  BY <1>1, <1>2 DEF blank
<1>6. /\ m \in Mode /\ last \in Seq(Byte)
      /\ Arguments(cmd) = Past \o Ahead(last, arg)
  BY <1>4, <1>5, LeftSettled
<1>7. Ends(cmd, pos, m)
  <2>1. \/ m \in {"unquoted", "program"} /\ blank(cmd[pos])
        \/ m = "programquoted" /\ cmd[pos] = "quote"
    BY <1>1, <1>2, <1>4
  <2> QED
    BY <2>1 DEF Ends
<1>8. pos \in 1 .. Len(cmd) + 1 /\ pos + 1 \in 1 .. Len(cmd) + 1 /\ pos <= Len(cmd)
  BY <1>2
<1>9. arg.text = <<>> /\ arg.next = IF m = "programquoted" /\ pos <= Len(cmd) THEN pos + 1 ELSE pos
  <2> HIDE DEF m
  <2> QED
    BY <1>2, <1>6, <1>7, <1>8, EndsHere
<1>10. arg.next \in 1 .. Len(cmd) + 1 /\ List(cmd)[arg.next] = List(cmd)[pos']
  <2>1. CASE m = "programquoted"
    <3>1. arg.next = pos'
      BY <1>3, <1>8, <1>9, <2>1
    <3> QED
      BY <1>3, <1>8, <3>1
  <2>2. CASE m # "programquoted"
    <3>1. arg.next = pos
      BY <1>9, <2>2
    <3>2. blank(cmd[pos])
      BY <1>1, <1>2, <1>4, <2>2
    <3>3. List(cmd)[pos] = List(cmd)[pos + 1]
      BY <1>2, <1>8, <3>2, ListHere
    <3> QED
      BY <1>3, <1>8, <3>1, <3>3
  <2> QED
    BY <2>1, <2>2
<1>11. argc' = argc /\ Finished' = argc /\ Limit' = Len(buf')
  BY <1>1 DEF argc, Finished, Limit
<1>12. /\ Arguments(cmd) = [k \in 1 .. argc |-> Argument(k)]' \o List(cmd)[arg.next]
       /\ \A k \in 1 .. argc : \E i \in argv[k] + 1 .. Len(buf') : buf'[i] = "nul"
  <2> HIDE DEF m, arg, last
  <2>1. Arguments(cmd) = Past \o Ahead(Last(Len(buf)), arg) /\ Last(Len(buf)) \in Seq(Byte)
    BY <1>6 DEF last
  <2> QED
    BY <1>1, <1>4, <1>9, <1>10, <2>1, Complete
<1>13. Past' = [k \in 1 .. argc |-> Argument(k)]'
  BY <1>11 DEF Past
<1>14. LeftInv'
  <2>1. Arguments(cmd) = Past' \o List(cmd)[pos']
    BY <1>10, <1>12, <1>13
  <2> QED
    BY <1>1, <2>1 DEF LeftInv
<1>15. NulInv'
  BY <1>1, <1>11, <1>12 DEF NulInv
<1>16. ReadInv'
  BY <1>1, NothingRead
<1> QED
  BY <1>14, <1>15, <1>16 DEF ReadingInv

LEMMA FinishExact ==
  ASSUME CommandLineInv, ReadingInv, Finish, Len(cmd) < CmdMax - 1
  PROVE  ArgumentsExact'
<1> DEFINE E == Len(cmd) + 1
           all == [k \in 1 .. argc |-> Argument(k)]'
<1>1. state # "done" /\ pos = E /\ UNCHANGED <<cmd, argv>>
  BY DEF Finish
<1>2. /\ cmd \in Seq(Unit) /\ Len(cmd) \in Nat /\ E \in 1 .. E
      /\ buf \in Seq(Byte) /\ Len(buf) \in Nat /\ argc \in Nat /\ argc' = argc
  BY <1>1, Facts DEF argc
<1>3. buf' = buf \o Ended
  <2>1. argc < PtrMax
    BY Bounded
  <2> QED
    BY <2>1 DEF Finish, Terminated
<1>4. List(cmd)[E] = <<>>
  BY <1>2, ListHere
<1>5. Arguments(cmd) = all
  <2>1. CASE state = "outside"
    <3>1. NulInv /\ Arguments(cmd) = Past \o List(cmd)[E]
      BY <1>1, <2>1 DEF ReadingInv, LeftInv
    <3>2. Past \in Seq(Arg)
      BY <3>1, PastType
    <3>3. Arguments(cmd) = Past
      <4> HIDE DEF E
      <4>1. Past \o <<>> = Past
        BY <3>2
      <4> QED
        BY <1>4, <3>1, <4>1
    <3>4. Finished = argc /\ Limit = Len(buf) /\ \A k \in 1 .. argc : argv[k] \in Nat
      BY <2>1, Facts
    <3>5. Ended \in Seq(Byte)
      BY DEF Ended, Byte
    <3>6. /\ buf' \in Seq(Byte) /\ Len(buf) <= Len(buf')
          /\ \A i \in 1 .. Len(buf) : buf'[i] = buf[i]
      BY <1>2, <1>3, <3>5, JoinedIs
    <3>7. ASSUME NEW k \in 1 .. argc PROVE CString(buf', argv[k]) = CString(buf, argv[k])
      <4>1. \E i \in argv[k] + 1 .. Len(buf) : buf[i] = "nul"
        BY <3>1, <3>4 DEF NulInv
      <4>2. argv[k] \in Nat /\ Len(buf) <= Len(buf)
        BY <1>2, <3>4
      <4> HIDE DEF E
      <4> QED
        BY <1>2, <3>6, <4>1, <4>2, CStringKept
    <3>8. all = [k \in 1 .. argc |-> CString(buf', argv[k])]
      BY <1>1, <1>2 DEF Argument
    <3>9. Past = [k \in 1 .. argc |-> CString(buf, argv[k])]
      BY <3>4 DEF Past, Argument
    <3> HIDE DEF all
    <3> QED
      BY <3>3, <3>7, <3>8, <3>9, Zenon
  <2>2. CASE state # "outside"
    <3> DEFINE m == Settled
               arg == Rest(cmd)[pos][m]
    <3>1. ~Is(cmd, pos, "quote") /\ ~Is(cmd, pos, "backslash") /\ ~(pos <= Len(cmd))
          /\ pos > Len(cmd)
      BY <1>1, <1>2 DEF Is
    <3>2. /\ m \in Mode /\ Last(Len(buf)) \in Seq(Byte)
          /\ Arguments(cmd) = Past \o Ahead(Last(Len(buf)), arg)
      BY <1>1, <2>2, <3>1, LeftSettled
    <3>3. Ends(cmd, pos, m)
      BY <3>1 DEF Ends
    <3>4. arg.text = <<>> /\ arg.next = E
      <4> HIDE DEF m
      <4> QED
        BY <1>1, <1>2, <3>1, <3>2, <3>3, EndsHere
    <3> HIDE DEF m, arg, E
    <3>5. arg.next \in 1 .. Len(cmd) + 1
      BY <1>2, <3>4 DEF E
    <3>6. Arguments(cmd) = all \o List(cmd)[arg.next] /\ all \in Seq(Arg)
      BY <1>1, <1>3, <2>2, <3>2, <3>4, <3>5, Complete
    <3> HIDE DEF all
    <3>7. all \o <<>> = all
      BY <3>6
    <3> QED
      BY <1>4, <3>4, <3>6, <3>7
  <2> QED
    BY <2>1, <2>2
<1>6. [k \in 1 .. argc' |-> Argument(k)'] = all
  OBVIOUS
<1> QED
  BY <1>1, <1>2, <1>5, <1>6 DEF ArgumentsExact

-----------------------------------------------------------------------------
LEMMA InitExact == Init => ExactInv
<1> SUFFICES ASSUME Init PROVE ExactInv
  OBVIOUS
<1>1. CommandLineInv
  BY InitInv
<1>2. state = "begin" /\ pos = 1 /\ argv = <<0>> /\ buf = <<>> /\ Len(buf) = 0 /\ argv[argc] = 0
      /\ Finished = 0
  BY DEF Init, Start, argc, Finished
<1>3. LeftInv /\ ReadInv
  BY <1>2 DEF LeftInv, ReadInv, InSlashes
<1>4. NulInv
  BY <1>2 DEF NulInv
<1>5. ArgumentsExact
  BY <1>2 DEF ArgumentsExact
<1> QED
  BY <1>1, <1>3, <1>4, <1>5 DEF ExactInv, ReadingInv

LEMMA NextExact == ExactInv /\ [Next]_vars => ExactInv'
<1> SUFFICES ASSUME ExactInv, [Next]_vars PROVE ExactInv'
  OBVIOUS
<1>1. CommandLineInv /\ CommandLineInv'
  BY StepInv DEF ExactInv
<1>2. CASE UNCHANGED vars
  <2>1. /\ cmd' = cmd /\ pos' = pos /\ state' = state /\ slash' = slash
        /\ argv' = argv /\ buf' = buf
    BY <1>2 DEF vars
  <2>2. ReadingInv' <=> ReadingInv
    <3>1. argc' = argc
      BY <2>1 DEF argc
    <3>2. Finished' = Finished /\ Limit' = Limit /\ InSlashes' = InSlashes /\ Around' = Around
      BY <2>1, <3>1 DEF Finished, Limit, InSlashes, Around
    <3>3. Past' = Past /\ Written' = Written /\ Left' = Left
      BY <2>1, <3>1, <3>2 DEF Past, Written, Left, Argument, Last
    <3>4. (Arguments(cmd) = Past \o Ahead(Written, Left))' <=>
             Arguments(cmd) = Past \o Ahead(Written, Left)
      BY <2>1, <3>3 DEF Ahead
    <3>5. LeftInv' <=> LeftInv
      BY <2>1, <3>3, <3>4 DEF LeftInv
    <3>6. ReadInv' <=> ReadInv
      BY <2>1, <3>2 DEF ReadInv
    <3>7. NulInv' <=> NulInv
      BY <2>1, <3>1, <3>2 DEF NulInv
    <3> QED
      BY <3>5, <3>6, <3>7 DEF ReadingInv
  <2>3. ArgumentsExact' <=> ArgumentsExact
    BY <2>1 DEF ArgumentsExact, Argument, argc
  <2> QED
    BY <1>1, <2>1, <2>2, <2>3 DEF ExactInv
<1>3. CASE Stopped
  BY <1>2, <1>3 DEF Stopped
<1>4. CASE Step /\ ~Finish
  <2>1. state # "done" /\ ReadingInv
    BY <1>4 DEF Step, ExactInv, EndArgument, BeginProgram, SkipBlank, OpenArgument, Copy,
                OpenQuote, CloseQuote, Closing, FirstSlash, MoreSlashes, EndSlashesQuote,
                EndSlashes, More
  <2>2. ReadingInv'
    BY <1>1, <1>4, <2>1, EndArgumentExact, BeginProgramExact, SkipBlankExact,
       OpenArgumentExact, CopyExact, OpenQuoteExact, CloseQuoteExact, ClosingExact,
       FirstSlashExact, MoreSlashesExact, EndSlashesQuoteExact, EndSlashesExact DEF Step
  <2>3. state' # "done"
    BY <1>4, <2>1 DEF Step, EndArgument, BeginProgram, SkipBlank, OpenArgument, Copy,
                OpenQuote, CloseQuote, Closing, FirstSlash, MoreSlashes, EndSlashesQuote,
                EndSlashes, Uses, Unreads, Around
  <2> QED
    BY <1>1, <2>2, <2>3 DEF ExactInv, ArgumentsExact
<1>5. CASE Finish
  <2>1. state # "done" /\ state' = "done" /\ cmd' = cmd
    BY <1>5 DEF Finish
  <2>2. ReadingInv
    BY <2>1 DEF ExactInv
  <2>3. Len(cmd) < CmdMax - 1 => ArgumentsExact'
    BY <1>1, <1>5, <2>2, FinishExact
  <2> QED
    BY <1>1, <2>1, <2>3 DEF ExactInv
<1> QED
  BY <1>2, <1>3, <1>4, <1>5 DEF Next

(***************************************************************************)
(* Whatever the command line, cmdline_to_argv8() splits it as the rules    *)
(* read with lookahead do: taking backslashes back when a quotation mark   *)
(* follows, and reading a rune again in another state, lose no byte and    *)
(* add none, and each pointer leads to the bytes of its argument.  The line*)
(* is shorter than the longest one by a unit at least, so that the null    *)
(* pointer does not fall on the bytes.                                     *)
(***************************************************************************)
THEOREM ArgumentsCorrect == Spec => [](Len(cmd) < CmdMax - 1 => ArgumentsExact)
<1>1. ExactInv => (Len(cmd) < CmdMax - 1 => ArgumentsExact)
  BY DEF ExactInv
<1> QED
  BY <1>1, InitExact, NextExact, PTL DEF Spec
(***************************************************************************)
(* What a shell makes of a token, and what the bytes of a text mean.  Each *)
(* function is built from the front, and has at each place the value that  *)
(* its definition says.                                                    *)
(***************************************************************************)
\* From none of M things up to all of them.
LEMMA Upwards ==
  ASSUME NEW M \in Nat, NEW S, 0 \in S,
         \A k \in 0 .. M - 1 : k \in S => k + 1 \in S
  PROVE  \A k \in 0 .. M : k \in S
<1> SUFFICES ASSUME NEW b \in 0 .. M, b \notin S PROVE FALSE
  OBVIOUS
<1> DEFINE I == {d \in 0 .. M : d \notin S}
<1>1. b \in I
  OBVIOUS
<1>2. PICK d \in I : \A e \in I : d <= e
  <2>1. I \subseteq Nat /\ I # {}
    BY <1>1
  <2> HIDE DEF I
  <2> QED
    BY <2>1, LeastExists
<1>3. d # 0 /\ d \in 0 .. M /\ d \notin S
  BY <1>2
<1>4. d - 1 \notin I /\ d - 1 \in 0 .. M - 1
  BY <1>2, <1>3
<1>5. d - 1 \in S /\ (d - 1) + 1 = d
  BY <1>3, <1>4
<1> QED
  BY <1>3, <1>4, <1>5

ShellReads(f, token, b) == f = [n \in 0 .. b |-> Q!ShellAt(token, f, n)]
MeantReads(f, bytes, b) == f = [n \in 0 .. b |-> Q!MeantAt(bytes, f, n)]

\* The functions of the LETs.
LEMMA ShellChosen ==
  ASSUME NEW token
  PROVE  Q!Shell(token) = CHOOSE f : ShellReads(f, token, Len(token))
BY DEF Q!Shell, ShellReads

LEMMA MeantChosen ==
  ASSUME NEW bytes
  PROVE  Q!Meant(bytes) = CHOOSE f : MeantReads(f, bytes, Len(bytes))
BY DEF Q!Meant, MeantReads

\* What is read at a byte depends on the bytes before it alone.
LEMMA ShellAgrees ==
  ASSUME NEW token, NEW n, NEW f, NEW g, n # 0 => f[n - 1] = g[n - 1]
  PROVE  Q!ShellAt(token, f, n) = Q!ShellAt(token, g, n)
BY Zenon DEF Q!ShellAt

LEMMA MeantAgrees ==
  ASSUME NEW bytes, NEW n, NEW f, NEW g, n # 0 => f[n - 1] = g[n - 1]
  PROVE  Q!MeantAt(bytes, f, n) = Q!MeantAt(bytes, g, n)
BY Zenon DEF Q!MeantAt

\* The functions exist: each is built from the front of the bytes on.
LEMMA ShellExists ==
  ASSUME NEW token, NEW M \in Nat
  PROVE  \E f : ShellReads(f, token, M)
<1> DEFINE S == {b \in Nat : \E f : ShellReads(f, token, b)}
<1>1. 0 \in S
  <2> DEFINE none == [n \in {} |-> 0]
             f == [n \in 0 .. 0 |-> Q!ShellAt(token, none, n)]
  <2>1. ASSUME NEW n \in 0 .. 0
        PROVE  Q!ShellAt(token, none, n) = Q!ShellAt(token, f, n)
    <3> HIDE DEF none, f
    <3>1. n = 0
      OBVIOUS
    <3> QED
      BY <3>1, ShellAgrees
  <2>2. ShellReads(f, token, 0)
    BY <2>1, Zenon DEF ShellReads
  <2> HIDE DEF f
  <2> QED
    BY <2>2
<1>2. ASSUME NEW b \in 0 .. M - 1, b \in S PROVE b + 1 \in S
  <2>1. PICK f : ShellReads(f, token, b)
    BY <1>2
  <2> DEFINE last == Q!ShellAt(token, f, b + 1)
             h == [n \in 0 .. b + 1 |-> IF n = b + 1 THEN last ELSE f[n]]
  <2>2. /\ \A n \in 0 .. b + 1 : n = b + 1 \/ n \in 0 .. b
        /\ \A n \in 0 .. b : n \in 0 .. b + 1 /\ n # b + 1
        /\ \A n \in 0 .. b + 1 : n # 0 => n - 1 \in 0 .. b
        /\ b + 1 \in 0 .. b + 1
    OBVIOUS
  <2> HIDE DEF last
  <2>3. \A n \in 0 .. b : h[n] = f[n]
    BY <2>2
  <2>4. h[b + 1] = last
    BY <2>2
  <2>5. h = [n \in 0 .. b + 1 |-> h[n]]
    BY <2>2
  <2> HIDE DEF h
  <2>6. ASSUME NEW n \in 0 .. b + 1
        PROVE  Q!ShellAt(token, f, n) = Q!ShellAt(token, h, n)
    <3>1. n # 0 => f[n - 1] = h[n - 1]
      BY <2>2, <2>3
    <3> QED
      BY <3>1, ShellAgrees
  <2>7. ASSUME NEW n \in 0 .. b + 1 PROVE h[n] = Q!ShellAt(token, h, n)
    <3>1. CASE n = b + 1
      BY <2>4, <2>6, <3>1, Zenon DEF last
    <3>2. CASE n # b + 1
      <4>1. n \in 0 .. b
        BY <2>2, <3>2
      <4>2. h[n] = Q!ShellAt(token, f, n)
        BY <2>1, <2>3, <4>1, Zenon DEF ShellReads
      <4> QED
        BY <2>6, <4>2, Zenon
    <3> QED
      BY <3>1, <3>2
  <2>8. ShellReads(h, token, b + 1)
    BY <2>5, <2>7, Zenon DEF ShellReads
  <2> QED
    BY <2>8
<1>3. M \in S
  <2> HIDE DEF S
  <2> QED
    BY <1>1, <1>2, Upwards
<1> QED
  BY <1>3

\* ... and have, at each place, the value that their definitions say.
LEMMA ShellSteps ==
  ASSUME NEW token, Len(token) \in Nat, NEW n \in 0 .. Len(token)
  PROVE  Q!Shell(token)[n] = Q!ShellAt(token, Q!Shell(token), n)
<1> DEFINE f == Q!Shell(token)
<1>1. ShellReads(f, token, Len(token))
  BY ShellExists, ShellChosen, Zenon
<1> HIDE DEF f
<1>2. f = [k \in 0 .. Len(token) |-> Q!ShellAt(token, f, k)]
  BY <1>1, Zenon DEF ShellReads
<1> QED
  BY <1>2, Zenon DEF f
LEMMA MeantExists ==
  ASSUME NEW bytes, NEW M \in Nat
  PROVE  \E f : MeantReads(f, bytes, M)
<1> DEFINE S == {b \in Nat : \E f : MeantReads(f, bytes, b)}
<1>1. 0 \in S
  <2> DEFINE none == [n \in {} |-> 0]
             f == [n \in 0 .. 0 |-> Q!MeantAt(bytes, none, n)]
  <2>1. ASSUME NEW n \in 0 .. 0
        PROVE  Q!MeantAt(bytes, none, n) = Q!MeantAt(bytes, f, n)
    <3> HIDE DEF none, f
    <3>1. n = 0
      OBVIOUS
    <3> QED
      BY <3>1, MeantAgrees
  <2>2. MeantReads(f, bytes, 0)
    BY <2>1, Zenon DEF MeantReads
  <2> HIDE DEF f
  <2> QED
    BY <2>2
<1>2. ASSUME NEW b \in 0 .. M - 1, b \in S PROVE b + 1 \in S
  <2>1. PICK f : MeantReads(f, bytes, b)
    BY <1>2
  <2> DEFINE last == Q!MeantAt(bytes, f, b + 1)
             h == [n \in 0 .. b + 1 |-> IF n = b + 1 THEN last ELSE f[n]]
  <2>2. /\ \A n \in 0 .. b + 1 : n = b + 1 \/ n \in 0 .. b
        /\ \A n \in 0 .. b : n \in 0 .. b + 1 /\ n # b + 1
        /\ \A n \in 0 .. b + 1 : n # 0 => n - 1 \in 0 .. b
        /\ b + 1 \in 0 .. b + 1
    OBVIOUS
  <2> HIDE DEF last
  <2>3. \A n \in 0 .. b : h[n] = f[n]
    BY <2>2
  <2>4. h[b + 1] = last
    BY <2>2
  <2>5. h = [n \in 0 .. b + 1 |-> h[n]]
    BY <2>2
  <2> HIDE DEF h
  <2>6. ASSUME NEW n \in 0 .. b + 1
        PROVE  Q!MeantAt(bytes, f, n) = Q!MeantAt(bytes, h, n)
    <3>1. n # 0 => f[n - 1] = h[n - 1]
      BY <2>2, <2>3
    <3> QED
      BY <3>1, MeantAgrees
  <2>7. ASSUME NEW n \in 0 .. b + 1 PROVE h[n] = Q!MeantAt(bytes, h, n)
    <3>1. CASE n = b + 1
      BY <2>4, <2>6, <3>1, Zenon DEF last
    <3>2. CASE n # b + 1
      <4>1. n \in 0 .. b
        BY <2>2, <3>2
      <4>2. h[n] = Q!MeantAt(bytes, f, n)
        BY <2>1, <2>3, <4>1, Zenon DEF MeantReads
      <4> QED
        BY <2>6, <4>2, Zenon
    <3> QED
      BY <3>1, <3>2
  <2>8. MeantReads(h, bytes, b + 1)
    BY <2>5, <2>7, Zenon DEF MeantReads
  <2> QED
    BY <2>8
<1>3. M \in S
  <2> HIDE DEF S
  <2> QED
    BY <1>1, <1>2, Upwards
<1> QED
  BY <1>3

LEMMA MeantSteps ==
  ASSUME NEW bytes, Len(bytes) \in Nat, NEW n \in 0 .. Len(bytes)
  PROVE  Q!Meant(bytes)[n] = Q!MeantAt(bytes, Q!Meant(bytes), n)
<1> DEFINE f == Q!Meant(bytes)
<1>1. MeantReads(f, bytes, Len(bytes))
  BY MeantExists, MeantChosen, Zenon
<1> HIDE DEF f
<1>2. f = [k \in 0 .. Len(bytes) |-> Q!MeantAt(bytes, f, k)]
  BY <1>1, Zenon DEF MeantReads
<1> QED
  BY <1>2, Zenon DEF f

(***************************************************************************)
(* A token is taken for a word if a shell reads it to the end, and no      *)
(* backslash is left over.                                                 *)
(***************************************************************************)
Shelled == Q!Byte \cup {"active"}

Taken(token, word) ==
  /\ token \in Seq(Q!Byte)
  /\ word \in Seq(Shelled)
  /\ Q!Shell(token)[Len(token)] = [word |-> word, escaped |-> FALSE]

\* Then the word is what Evaluated() yields.
LEMMA TakenEvaluated ==
  ASSUME NEW token, NEW word, Taken(token, word)
  PROVE  Q!Evaluated(token) = word
<1> DEFINE shell == Q!Shell(token)[Len(token)]
<1>1. shell = [word |-> word, escaped |-> FALSE]
  BY DEF Taken
<1>2. Q!Evaluated(token) = IF shell.escaped THEN Append(shell.word, "active") ELSE shell.word
  BY DEF Q!Evaluated
<1> HIDE DEF shell
<1>3. shell.word = word /\ shell.escaped = FALSE
  BY <1>1
<1> QED
  BY <1>2, <1>3

\* The empty token, with which dequote() begins.
LEMMA TakenEmpty == Taken(<<>>, <<>>)
<1> DEFINE none == <<>>
<1>1. Len(none) = 0 /\ none \in Seq(Q!Byte) /\ none \in Seq(Shelled) /\ 0 \in 0 .. 0
  OBVIOUS
<1> HIDE DEF none
<1>2. Q!Shell(none)[0] = Q!ShellAt(none, Q!Shell(none), 0)
  BY <1>1, ShellSteps
<1>3. Q!ShellAt(none, Q!Shell(none), 0) = [word |-> <<>>, escaped |-> FALSE]
  BY DEF Q!ShellAt
<1>4. Taken(none, none)
  BY <1>1, <1>2, <1>3 DEF Taken, none
<1> QED
  BY <1>4 DEF none

\* The shell reads the front of a token whatever comes behind.
LEMMA FrontTaken ==
  ASSUME NEW token \in Seq(Q!Byte), NEW more \in Seq(Q!Byte)
  PROVE  Q!Shell(token \o more)[Len(token)] = Q!Shell(token)[Len(token)]
<1> DEFINE longer == token \o more
           f == Q!Shell(token)
           g == Q!Shell(longer)
           N == Len(token)
           S == {n \in 0 .. N : g[n] = f[n]}
<1>1. /\ N \in Nat /\ Len(longer) \in Nat /\ N <= Len(longer)
      /\ \A n \in 1 .. N : longer[n] = token[n]
  OBVIOUS
<1>2. \A n \in 0 .. N : f[n] = Q!ShellAt(token, f, n)
  BY <1>1, ShellSteps
<1>3. \A n \in 0 .. N : g[n] = Q!ShellAt(longer, g, n)
  <2> SUFFICES ASSUME NEW n \in 0 .. N PROVE g[n] = Q!ShellAt(longer, g, n)
    OBVIOUS
  <2>1. n \in 0 .. Len(longer)
    BY <1>1
  <2> QED
    BY <1>1, <2>1, ShellSteps
<1> HIDE DEF f, g, longer, N
<1>4. 0 \in S
  <2>1. 0 \in 0 .. N
    BY <1>1
  <2>2. Q!ShellAt(token, f, 0) = Q!ShellAt(longer, g, 0)
    BY DEF Q!ShellAt
  <2> QED
    BY <1>2, <1>3, <2>1, <2>2
<1>5. ASSUME NEW k \in 0 .. N - 1, k \in S PROVE k + 1 \in S
  <2>1. k + 1 \in 0 .. N /\ k + 1 \in 1 .. N /\ k + 1 # 0 /\ (k + 1) - 1 = k /\ g[k] = f[k]
    BY <1>1, <1>5
  <2>2. longer[k + 1] = token[k + 1]
    BY <1>1, <2>1
  <2>3. Q!ShellAt(token, f, k + 1) = Q!ShellAt(longer, g, k + 1)
    BY <2>1, <2>2, Zenon DEF Q!ShellAt
  <2> QED
    BY <1>2, <1>3, <2>1, <2>3
<1>6. N \in S
  <2>1. N \in Nat /\ N \in 0 .. N
    BY <1>1
  <2> HIDE DEF S
  <2>2. \A k \in 0 .. N : k \in S
    BY <1>4, <1>5, <2>1, Upwards
  <2> QED
    BY <2>1, <2>2
<1> QED
  BY <1>6 DEF f, g, longer, N

(***************************************************************************)
(* What Escape and Keep append to a token is one byte to a shell.          *)
(***************************************************************************)
LEMMA TakenGrows ==
  ASSUME NEW token, NEW word, Taken(token, word), NEW x \in Q!Byte, NEW more, NEW value,
         \/ more = <<"\\", x>> /\ x # "\n" /\ value = x
         \/ more = <<x>> /\ x # "\\" /\ value = Q!AsWritten(x, word)
  PROVE  Taken(token \o more, Append(word, value))
<1> DEFINE n == Len(token)
           m == Len(more)
           longer == token \o more
           g == Q!Shell(longer)
<1>1. token \in Seq(Q!Byte) /\ n \in Nat /\ word \in Seq(Shelled)
  BY DEF Taken
<1>2. "\\" \in Q!Byte
  BY DEF Q!Byte
<1>3. /\ more \in Seq(Q!Byte)
      /\ \/ m = 2 /\ more[1] = "\\" /\ more[2] = x /\ x # "\n" /\ value = x
         \/ m = 1 /\ more[1] = x /\ x # "\\" /\ value = Q!AsWritten(x, word)
  <2>1. CASE more = <<"\\", x>> /\ x # "\n" /\ value = x
    BY <1>2, <2>1
  <2>2. CASE more = <<x>> /\ x # "\\" /\ value = Q!AsWritten(x, word)
    BY <2>2
  <2> QED
    BY <2>1, <2>2
<1>4. value \in Shelled
  BY DEF Shelled, Q!AsWritten
<1>5. /\ longer \in Seq(Q!Byte) /\ Len(longer) = n + m /\ m \in Nat
      /\ \A k \in 1 .. m : longer[n + k] = more[k]
  BY <1>1, <1>3
<1>6. g[n] = [word |-> word, escaped |-> FALSE]
  BY <1>1, <1>3, FrontTaken DEF Taken
<1>7. \A k \in 0 .. Len(longer) : g[k] = Q!ShellAt(longer, g, k)
  <2>1. Len(longer) \in Nat
    BY <1>1, <1>5
  <2> HIDE DEF longer
  <2> QED
    BY <2>1, ShellSteps
<1> HIDE DEF n, m, longer, g
<1>8. g[n].word = word /\ g[n].escaped = FALSE
  BY <1>6
<1>9. g[n + m] = [word |-> Append(word, value), escaped |-> FALSE]
  <2>1. CASE m = 2 /\ more[1] = "\\" /\ more[2] = x /\ x # "\n" /\ value = x
    <3>1. /\ n + 1 \in 0 .. n + m /\ n + 2 \in 0 .. n + m /\ n + m = n + 2
          /\ n + 1 # 0 /\ n + 2 # 0 /\ (n + 1) - 1 = n /\ (n + 2) - 1 = n + 1
      BY <1>1, <2>1
    <3>2. longer[n + 1] = "\\" /\ longer[n + 2] = x
      BY <1>5, <2>1
    <3>3. g[n + 1] = [word |-> word, escaped |-> TRUE]
      BY <1>5, <1>7, <1>8, <3>1, <3>2, Zenon DEF Q!ShellAt
    <3>4. g[n + 1].word = word /\ g[n + 1].escaped = TRUE
      BY <3>3
    <3>5. g[n + 2] = [word |-> Append(word, x), escaped |-> FALSE]
      BY <1>5, <1>7, <2>1, <3>1, <3>2, <3>4, Zenon DEF Q!ShellAt
    <3> QED
      BY <2>1, <3>1, <3>5
  <2>2. CASE m = 1 /\ more[1] = x /\ x # "\\" /\ value = Q!AsWritten(x, word)
    <3>1. n + 1 \in 0 .. n + m /\ n + m = n + 1 /\ n + 1 # 0 /\ (n + 1) - 1 = n
      BY <1>1, <2>2
    <3>2. longer[n + 1] = x
      BY <1>5, <2>2
    <3>3. g[n + 1] = [word |-> Append(word, Q!AsWritten(x, word)), escaped |-> FALSE]
      BY <1>5, <1>7, <1>8, <2>2, <3>1, <3>2, Zenon DEF Q!ShellAt
    <3> QED
      BY <2>2, <3>1, <3>3
  <2> QED
    BY <1>3, <2>1, <2>2
<1>10. Append(word, value) \in Seq(Shelled)
  BY <1>1, <1>4
<1> QED
  BY <1>5, <1>9, <1>10 DEF Taken, longer, g

\* A line end behind a backslash is nothing to it.
LEMMA TakenNothing ==
  ASSUME NEW token, NEW word, Taken(token, word)
  PROVE  Taken(token \o <<"\\", "\n">>, word)
<1> DEFINE n == Len(token)
           longer == token \o <<"\\", "\n">>
           g == Q!Shell(longer)
<1>1. token \in Seq(Q!Byte) /\ n \in Nat /\ word \in Seq(Shelled)
  BY DEF Taken
<1>2. "\\" \in Q!Byte /\ "\n" \in Q!Byte
  BY DEF Q!Byte, Q!Special
<1>3. <<"\\", "\n">> \in Seq(Q!Byte)
  BY <1>2
<1>4. /\ longer \in Seq(Q!Byte) /\ Len(longer) = n + 2
      /\ longer[n + 1] = "\\" /\ longer[n + 2] = "\n"
  BY <1>1, <1>2
<1>5. g[n] = [word |-> word, escaped |-> FALSE]
  BY <1>1, <1>3, FrontTaken DEF Taken
<1>6. \A k \in 0 .. Len(longer) : g[k] = Q!ShellAt(longer, g, k)
  <2>1. Len(longer) \in Nat
    BY <1>1, <1>4
  <2> HIDE DEF longer
  <2> QED
    BY <2>1, ShellSteps
<1> HIDE DEF n, longer, g
<1>7. g[n].word = word /\ g[n].escaped = FALSE
  BY <1>5
<1>8. /\ n + 1 \in 0 .. n + 2 /\ n + 2 \in 0 .. n + 2
      /\ n + 1 # 0 /\ n + 2 # 0 /\ (n + 1) - 1 = n /\ (n + 2) - 1 = n + 1
  BY <1>1
<1>9. g[n + 1] = [word |-> word, escaped |-> TRUE]
  BY <1>4, <1>6, <1>7, <1>8, Zenon DEF Q!ShellAt
<1>10. g[n + 1].word = word /\ g[n + 1].escaped = TRUE
  BY <1>9
<1>11. g[n + 2] = [word |-> word, escaped |-> FALSE]
  BY <1>4, <1>6, <1>8, <1>10, Zenon DEF Q!ShellAt
<1> QED
  BY <1>1, <1>4, <1>11 DEF Taken, longer, g

-----------------------------------------------------------------------------
(***************************************************************************)
(* Reading a field.                                                        *)
(***************************************************************************)
\* How many bytes have been read, and what they mean.
ReadSoFar == Len(Q!TextOf(piece)) - Len(text)
SoFar     == Q!Meant(Q!TextOf(piece))[ReadSoFar]

\* The token is taken for what was read, and the same quotation mark is open.
Understood ==
  /\ quote = SoFar.open
  /\ Taken(mem, SoFar.word)
  /\ phase = "skip" => quote = "none" /\ SoFar.word = <<>>
  /\ phase = "done" => quote = "none" /\ (text = <<>> \/ Q!LeadingBlank)
  /\ phase = "unmatched" => quote # "none" /\ text = <<>>

\* What holds of dequote() after each step, whatever the text.
ReadingField ==
  /\ piece \in Q!Piece
  /\ text \in Seq(Q!Byte) /\ Len(text) <= Len(Q!TextOf(piece))
  /\ \A i \in 1 .. Len(text) : text[i] = Q!TextOf(piece)[ReadSoFar + i]
  /\ phase \in {"skip", "token", "done", "unmatched"}
  /\ quote \in {"none", "'", "\""}
  /\ phase = "token" /\ Len(text) = Len(Q!TextOf(piece)) => ~Q!LeadingBlank
  /\ Consumes
  /\ Understood

\* The last pointer leads to bytes that end.
ArgumentEnds == state = "done" => \E i \in argv[argc] + 1 .. Len(buf) : buf[i] = "nul"

Splitting == CommandLineInv /\ ArgumentEnds /\ mem = <<>> /\ quote = "none"

FieldInv == IF phase = "waiting" THEN Splitting ELSE ReadingField

\* No byte is mistaken for no mark.
LEMMA NotNone == "none" \notin Q!Byte
<1>1. \A b \in Q!Special : Q!Code(b) # "none"
  BY DEF Q!Special, Q!Code
<1> QED
  BY <1>1 DEF Q!Byte, Q!Special, Q!Codes

\* Only the code of a line end becomes one.
LEMMA DecodedEnd ==
  ASSUME NEW b \in Q!Byte, ~Q!whitespace(b), b # Q!Code("\n")
  PROVE  Q!pathdecode(b) # "\n"
<1>1. CASE b \in Q!Codes
  <2>1. \E d \in Q!Special : Q!Code(d) = b
    BY <1>1 DEF Q!Codes
  <2>2. Q!Code(Q!pathdecode(b)) = b
    BY <1>1, <2>1 DEF Q!pathdecode
  <2> QED
    BY <2>2
<1>2. CASE b \notin Q!Codes
  BY <1>2 DEF Q!pathdecode, Q!whitespace
<1> QED
  BY <1>1, <1>2

\* What pathencode() and pathdecode() yield is a byte.
LEMMA Encoding ==
  /\ \A d \in Q!Special : Q!Code(d) \in Q!Codes /\ Q!Code(d) \in Q!Byte /\ d \in Q!Byte
  /\ \A b \in Q!Byte : Q!pathencode(b) \in Q!Byte /\ Q!pathdecode(b) \in Q!Byte
<1>1. \A d \in Q!Special : Q!Code(d) \in Q!Codes /\ Q!Code(d) \in Q!Byte /\ d \in Q!Byte
  BY DEF Q!Codes, Q!Byte
<1>2. ASSUME NEW b \in Q!Byte PROVE Q!pathencode(b) \in Q!Byte
  BY <1>1 DEF Q!pathencode
<1>3. ASSUME NEW b \in Q!Byte PROVE Q!pathdecode(b) \in Q!Byte
  <2>1. CASE b \in Q!Codes
    <3>1. \E d \in Q!Special : Q!Code(d) = b
      BY <2>1 DEF Q!Codes
    <3>2. Q!pathdecode(b) \in Q!Special
      BY <2>1, <3>1 DEF Q!pathdecode
    <3> QED
      BY <1>1, <3>2
  <2>2. CASE b \notin Q!Codes
    BY <2>2 DEF Q!pathdecode
  <2> QED
    BY <2>1, <2>2
<1> QED
  BY <1>1, <1>2, <1>3

\* The text of a piece is made of bytes, one for each byte of the path.
LEMMA PieceText ==
  ASSUME NEW p \in Q!Piece
  PROVE  /\ p.before \in Seq(Q!Byte) /\ p.path \in Seq(Q!Byte) /\ p.after \in Seq(Q!Byte)
         /\ Q!s8pathencode(p.path) \in Seq(Q!Byte)
         /\ Len(Q!s8pathencode(p.path)) = Len(p.path)
         /\ Q!TextOf(p) \in Seq(Q!Byte)
<1>1. p.before \in Seq(Q!Byte) /\ p.path \in Seq(Q!Byte) /\ p.after \in Seq(Q!Byte)
  BY DEF Q!Piece
<1> DEFINE path == p.path
           code == Q!s8pathencode(path)
<1>2. code \in Seq(Q!Byte) /\ Len(code) = Len(path)
  <2>1. path \in Seq(Q!Byte)
    BY <1>1
  <2> HIDE DEF path
  <2>2. code = [i \in 1 .. Len(path) |-> Q!pathencode(path[i])]
    BY <2>1 DEF Q!s8pathencode
  <2>3. \A i \in 1 .. Len(path) : Q!pathencode(path[i]) \in Q!Byte
    BY <2>1, Encoding
  <2> QED
    BY <2>1, <2>2, <2>3
<1>3. Q!TextOf(p) = p.before \o code \o p.after
  BY DEF Q!TextOf
<1> HIDE DEF path, code
<1>4. Q!TextOf(p) \in Seq(Q!Byte)
  BY <1>1, <1>2, <1>3
<1> QED
  BY <1>1, <1>2, <1>4 DEF path, code

\* The meaning of no byte, and of one byte more.
LEMMA MeantFirst ==
  ASSUME NEW p \in Q!Piece
  PROVE  Q!Meant(Q!TextOf(p))[0] = [word |-> <<>>, open |-> "none"]
<1> DEFINE whole == Q!TextOf(p)
<1>1. whole \in Seq(Q!Byte)
  BY PieceText
<1> HIDE DEF whole
<1>2. Len(whole) \in Nat /\ 0 \in 0 .. Len(whole)
  BY <1>1
<1>3. Q!Meant(whole)[0] = Q!MeantAt(whole, Q!Meant(whole), 0)
  BY <1>2, MeantSteps
<1>4. Q!Meant(whole)[0] = [word |-> <<>>, open |-> "none"]
  BY <1>3 DEF Q!MeantAt
<1> QED
  BY <1>4 DEF whole

\* The word and the mark after a byte more.
After(b, word, open) ==
  IF open = "none" /\ b \in {"'", "\""} THEN [word |-> word, open |-> b]
  ELSE IF b = open THEN [word |-> word, open |-> "none"]
  ELSE [word |-> word \o Q!Meaning(b, word, open), open |-> open]

LEMMA MeantNext ==
  ASSUME NEW p \in Q!Piece, NEW n \in Nat, n < Len(Q!TextOf(p))
  PROVE  Q!Meant(Q!TextOf(p))[n + 1] =
           After(Q!TextOf(p)[n + 1], Q!Meant(Q!TextOf(p))[n].word, Q!Meant(Q!TextOf(p))[n].open)
<1> DEFINE whole == Q!TextOf(p)
           meant == Q!Meant(whole)
<1>1. whole \in Seq(Q!Byte) /\ n < Len(whole)
  BY PieceText
<1> HIDE DEF whole
<1>2. Len(whole) \in Nat /\ n + 1 \in 0 .. Len(whole) /\ n + 1 # 0 /\ (n + 1) - 1 = n
  BY <1>1
<1>3. meant[n + 1] = Q!MeantAt(whole, meant, n + 1)
  BY <1>2, MeantSteps
<1> HIDE DEF meant
<1>4. meant[n + 1] = After(whole[n + 1], meant[n].word, meant[n].open)
  BY <1>2, <1>3, Zenon DEF Q!MeantAt, After
<1> QED
  BY <1>4 DEF whole, meant

\* A field from its first byte on.
Afresh ==
  /\ piece \in Q!Piece /\ text = Q!TextOf(piece)
  /\ quote = "none" /\ mem = <<>> /\ phase = "skip"

\* Nothing of it has been read, and nothing has been understood.
LEMMA BeginsField == Afresh => ReadingField
<1> SUFFICES ASSUME Afresh PROVE ReadingField
  OBVIOUS
<1> DEFINE whole == Q!TextOf(piece)
<1>1. /\ piece \in Q!Piece /\ text = whole /\ quote = "none" /\ mem = <<>> /\ phase = "skip"
      /\ whole \in Seq(Q!Byte)
  BY PieceText DEF Afresh
<1>2. SoFar = Q!Meant(whole)[Len(whole) - Len(text)] /\ ReadSoFar = Len(whole) - Len(text)
  BY DEF SoFar, ReadSoFar
<1>3. Q!Meant(whole)[0] = [word |-> <<>>, open |-> "none"]
  BY <1>1, MeantFirst
<1>4. Consumes
  BY <1>1 DEF Consumes, Q!Consumes
<1> HIDE DEF whole
<1>5. ReadSoFar = 0 /\ Len(text) <= Len(whole) /\ Len(text) \in Nat
  BY <1>1, <1>2
<1>6. \A i \in 1 .. Len(text) : text[i] = whole[ReadSoFar + i]
  BY <1>1, <1>5
<1>7. SoFar = [word |-> <<>>, open |-> "none"]
  BY <1>2, <1>3, <1>5
<1>8. SoFar.word = <<>> /\ SoFar.open = "none"
  BY <1>7
<1>9. Understood
  BY <1>1, <1>8, TakenEmpty DEF Understood
<1> QED
  BY <1>1, <1>4, <1>5, <1>6, <1>9 DEF ReadingField, whole

\* FieldInv holds at first, and every step of either part keeps it.
LEMMA InitField == InitPath => FieldInv
<1> SUFFICES ASSUME InitPath PROVE FieldInv
  OBVIOUS
<1>1. CASE Init /\ Waiting
  <2>1. CommandLineInv
    BY <1>1, InitInv
  <2>2. ArgumentEnds
    BY <1>1 DEF Init, Start, ArgumentEnds
  <2> QED
    BY <1>1, <2>1, <2>2 DEF FieldInv, Splitting, Waiting
<1>2. CASE Q!Init
  <2>1. Afresh
    BY <1>2, PiecesAssumption DEF Q!Init, Afresh
  <2> QED
    BY <2>1, BeginsField DEF FieldInv, Afresh
<1> QED
  BY <1>1, <1>2 DEF InitPath

\* Splitting the command line leaves the field alone, and ends each argument.
LEMMA SplitField ==
  ASSUME FieldInv, Split PROVE FieldInv'
<1>1. /\ phase = "waiting" /\ Step /\ CommandLineInv /\ ArgumentEnds /\ mem = <<>> /\ quote = "none"
      /\ phase' = phase /\ mem' = mem /\ quote' = quote
  BY DEF FieldInv, Splitting, Split, fieldvars
<1>2. CommandLineInv'
  BY <1>1, StepInv DEF Next
<1>3. ArgumentEnds'
  <2>1. CASE Finish
    <3>1. buf' = Terminated /\ argv' = argv /\ argc' = argc
      BY <2>1 DEF Finish, argc
    <3>2. /\ buf \in Seq(Byte) /\ argv \in Seq(Nat) /\ argc \in Nat /\ argc >= 1
          /\ argv[argc] \in Nat /\ argv[argc] <= Len(buf)
      BY <1>1 DEF CommandLineInv, TypeOK, SlashBound, argc
    <3> DEFINE bytes == buf \o Ended
               n == Len(buf) + 1
    <3>3. bytes \in Seq(Byte) /\ Len(bytes) = n /\ bytes[n] = "nul"
      BY <3>2 DEF Ended, Byte
    <3>4. \/ Terminated = bytes
          \/ Terminated = [i \in DOMAIN bytes |-> IF i <= PtrBytes THEN "nul" ELSE bytes[i]]
      BY DEF Terminated
    <3> HIDE DEF bytes
    <3>5. Terminated[n] = "nul" /\ Len(Terminated) = n
      <4>1. n \in Nat /\ DOMAIN bytes = 1 .. n /\ n \in 1 .. n
        BY <3>2, <3>3
      <4>2. CASE Terminated = bytes
        BY <3>3, <4>2, Zenon
      <4>3. CASE Terminated = [i \in DOMAIN bytes |-> IF i <= PtrBytes THEN "nul" ELSE bytes[i]]
        <5>1. Terminated[n] = "nul"
          BY <3>3, <4>1, <4>3, Zenon
        <5>2. DOMAIN Terminated = 1 .. n
          BY <4>1, <4>3, Zenon
        <5>3. Len(Terminated) = n
          BY <4>1, <4>3, <5>2
        <5> QED
          BY <5>1, <5>3
      <4> QED
        BY <3>4, <4>2, <4>3, Zenon
    <3>6. n \in argv[argc] + 1 .. n
      BY <3>2
    <3>7. n \in argv'[argc'] + 1 .. Len(buf') /\ buf'[n] = "nul"
      BY <3>1, <3>5, <3>6
    <3> QED
      BY <3>7 DEF ArgumentEnds
  <2>2. CASE Step /\ ~Finish
    <3>1. state # "done" /\ state' # "done"
      BY <2>2 DEF Step, EndArgument, BeginProgram, SkipBlank, OpenArgument, Copy, OpenQuote,
                  CloseQuote, Closing, FirstSlash, MoreSlashes, EndSlashesQuote, EndSlashes,
                  More, Uses, Unreads, Around
    <3> QED
      BY <3>1 DEF ArgumentEnds
  <2> QED
    BY <1>1, <2>1, <2>2
<1> QED
  BY <1>1, <1>2, <1>3 DEF FieldInv, Splitting

\* The argument becomes a path as it is cut out of the command line.
LEMMA PassOnField ==
  ASSUME FieldInv, PassOn PROVE FieldInv'
<1>1. /\ phase = "waiting" /\ state = "done" /\ argc > 1
      /\ text' = Q!TextOf(piece') /\ phase' = "skip" /\ quote' = quote /\ mem' = mem
  BY DEF PassOn
<1>2. CommandLineInv /\ ArgumentEnds /\ mem = <<>> /\ quote = "none"
  BY <1>1 DEF FieldInv, Splitting
<1>3. PICK context \in Q!Around :
        piece' = [before |-> context[1], path |-> Directory, after |-> context[2]]
  BY DEF PassOn
<1>4. context[1] \in Seq(Q!Byte) /\ context[2] \in Seq(Q!Byte)
  <2>1. "a" \in Q!Byte /\ "'" \in Q!Byte /\ "\"" \in Q!Byte
    BY DEF Q!Byte
  <2> DEFINE bare == <<"a">>
             double == <<"\"">>
             before == <<"a", "'">>
             after == <<"'", "a">>
  <2>5. bare \in Seq(Q!Byte) /\ double \in Seq(Q!Byte)
    <3>1. \A b \in Q!Byte : <<b>> \in Seq(Q!Byte)
      OBVIOUS
    <3> QED
      BY <2>1, <3>1, Zenon
  <2>6. before \in Seq(Q!Byte) /\ after \in Seq(Q!Byte)
    <3>1. \A b, d \in Q!Byte : <<b, d>> \in Seq(Q!Byte)
      OBVIOUS
    <3> QED
      BY <2>1, <3>1, Zenon
  <2> HIDE DEF bare, double, before, after
  <2>2. CASE context = <<bare, bare>>
    BY <2>5, <2>2
  <2>3. CASE context = <<double, double>>
    BY <2>5, <2>3
  <2>4. CASE context = <<before, after>>
    BY <2>6, <2>4
  <2> QED
    BY <1>3, <2>2, <2>3, <2>4, Zenon DEF Q!Around, bare, double, before, after
<1>5. Directory \in Seq(Q!Byte)
  <2> DEFINE arg == Argument(argc)
             byte(r) == CASE r = "space" -> " " [] r = "tab" -> "\t"
                          [] r = "backslash" -> "\\" [] OTHER -> "a"
  <2>1. buf \in Seq(Byte) /\ argv \in Seq(Nat) /\ argc \in Nat /\ argv[argc] \in 0 .. Len(buf)
    <3>1. /\ buf \in Seq(Byte) /\ argv \in Seq(Nat)
          /\ argc \in 1 .. Len(argv) /\ argv[argc] <= Len(buf)
      BY <1>2 DEF CommandLineInv, TypeOK, SlashBound, argc
    <3> QED
      BY <3>1
  <2>2. \E i \in argv[argc] + 1 .. Len(buf) : buf[i] = "nul"
    BY <1>1, <1>2 DEF ArgumentEnds
  <2>3. arg \in Seq(Byte)
    BY <2>1, <2>2, CStringKept DEF Argument
  <2> HIDE DEF arg
  <2>4. \A r : byte(r) \in Q!Byte
    BY DEF Q!Byte, Q!Special
  <2>5. Directory = [i \in DOMAIN arg |-> byte(arg[i])]
    BY DEF Directory, arg
  <2> HIDE DEF byte
  <2> QED
    BY <2>3, <2>4, <2>5
<1>6. piece' \in Q!Piece
  BY <1>3, <1>4, <1>5 DEF Q!Piece
<1>7. Afresh'
  BY <1>1, <1>2, <1>6 DEF Afresh
<1>8. ReadingField'
  <2>1. Afresh' => ReadingField'
    BY BeginsField, PTL
  <2> QED
    BY <1>7, <2>1
<1> QED
  BY <1>1, <1>8 DEF FieldInv

(***************************************************************************)
(* The byte that is read, the text that is left, and what has been read    *)
(* with it.                                                                *)
(***************************************************************************)
LEMMA NextByte ==
  ASSUME ReadingField, text # <<>>, text' = Tail(text), piece' = piece
  PROVE  /\ text' \in Seq(Q!Byte) /\ Len(text') < Len(Q!TextOf(piece))
         /\ \A i \in 1 .. Len(text') : text'[i] = Q!TextOf(piece')[ReadSoFar' + i]
         /\ Head(text) \in Q!Byte /\ Q!c \in Q!Byte
         /\ Q!c = IF Q!whitespace(Head(text)) THEN " " ELSE Head(text)
         /\ SoFar' = After(Head(text), SoFar.word, SoFar.open)
<1> DEFINE whole == Q!TextOf(piece)
           n == ReadSoFar
           b == Head(text)
<1>1. /\ piece \in Q!Piece /\ text \in Seq(Q!Byte) /\ Len(text) <= Len(whole)
      /\ \A i \in 1 .. Len(text) : text[i] = whole[n + i]
  BY DEF ReadingField
<1>2. whole \in Seq(Q!Byte) /\ Q!TextOf(piece') = whole
  BY <1>1, PieceText
<1>3. n = Len(whole) - Len(text) /\ ReadSoFar' = Len(whole) - Len(text')
  BY <1>2 DEF ReadSoFar
<1>4. SoFar = Q!Meant(whole)[n] /\ SoFar' = Q!Meant(whole)[ReadSoFar']
  BY <1>2 DEF SoFar
<1>5. n \in Nat /\ n < Len(whole) => Q!Meant(whole)[n + 1] =
        After(whole[n + 1], Q!Meant(whole)[n].word, Q!Meant(whole)[n].open)
  BY <1>1, MeantNext
<1>7. Q!c = (IF Q!whitespace(b) THEN " " ELSE b) /\ " " \in Q!Byte
  BY DEF Q!c, Q!Byte, Q!Special
<1> HIDE DEF whole, n
<1>8. /\ b \in Q!Byte /\ b = text[1] /\ Len(text) \in Nat /\ Len(text) >= 1
      /\ text' \in Seq(Q!Byte) /\ Len(text') = Len(text) - 1
      /\ \A i \in 1 .. Len(text') : text'[i] = text[i + 1]
  BY <1>1
<1>9. /\ n \in Nat /\ n < Len(whole) /\ n + 1 \in 1 .. Len(whole) /\ ReadSoFar' = n + 1
      /\ Len(text') < Len(whole) /\ 1 \in 1 .. Len(text)
  BY <1>1, <1>2, <1>3, <1>8
<1>10. b = whole[n + 1]
  BY <1>1, <1>8, <1>9
<1>11. ASSUME NEW i \in 1 .. Len(text') PROVE text'[i] = whole[(n + 1) + i]
  <2>1. i + 1 \in 1 .. Len(text) /\ n + (i + 1) = (n + 1) + i
    BY <1>8, <1>9
  <2>2. text[i + 1] = whole[n + (i + 1)]
    BY <1>1, <2>1, Zenon
  <2> QED
    BY <1>8, <2>1, <2>2
<1>12. SoFar' = After(b, SoFar.word, SoFar.open)
  BY <1>4, <1>5, <1>9, <1>10
<1>14. Q!c \in Q!Byte
  BY <1>7, <1>8
<1> HIDE DEF b
<1>15. \A i \in 1 .. Len(text') : text'[i] = Q!TextOf(piece')[ReadSoFar' + i]
  BY <1>2, <1>9, <1>11
<1>16. b \in Q!Byte /\ Len(text') < Len(whole) /\ text' \in Seq(Q!Byte)
  BY <1>8, <1>9
<1> QED
  BY <1>7, <1>12, <1>14, <1>15, <1>16 DEF whole, b

\* Appending is concatenating.
LEMMA Added ==
  ASSUME NEW B, NEW x \in Seq(B), NEW e \in B
  PROVE  Append(x, e) = x \o <<e>>
OBVIOUS

\* Escape and Keep write what the byte means.
LEMMA ByteUnderstood ==
  ASSUME ReadingField, Understood, text # <<>>, NEW b \in Q!Byte, b # Q!Code("\n"),
         Q!c = IF Q!whitespace(b) THEN " " ELSE b,
         quote \in {"none", "'", "\""},
         \/ Q!Escapes /\ (Q!Quoted \/ Q!Bare) /\ mem' = mem \o <<"\\", Q!pathdecode(Q!c)>>
         \/ ~Q!Escapes /\ (Q!Quoted \/ (Q!Bare /\ Q!c # " ")) /\ mem' = Append(mem, Q!c)
  PROVE  /\ After(b, SoFar.word, SoFar.open).open = quote
         /\ Taken(mem', After(b, SoFar.word, SoFar.open).word)
<1> DEFINE word == SoFar.word
           value == IF Q!whitespace(b) THEN " "
                    ELSE IF b \in {"$", "(", ")", ";"} \/ (b = "~" /\ word = <<>>) THEN "active"
                    ELSE Q!pathdecode(b)
           x == IF Q!whitespace(b) THEN " " ELSE Q!pathdecode(b)
<1>1. quote = SoFar.open /\ Taken(mem, word)
  BY DEF Understood
<1>2. b # "none" /\ Q!pathdecode(b) \in Q!Byte /\ " " \in Q!Byte
  BY NotNone, Encoding DEF Q!Byte, Q!Special
<1>3. /\ " " \notin Q!Codes /\ ~Q!shellmeta(" ") /\ Q!pathdecode(" ") = " "
      /\ \A d \in {"$", "(", ")", ";", "~", "a"} : d \notin Q!Codes
  BY DEF Q!Codes, Q!Special, Q!Code, Q!shellmeta, Q!pathdecode
<1>4. /\ ~(quote = "none" /\ b \in {"'", "\""}) /\ b # quote
      /\ Q!whitespace(b) => quote # "none"
  <2>1. CASE Q!whitespace(b)
    <3>1. Q!c = " " /\ b \notin {"'", "\"", "none"}
      BY <2>1 DEF Q!whitespace
    <3>2. quote # "none"
      BY <1>3, <3>1 DEF Q!Escapes, Q!Quoted, Q!Bare
    <3> QED
      BY <3>1, <3>2
  <2>2. CASE ~Q!whitespace(b)
    BY <1>2, <2>2 DEF Q!Quoted, Q!Bare
  <2> QED
    BY <2>1, <2>2
<1>5. Q!Meaning(b, word, quote) = <<value>>
  BY <1>4 DEF Q!Meaning
<1>6. After(b, word, quote) = [word |-> word \o <<value>>, open |-> quote]
  BY <1>4, <1>5, Zenon DEF After
<1>7. x \in Q!Byte /\ x # "\n"
  BY <1>2, DecodedEnd
<1> DEFINE more == IF Q!Escapes THEN <<"\\", x>> ELSE <<x>>
<1>8. Taken(mem \o more, Append(word, value)) /\ mem' = mem \o more
  <2>1. CASE Q!Escapes
    <3>1. Q!pathdecode(Q!c) = x
      BY <1>3
    <3>2. value = x
      <4>1. ~Q!whitespace(b) => b \notin {"$", "(", ")", ";", "~"}
        BY <1>3, <2>1 DEF Q!Escapes, Q!shellmeta, Q!whitespace
      <4> QED
        BY <4>1
    <3>3. Taken(mem \o <<"\\", x>>, Append(word, value))
      <4> HIDE DEF x, value, word
      <4> QED
        BY <1>1, <1>7, <3>2, TakenGrows
    <3> QED
      BY <2>1, <3>1, <3>3
  <2>2. CASE ~Q!Escapes
    <3>1. Q!c # " " /\ Q!c = b /\ ~Q!whitespace(b) /\ ~Q!shellmeta(b)
      BY <2>2 DEF Q!Escapes
    <3>2. b \in {"$", "(", ")", ";", "~", "a"}
      BY <3>1 DEF Q!shellmeta, Q!whitespace, Q!Byte, Q!Special
    <3>3. Q!pathdecode(b) = b /\ x = b
      BY <1>3, <3>1, <3>2 DEF Q!pathdecode
    <3>4. x # "\\" /\ value = Q!AsWritten(x, word)
      BY <3>1, <3>2, <3>3 DEF Q!AsWritten, Q!ShellActive
    <3>5. Taken(mem \o <<x>>, Append(word, value))
      <4> HIDE DEF x, value, word
      <4> QED
        BY <1>1, <1>7, <3>4, TakenGrows
    <3>6. mem' = mem \o <<x>>
      <4>1. mem \in Seq(Q!Byte) /\ mem' = Append(mem, x)
        BY <1>1, <2>2, <3>1, <3>3 DEF Taken
      <4> HIDE DEF x
      <4> QED
        BY <1>7, <4>1, Added
    <3> QED
      BY <2>2, <3>5, <3>6
  <2> QED
    BY <2>1, <2>2
<1>9. word \o <<value>> = Append(word, value)
  <2>1. word \in Seq(Shelled)
    BY <1>1 DEF Taken
  <2>2. value \in Shelled
    BY <1>2 DEF Shelled
  <2> HIDE DEF word, value
  <2> QED
    BY <2>1, <2>2, Added
<1> HIDE DEF value, word, more
<1>10. /\ After(b, word, quote).open = quote
       /\ After(b, word, quote).word = Append(word, value)
  <2> DEFINE r == After(b, word, quote)
             longer == Append(word, value)
  <2>1. r = [word |-> longer, open |-> quote]
    BY <1>6, <1>9
  <2> HIDE DEF r, longer
  <2>2. r.open = quote /\ r.word = longer
    BY <2>1
  <2> QED
    BY <2>2 DEF r, longer
<1> QED
  BY <1>1, <1>8, <1>10 DEF word

\* Nothing behind a sequence, and nothing in front of one byte.
LEMMA NothingMore ==
  /\ \A s \in Seq(Shelled) : s \o <<>> = s
  /\ <<>> \o <<"a">> = <<"a">>
<1>1. \A s \in Seq(Shelled) : s \o <<>> = s
  OBVIOUS
<1>2. <<>> \o <<"a">> = <<"a">>
  OBVIOUS
<1> QED
  BY <1>1, <1>2

\* But the code of a line end means nothing, and Escape writes nothing to a shell.
LEMMA EndUnderstood ==
  ASSUME ReadingField, text # <<>>, NEW b, b = Q!Code("\n"),
         Q!c = IF Q!whitespace(b) THEN " " ELSE b,
         \/ Q!Escapes /\ mem' = mem \o <<"\\", Q!pathdecode(Q!c)>>
         \/ ~Q!Escapes
  PROVE  /\ After(b, SoFar.word, SoFar.open).open = quote
         /\ Taken(mem', After(b, SoFar.word, SoFar.open).word)
<1> DEFINE word == SoFar.word
<1>1. quote = SoFar.open /\ Taken(mem, word) /\ quote \in {"none", "'", "\""}
  BY DEF ReadingField, Understood
<1>2. "\n" \in Q!Special /\ \A d \in Q!Special : Q!Code(d) = Q!Code("\n") => d = "\n"
  BY DEF Q!Special, Q!Code
<1>3. b \in Q!Codes /\ Q!pathdecode(b) = "\n"
  <2>1. b \in Q!Codes
    BY <1>2 DEF Q!Codes
  <2> QED
    BY <1>2, <2>1 DEF Q!pathdecode
<1>4. ~Q!whitespace(b) /\ b \notin {"none", "'", "\""}
  BY DEF Q!whitespace, Q!Code
<1>5. mem' = mem \o <<"\\", "\n">>
  <2>1. Q!c = b
    BY <1>4
  <2>2. Q!Escapes
    BY <1>3, <2>1 DEF Q!Escapes, Q!shellmeta
  <2> QED
    BY <1>3, <2>1, <2>2
<1>6. After(b, word, quote) = [word |-> word, open |-> quote]
  <2>1. word \in Seq(Shelled)
    BY <1>1 DEF Taken
  <2>2. word \o <<>> = word
    BY <2>1, NothingMore
  <2>3. Q!Meaning(b, word, quote) = <<>>
    BY DEF Q!Meaning
  <2>4. ~(quote = "none" /\ b \in {"'", "\""}) /\ b # quote
    BY <1>1, <1>4
  <2> QED
    BY <2>2, <2>3, <2>4, Zenon DEF After
<1>7. After(b, word, quote).open = quote /\ After(b, word, quote).word = word
  <2> DEFINE r == After(b, word, quote)
  <2>1. r = [word |-> word, open |-> quote]
    BY <1>6
  <2> HIDE DEF r, word
  <2>2. r.open = quote /\ r.word = word
    BY <2>1
  <2> QED
    BY <2>2 DEF r
<1> HIDE DEF word
<1>8. Taken(mem', word)
  BY <1>1, <1>5, TakenNothing
<1> QED
  BY <1>1, <1>7, <1>8 DEF word

\* The first byte, and how many there are.
LEMMA Sized ==
  ASSUME NEW B, NEW s \in Seq(B)
  PROVE  Len(s) \in Nat /\ (s # <<>> => Head(s) \in B /\ Len(s) > 0)
OBVIOUS

LEMMA Fewer == \A m, n \in Nat : m < n => m <= n /\ m # n
OBVIOUS

\* Nothing changes when nothing is read, but for what the phase demands.
LEMMA FieldKept ==
  ASSUME ReadingField, piece' = piece, text' = text, quote' = quote, mem' = mem, phase' = phase
  PROVE  ReadingField'
<1>1. /\ ReadSoFar' = ReadSoFar /\ SoFar' = SoFar
      /\ Q!LeadingBlank' <=> Q!LeadingBlank
  BY DEF ReadSoFar, SoFar, Q!LeadingBlank
<1>2. Understood'
  BY <1>1 DEF ReadingField, Understood
<1>3. Consumes'
  BY DEF ReadingField, Consumes, Q!Consumes
<1> QED
  BY <1>1, <1>2, <1>3 DEF ReadingField

\* The text of a field is finite.
LEMMA FieldSized ==
  ASSUME ReadingField
  PROVE  Len(Q!TextOf(piece)) \in Nat /\ Len(text) \in Nat /\ Q!TextOf(piece) \in Seq(Q!Byte)
<1> DEFINE whole == Q!TextOf(piece)
<1>1. whole \in Seq(Q!Byte) /\ text \in Seq(Q!Byte)
  BY PieceText DEF ReadingField
<1> HIDE DEF whole
<1>2. Len(whole) \in Nat /\ Len(text) \in Nat
  BY <1>1
<1> QED
  BY <1>1, <1>2 DEF whole

\* A byte is read, and what it means is understood.
LEMMA ByteField ==
  ASSUME ReadingField, text # <<>>, text' = Tail(text), piece' = piece,
         phase' \in {"skip", "token"},
         quote' \in {"none", "'", "\""},
         Understood =>
           /\ quote' = After(Head(text), SoFar.word, SoFar.open).open
           /\ Taken(mem', After(Head(text), SoFar.word, SoFar.open).word)
           /\ phase' = "skip" =>
                quote' = "none" /\ After(Head(text), SoFar.word, SoFar.open).word = <<>>
  PROVE  ReadingField'
<1> DEFINE size == Len(Q!TextOf(piece))
<1>1. /\ text' \in Seq(Q!Byte) /\ Len(text') < size
      /\ \A i \in 1 .. Len(text') : text'[i] = Q!TextOf(piece')[ReadSoFar' + i]
      /\ SoFar' = After(Head(text), SoFar.word, SoFar.open)
  BY NextByte
<1>2. size \in Nat /\ Q!TextOf(piece') = Q!TextOf(piece)
  BY FieldSized
<1>3. Consumes'
  BY DEF Consumes, Q!Consumes
<1>4. Understood'
  <2>1. Understood
    BY DEF ReadingField
  <2> QED
    BY <1>1, <2>1, Zenon DEF Understood
<1>5. Len(text') <= size /\ Len(text') # size
  <2>1. Len(text') \in Nat
    BY <1>1, Sized
  <2> QED
    BY <1>1, <1>2, <2>1, Fewer, Zenon
<1>6. piece' \in Q!Piece
  BY DEF ReadingField
<1> QED
  BY <1>1, <1>2, <1>3, <1>4, <1>5, <1>6 DEF ReadingField

\* Each step of dequote() keeps FieldInv.
LEMMA DequoteField ==
  ASSUME FieldInv, Dequote PROVE FieldInv'
<1>1. phase # "waiting" /\ piece' = piece /\ phase' # "waiting"
  BY DEF Dequote, Q!Next, Q!SkipBlank, Q!StartToken, Q!OpenQuote, Q!CloseQuote, Q!Escape,
         Q!Keep, Q!Break, Q!End, Q!Stopped, Q!Reads, Q!vars
<1>2. ReadingField
  BY <1>1 DEF FieldInv
<1> SUFFICES ReadingField'
  BY <1>1 DEF FieldInv
<1> DEFINE size == Len(Q!TextOf(piece))
           b == Head(text)
<1>3. /\ piece \in Q!Piece /\ text \in Seq(Q!Byte) /\ Len(text) <= size
      /\ \A i \in 1 .. Len(text) : text[i] = Q!TextOf(piece)[ReadSoFar + i]
      /\ phase \in {"skip", "token", "done", "unmatched"}
      /\ quote \in {"none", "'", "\""}
      /\ phase = "token" /\ Len(text) = size => ~Q!LeadingBlank
      /\ Understood
  BY <1>2 DEF ReadingField
<1>4. size \in Nat /\ Len(text) \in Nat /\ Q!TextOf(piece) \in Seq(Q!Byte)
  BY <1>2, FieldSized
<1>5. text # <<>> => /\ b \in Q!Byte /\ b # "none"
                     /\ Q!c = IF Q!whitespace(b) THEN " " ELSE b
  <2>1. text # <<>> => b \in Q!Byte
    BY <1>3, Sized
  <2> QED
    BY <2>1, NotNone DEF Q!c
<1> HIDE DEF size
<1>7. ASSUME /\ text' = text /\ quote' = quote /\ mem' = mem
             /\ phase' \in {"token", "done", "unmatched"}
             /\ phase' = "token" /\ Len(text) = size => ~Q!LeadingBlank
             /\ phase' = "done" /\ Q!TextOf(piece) # <<>> => Len(text) < size
             /\ phase' = "done" => quote = "none" /\ (text = <<>> \/ Q!LeadingBlank)
             /\ phase' = "unmatched" => quote # "none" /\ text = <<>>
      PROVE  ReadingField'
  <2>1. /\ ReadSoFar' = ReadSoFar /\ SoFar' = SoFar
        /\ Q!LeadingBlank' <=> Q!LeadingBlank
        /\ Q!TextOf(piece') = Q!TextOf(piece)
    BY <1>1, <1>7 DEF ReadSoFar, SoFar, Q!LeadingBlank
  <2>2. Understood'
    BY <1>3, <1>7, <2>1 DEF Understood
  <2>3. Consumes'
    BY <1>1, <1>7, <2>1 DEF Consumes, Q!Consumes, size
  <2> QED
    BY <1>1, <1>3, <1>7, <2>1, <2>2, <2>3 DEF ReadingField, size
<1> HIDE DEF b
<1>8. CASE Q!SkipBlank
  <2>1. /\ text # <<>> /\ text' = Tail(text) /\ quote' = quote /\ mem' = mem
        /\ phase' = "skip" /\ phase = "skip" /\ Q!whitespace(b)
    BY <1>8 DEF Q!SkipBlank, Q!LeadingBlank, b
  <2>2. Understood => After(b, SoFar.word, SoFar.open) = [word |-> <<>>, open |-> "none"]
    <3> SUFFICES ASSUME Understood PROVE After(b, <<>>, "none") = [word |-> <<>>, open |-> "none"]
      BY <2>1 DEF Understood
    <3>1. b \notin {"'", "\"", "none"} /\ Q!Meaning(b, <<>>, "none") = <<>>
      BY <2>1 DEF Q!whitespace, Q!Meaning
    <3>2. <<>> \o <<>> = <<>>
      OBVIOUS
    <3> QED
      BY <3>1, <3>2, Zenon DEF After
  <2>3. Understood => /\ quote' = "none" /\ Taken(mem', <<>>)
                      /\ After(b, SoFar.word, SoFar.open).word = <<>>
                      /\ After(b, SoFar.word, SoFar.open).open = "none"
    BY <2>1, <2>2 DEF Understood
  <2> QED
    BY <1>1, <1>2, <1>3, <2>1, <2>3, ByteField DEF b
<1>9. CASE Q!StartToken
  <2>1. text' = text /\ quote' = quote /\ mem' = mem /\ phase' = "token" /\ ~Q!LeadingBlank
    BY <1>9 DEF Q!StartToken
  <2> QED
    BY <1>7, <2>1
<1>10. CASE Q!OpenQuote
  <2>1. /\ text # <<>> /\ text' = Tail(text) /\ mem' = mem /\ phase' = "token"
        /\ quote = "none" /\ Q!c \in {"'", "\""} /\ quote' = Q!c
    BY <1>1, <1>10 DEF Q!OpenQuote, Q!Reads
  <2>2. Q!c = b
    BY <1>5, <2>1
  <2>3. Understood => After(b, SoFar.word, SoFar.open) = [word |-> SoFar.word, open |-> b]
    BY <2>1, <2>2 DEF Understood, After
  <2>4. Understood => /\ quote' = After(b, SoFar.word, SoFar.open).open
                      /\ Taken(mem', After(b, SoFar.word, SoFar.open).word)
    <3> DEFINE r == After(b, SoFar.word, SoFar.open)
    <3> HIDE DEF r
    <3>1. Understood => r.word = SoFar.word /\ r.open = b
      BY <2>3 DEF r
    <3> QED
      BY <2>1, <2>2, <3>1 DEF Understood, r
  <2>5. quote' \in {"none", "'", "\""}
    BY <2>1
  <2> QED
    BY <1>1, <1>2, <2>1, <2>4, <2>5, ByteField DEF b
<1>11. CASE Q!CloseQuote
  <2>1. /\ text # <<>> /\ text' = Tail(text) /\ mem' = mem /\ phase' = "token"
        /\ quote = Q!c /\ quote' = "none"
    BY <1>1, <1>11 DEF Q!CloseQuote, Q!Reads
  <2>2. Q!c = b /\ quote # "none"
    BY <1>3, <1>5, <2>1
  <2>3. Understood => After(b, SoFar.word, SoFar.open) = [word |-> SoFar.word, open |-> "none"]
    BY <2>1, <2>2 DEF Understood, After
  <2>4. Understood => /\ quote' = After(b, SoFar.word, SoFar.open).open
                      /\ Taken(mem', After(b, SoFar.word, SoFar.open).word)
    BY <2>1, <2>3 DEF Understood
  <2>5. quote' \in {"none", "'", "\""}
    BY <2>1
  <2> QED
    BY <1>1, <1>2, <2>1, <2>4, <2>5, ByteField DEF b
<1>12. CASE Q!Escape \/ Q!Keep
  <2>1. /\ text # <<>> /\ text' = Tail(text) /\ quote' = quote /\ phase' = "token"
        /\ \/ Q!Escapes /\ (Q!Quoted \/ Q!Bare) /\ mem' = mem \o <<"\\", Q!pathdecode(Q!c)>>
           \/ ~Q!Escapes /\ (Q!Quoted \/ (Q!Bare /\ Q!c # " ")) /\ mem' = Append(mem, Q!c)
    BY <1>1, <1>12 DEF Q!Escape, Q!Keep, Q!Reads
  <2>2. /\ quote = After(b, SoFar.word, SoFar.open).open
        /\ Taken(mem', After(b, SoFar.word, SoFar.open).word)
    <3>1. CASE b = Q!Code("\n")
      BY <1>2, <1>5, <2>1, <3>1, EndUnderstood
    <3>2. CASE b # Q!Code("\n")
      BY <1>2, <1>3, <1>5, <2>1, <3>2, ByteUnderstood
    <3> QED
      BY <3>1, <3>2
  <2> QED
    BY <1>1, <1>2, <1>3, <2>1, <2>2, ByteField DEF b
<1>13. CASE Q!Break
  <2>1. /\ phase = "token" /\ text # <<>> /\ Q!c = " " /\ quote = "none"
        /\ text' = text /\ quote' = quote /\ mem' = mem /\ phase' = "done"
    BY <1>13 DEF Q!Break, Q!Bare
  <2>2. Q!LeadingBlank
    BY <2>1 DEF Q!LeadingBlank, Q!c, Q!whitespace
  <2>3. Len(text) < size
    <3>1. Len(text) # size /\ Len(text) <= size
      BY <1>3, <2>1, <2>2
    <3> QED
      BY <1>4, <3>1
  <2> QED
    BY <1>7, <2>1, <2>2, <2>3
<1>14. CASE Q!End
  <2>1. /\ text = <<>> /\ text' = text /\ quote' = quote /\ mem' = mem
        /\ phase' = IF quote = "none" THEN "done" ELSE "unmatched"
    BY <1>14 DEF Q!End
  <2>2. Q!TextOf(piece) # <<>> => Len(text) < size
    <3> DEFINE whole == Q!TextOf(piece)
    <3>1. whole \in Seq(Q!Byte) /\ size = Len(whole)
      BY <1>4 DEF size
    <3> HIDE DEF whole
    <3>2. whole # <<>> => 0 < Len(whole)
      BY <3>1, EmptySeq
    <3>3. Len(text) = 0
      BY <2>1
    <3> QED
      BY <3>1, <3>2, <3>3 DEF whole
  <2>3. ~Q!LeadingBlank
    BY <2>1 DEF Q!LeadingBlank
  <2> QED
    BY <1>7, <2>1, <2>2, <2>3
<1>15. CASE Q!Stopped
  BY <1>2, <1>15, FieldKept DEF Q!Stopped, Q!vars
<1> QED
  BY <1>8, <1>9, <1>10, <1>11, <1>12, <1>13, <1>14, <1>15 DEF Dequote, Q!Next

\* No step of either part breaks FieldInv.
LEMMA NextField == FieldInv /\ [NextPath]_pathvars => FieldInv'
<1> SUFFICES ASSUME FieldInv, [NextPath]_pathvars PROVE FieldInv'
  OBVIOUS
<1>1. CASE UNCHANGED pathvars
  <2>1. /\ UNCHANGED vars /\ piece' = piece /\ text' = text /\ quote' = quote
        /\ mem' = mem /\ phase' = phase
    BY <1>1 DEF pathvars, fieldvars
  <2>2. CASE phase = "waiting"
    <3>1. CommandLineInv /\ ArgumentEnds /\ mem = <<>> /\ quote = "none"
      BY <2>2 DEF FieldInv, Splitting
    <3>2. CommandLineInv'
      BY <2>1, <3>1, StepInv
    <3>3. ArgumentEnds'
      BY <2>1, <3>1 DEF ArgumentEnds, vars, argc
    <3> QED
      BY <2>1, <2>2, <3>1, <3>2, <3>3 DEF FieldInv, Splitting
  <2>3. CASE phase # "waiting"
    <3>1. ReadingField
      BY <2>3 DEF FieldInv
    <3>2. ReadingField'
      BY <2>1, <3>1, FieldKept
    <3> QED
      BY <2>1, <2>3, <3>2 DEF FieldInv
  <2> QED
    BY <2>2, <2>3
<1>2. CASE Split
  BY <1>2, SplitField
<1>3. CASE PassOn
  BY <1>3, PassOnField
<1>4. CASE Dequote
  BY <1>4, DequoteField
<1>5. CASE NoPath
  BY <1>1, <1>5 DEF NoPath
<1> QED
  BY <1>1, <1>2, <1>3, <1>4, <1>5 DEF NextPath

(***************************************************************************)
(* Whatever the text of a field, and whatever path a variable in it holds, *)
(* a shell takes the token for what the bytes mean that dequote() read:    *)
(* the backslashes shield neither too little nor too much, within          *)
(* quotation marks, outside of them, and in encoded paths.                 *)
(***************************************************************************)
THEOREM TokenMeaningCorrect == SpecPath => []TokenMeaning
<1>1. FieldInv => TokenMeaning
  <2> SUFFICES ASSUME FieldInv, phase # "waiting"
               PROVE  /\ phase = "done" =>
                           /\ Q!Evaluated(mem) = SoFar.word /\ SoFar.open = "none"
                           /\ text = <<>> \/ Q!LeadingBlank
                      /\ phase = "unmatched" => text = <<>> /\ SoFar.open # "none"
    BY DEF TokenMeaning, Q!TokenMeaning, SoFar, ReadSoFar
  <2>1. Understood
    BY DEF FieldInv, ReadingField
  <2> QED
    BY <2>1, TakenEvaluated DEF Understood
<1> QED
  BY <1>1, InitField, NextField, PTL DEF SpecPath

(***************************************************************************)
(* dequote() takes something off any text that is not empty, so that the   *)
(* loop over the tokens of a field ends whatever the field.                *)
(***************************************************************************)
THEOREM ConsumesCorrect == SpecPath => []Consumes
<1>1. FieldInv => Consumes
  BY DEF FieldInv, ReadingField, Consumes, Q!Consumes
<1> QED
  BY <1>1, InitField, NextField, PTL DEF SpecPath

-----------------------------------------------------------------------------
(***************************************************************************)
(* A path in one of the contexts.  It has none of the bytes that do harm:  *)
(* quotation marks, which pathencode() leaves alone, semicolons, which     *)
(* shellmeta() does not know, line ends, which a shell removes, and a "~"  *)
(* in front of the word.  Nor does it have any of the bytes that           *)
(* pathencode() puts in the place of others (no UTF-8 text does).          *)
(***************************************************************************)
PlainByte == Q!Byte \ (Q!Codes \cup {"'", "\"", ";", "\n"})

InFront == piece.before = <<"\"">> /\ Len(piece.path) > 0 /\ piece.path[1] = "~"

Plain == (\A i \in DOMAIN piece.path : piece.path[i] \in PlainByte) /\ ~InFront

InContext == <<piece.before, piece.after>> \in Q!Around

\* The quotation mark around the path.
Mark == IF piece.before = <<"\"">> THEN "\""
        ELSE IF piece.before = <<"a", "'">> THEN "'" ELSE "none"

\* How many bytes come before the path, and before what is behind it.
PathAt  == Len(piece.before)
AfterAt == Len(piece.before) + Len(piece.path)

Path   == piece.path
Begun  == Q!Literally(piece.before)
Ending == Q!Literally(piece.after)

\* What the first n bytes of the text mean.
Expected(n) ==
  IF n < PathAt THEN [word |-> IF n = 0 THEN <<>> ELSE Begun, open |-> "none"]
  ELSE IF n <= AfterAt THEN [word |-> Begun \o SubSeq(Path, 1, n - PathAt), open |-> Mark]
  ELSE [word |-> (Begun \o Path) \o (IF n = Len(Q!TextOf(piece)) THEN Ending ELSE <<>>),
        open |-> "none"]

\* Encoded, a byte is neither a blank nor a quotation mark, and is decoded to itself.
LEMMA DecodedIs ==
  ASSUME NEW p \in PlainByte
  PROVE  /\ Q!pathencode(p) \in Q!Byte
         /\ Q!pathencode(p) \notin Q!Special \cup {"'", "\"", "none", ";"}
         /\ Q!pathencode(p) # Q!Code("\n")
         /\ Q!pathencode(p) = "~" => p = "~"
         /\ Q!pathdecode(Q!pathencode(p)) = p
<1>1. p \in Q!Byte /\ p \notin Q!Codes /\ p \notin {"'", "\"", ";", "\n"}
  BY DEF PlainByte
<1>2. \A d \in Q!Special : Q!Code(d) \notin Q!Special \cup {"'", "\"", "none", ";", "~"}
  BY DEF Q!Special, Q!Code
<1>3. \A d, e \in Q!Special : Q!Code(d) = Q!Code(e) => d = e
  BY DEF Q!Special, Q!Code
<1>0. "\n" \in Q!Special
  BY DEF Q!Special
<1>4. CASE p \in Q!Special
  <2>1. Q!pathencode(p) = Q!Code(p) /\ Q!Code(p) \in Q!Codes
    BY <1>4 DEF Q!pathencode, Q!Codes
  <2>2. Q!pathdecode(Q!Code(p)) = p
    BY <1>3, <1>4, <2>1 DEF Q!pathdecode
  <2>3. Q!Code(p) # Q!Code("\n")
    BY <1>0, <1>1, <1>3, <1>4
  <2> QED
    BY <1>1, <1>2, <1>4, <2>1, <2>2, <2>3, Encoding
<1>5. CASE p \notin Q!Special
  <2>1. Q!pathencode(p) = p /\ Q!pathdecode(p) = p
    BY <1>1, <1>5 DEF Q!pathencode, Q!pathdecode
  <2>2. "none" \notin Q!Byte
    BY NotNone
  <2>3. Q!Code("\n") \in Q!Codes
    BY <1>0, Encoding
  <2> QED
    BY <1>1, <1>5, <2>1, <2>2, <2>3
<1> QED
  BY <1>4, <1>5

\* The length and the members of a short tuple, and of two sequences together.
LEMMA Tuples ==
  /\ \A m : Len(<<m>>) = 1 /\ <<m>>[1] = m
  /\ \A m, o : Len(<<m, o>>) = 2 /\ <<m, o>>[1] = m /\ <<m, o>>[2] = o
OBVIOUS

LEMMA Behind ==
  ASSUME NEW B, NEW s \in Seq(B), NEW t \in Seq(B)
  PROVE  /\ s \o t \in Seq(B) /\ Len(s \o t) = Len(s) + Len(t)
         /\ \A i \in 1 .. Len(s) : (s \o t)[i] = s[i]
         /\ \A i \in 1 .. Len(t) : (s \o t)[Len(s) + i] = t[i]
OBVIOUS

\* The contexts of Q!Around, byte by byte.
LEMMA ContextIs ==
  ASSUME InContext
  PROVE  \/ /\ PathAt = 1 /\ piece.before[1] = "a"
            /\ Len(piece.after) = 1 /\ piece.after[1] = "a"
            /\ Mark = "none" /\ Begun = <<"a">> /\ Q!Literally(piece.after) = <<"a">>
         \/ /\ PathAt = 1 /\ piece.before[1] = "\""
            /\ Len(piece.after) = 1 /\ piece.after[1] = "\""
            /\ Mark = "\"" /\ Begun = <<>> /\ Q!Literally(piece.after) = <<>>
         \/ /\ PathAt = 2 /\ piece.before[1] = "a" /\ piece.before[2] = "'"
            /\ Len(piece.after) = 2 /\ piece.after[1] = "'" /\ piece.after[2] = "a"
            /\ Mark = "'" /\ Begun = <<"a">> /\ Q!Literally(piece.after) = <<"a">>
<1> DEFINE bare == <<"a">>
           double == <<"\"">>
           before == <<"a", "'">>
           after == <<"'", "a">>
<1>1. /\ Q!Literally(bare) = <<"a">> /\ Q!Literally(double) = <<>>
      /\ Q!Literally(before) = <<"a">> /\ Q!Literally(after) = <<"a">>
  <2>1. bare[1] = "a" /\ 1 \in DOMAIN bare /\ before[1] = "a" /\ 1 \in DOMAIN before
        /\ after[2] = "a" /\ 2 \in DOMAIN after
    OBVIOUS
  <2>2. \A i \in DOMAIN double : double[i] # "a"
    <3>1. DOMAIN double = {1} /\ double[1] = "\""
      OBVIOUS
    <3> QED
      BY <3>1
  <2> HIDE DEF bare, double, before, after
  <2>3. Q!Literally(bare) = <<"a">>
    BY <2>1, Zenon DEF Q!Literally
  <2>4. Q!Literally(double) = <<>>
    BY <2>2, Zenon DEF Q!Literally
  <2>5. Q!Literally(before) = <<"a">>
    BY <2>1, Zenon DEF Q!Literally
  <2>6. Q!Literally(after) = <<"a">>
    BY <2>1, Zenon DEF Q!Literally
  <2> QED
    BY <2>3, <2>4, <2>5, <2>6
<1>2. bare # double /\ bare # before /\ double # before
  <2>1. bare[1] = "a" /\ double[1] = "\""
    OBVIOUS
  <2>4. Len(bare) = 1 /\ Len(double) = 1 /\ Len(before) = 2
    OBVIOUS
  <2> HIDE DEF bare, double, before
  <2>2. bare # double
    BY <2>1
  <2>3. bare # before /\ double # before
    BY <2>4
  <2> QED
    BY <2>2, <2>3
<1>3. \/ piece.before = bare /\ piece.after = bare
      \/ piece.before = double /\ piece.after = double
      \/ piece.before = before /\ piece.after = after
  <2> DEFINE x == piece.before
             y == piece.after
  <2>1. \/ <<x, y>> = <<bare, bare>>
        \/ <<x, y>> = <<double, double>>
        \/ <<x, y>> = <<before, after>>
    BY DEF InContext, Q!Around
  <2> HIDE DEF bare, double, before, after, x, y
  <2> QED
    BY <2>1 DEF x, y
<1>8. /\ Len(bare) = 1 /\ bare[1] = "a"
      /\ Len(double) = 1 /\ double[1] = "\""
      /\ Len(before) = 2 /\ before[1] = "a" /\ before[2] = "'"
      /\ Len(after) = 2 /\ after[1] = "'" /\ after[2] = "a"
  BY Tuples, Zenon
<1> HIDE DEF bare, double, before, after
<1>4. Mark = IF piece.before = double THEN "\"" ELSE IF piece.before = before THEN "'" ELSE "none"
  BY DEF Mark, double, before
<1>5. CASE piece.before = bare /\ piece.after = bare
  <2>1. Mark = "none" /\ Begun = <<"a">> /\ Q!Literally(piece.after) = <<"a">>
    BY <1>1, <1>2, <1>4, <1>5, Zenon DEF Begun
  <2> QED
    BY <1>5, <1>8, <2>1, Zenon DEF PathAt
<1>6. CASE piece.before = double /\ piece.after = double
  <2>1. Mark = "\"" /\ Begun = <<>> /\ Q!Literally(piece.after) = <<>>
    BY <1>1, <1>4, <1>6, Zenon DEF Begun
  <2> QED
    BY <1>6, <1>8, <2>1, Zenon DEF PathAt
<1>7. CASE piece.before = before /\ piece.after = after
  <2>1. Mark = "'" /\ Begun = <<"a">> /\ Q!Literally(piece.after) = <<"a">>
    BY <1>1, <1>2, <1>4, <1>7, Zenon DEF Begun
  <2> QED
    BY <1>7, <1>8, <2>1, Zenon DEF PathAt
<1> QED
  BY <1>3, <1>5, <1>6, <1>7, Zenon

\* The text, byte by byte: the context, the codes of the path, the context.
LEMMA WholeIs ==
  ASSUME piece \in Q!Piece
  PROVE  /\ PathAt \in Nat /\ Len(piece.path) \in Nat /\ AfterAt \in Nat
         /\ Len(piece.after) \in Nat /\ Len(Q!TextOf(piece)) \in Nat
         /\ AfterAt = PathAt + Len(piece.path)
         /\ Len(Q!TextOf(piece)) = AfterAt + Len(piece.after)
         /\ \A i \in 1 .. PathAt : Q!TextOf(piece)[i] = piece.before[i]
         /\ \A i \in 1 .. Len(piece.path) :
              Q!TextOf(piece)[PathAt + i] = Q!pathencode(piece.path[i])
         /\ \A i \in 1 .. Len(piece.after) : Q!TextOf(piece)[AfterAt + i] = piece.after[i]
<1> DEFINE x == piece.before
           path == piece.path
           code == Q!s8pathencode(path)
           z == piece.after
           B == Q!Byte
           whole == x \o code \o z
<1>1. /\ x \in Seq(Q!Byte) /\ path \in Seq(Q!Byte) /\ z \in Seq(Q!Byte)
      /\ code \in Seq(Q!Byte) /\ Len(code) = Len(path)
  BY PieceText
<1>2. code = [i \in DOMAIN path |-> Q!pathencode(path[i])]
  BY DEF Q!s8pathencode
<1>3. Q!TextOf(piece) = whole
  BY DEF Q!TextOf
<1>4. PathAt = Len(x) /\ AfterAt = Len(x) + Len(path)
  BY DEF PathAt, AfterAt
<1>8. x \in Seq(B) /\ path \in Seq(B) /\ z \in Seq(B) /\ code \in Seq(B)
  BY <1>1
<1> HIDE DEF x, path, code, z, B
<1>5. \A i \in 1 .. Len(path) : code[i] = Q!pathencode(path[i])
  BY <1>1, <1>2
<1>6. /\ Len(whole) = (Len(x) + Len(path)) + Len(z)
      /\ \A i \in 1 .. Len(x) : whole[i] = x[i]
      /\ \A i \in 1 .. Len(path) : whole[Len(x) + i] = code[i]
      /\ \A i \in 1 .. Len(z) : whole[(Len(x) + Len(path)) + i] = z[i]
  <2> DEFINE front == x \o code
  <2>1. /\ front \in Seq(B) /\ Len(front) = Len(x) + Len(path)
        /\ \A i \in 1 .. Len(x) : front[i] = x[i] /\ i \in 1 .. Len(front)
        /\ \A i \in 1 .. Len(path) : front[Len(x) + i] = code[i] /\ Len(x) + i \in 1 .. Len(front)
    <3>1. /\ front \in Seq(B) /\ Len(front) = Len(x) + Len(code)
          /\ \A i \in 1 .. Len(x) : front[i] = x[i]
          /\ \A i \in 1 .. Len(code) : front[Len(x) + i] = code[i]
      BY <1>8, Behind
    <3>2. Len(x) \in Nat /\ Len(path) \in Nat
      BY <1>1
    <3> HIDE DEF front
    <3> QED
      BY <1>1, <3>1, <3>2
  <2> HIDE DEF front
  <2>2. /\ Len(front \o z) = Len(front) + Len(z)
        /\ \A i \in 1 .. Len(front) : (front \o z)[i] = front[i]
        /\ \A i \in 1 .. Len(z) : (front \o z)[Len(front) + i] = z[i]
    <3>1. front \in Seq(B)
      BY <2>1, Zenon
    <3> QED
      BY <1>8, <3>1, Behind
  <2>3. whole = front \o z
    BY DEF front
  <2> HIDE DEF whole
  <2> QED
    BY <1>1, <2>1, <2>2, <2>3
<1>7. /\ Len(x) \in Nat /\ Len(path) \in Nat /\ Len(x) + Len(path) \in Nat
      /\ Len(z) \in Nat /\ (Len(x) + Len(path)) + Len(z) \in Nat
  <2>1. Len(x) \in Nat /\ Len(path) \in Nat /\ Len(z) \in Nat
    BY <1>8
  <2> QED
    BY <2>1
<1> HIDE DEF whole
<1> QED
  BY <1>3, <1>4, <1>5, <1>6, <1>7 DEF x, path, z

LEMMA Prefixes ==
  ASSUME NEW D, NEW u \in Seq(D), NEW v \in Seq(D)
  PROVE  /\ u \o SubSeq(v, 1, 0) = u
         /\ u \o SubSeq(v, 1, Len(v)) = u \o v
<1>1. u \o SubSeq(v, 1, 0) = u
  <2>1. SubSeq(v, 1, 0) = <<>>
    OBVIOUS
  <2>2. u \o <<>> = u
    OBVIOUS
  <2> QED
    BY <2>1, <2>2
<1>2. SubSeq(v, 1, Len(v)) = v
  OBVIOUS
<1> QED
  BY <1>1, <1>2

\* A byte of the path after those read before it.
LEMMA PrefixGrows ==
  ASSUME NEW D, NEW u \in Seq(D), NEW v \in Seq(D), NEW k \in 1 .. Len(v)
  PROVE  (u \o SubSeq(v, 1, k - 1)) \o <<v[k]>> = u \o SubSeq(v, 1, k)
<1>1. SubSeq(v, 1, k) = SubSeq(v, 1, k - 1) \o <<v[k]>>
  <2>1. SubSeq(v, 1, k - 1) \in Seq(D) /\ v[k] \in D
    OBVIOUS
  <2>2. SubSeq(v, 1, k) = Append(SubSeq(v, 1, k - 1), v[k])
    OBVIOUS
  <2> QED
    BY <2>1, <2>2, Added
<1> DEFINE s == SubSeq(v, 1, k - 1)
           e == <<v[k]>>
<1>2. s \in Seq(D) /\ e \in Seq(D)
  OBVIOUS
<1> HIDE DEF s, e
<1>3. (u \o s) \o e = u \o (s \o e)
  BY <1>2, ConcatAssociative, SMTT(30)
<1> QED
  BY <1>1, <1>3 DEF s, e

\* What a byte means that is neither a mark nor anything to the shell.
LEMMA LiteralAfter ==
  ASSUME NEW b, NEW word, NEW open,
         b \notin Q!Special \cup {"'", "\"", "none", ";"}, b # Q!Code("\n"),
         b = "~" => word # <<>>,
         open \in {"none", "'", "\""}
  PROVE  After(b, word, open) = [word |-> word \o <<Q!pathdecode(b)>>, open |-> open]
<1>1. ~Q!whitespace(b) /\ b \notin {"$", "(", ")", ";"}
  BY DEF Q!whitespace, Q!Special
<1>2. Q!Meaning(b, word, open) = <<Q!pathdecode(b)>>
  BY <1>1 DEF Q!Meaning
<1>3. ~(open = "none" /\ b \in {"'", "\""}) /\ b # open
  OBVIOUS
<1> QED
  BY <1>2, <1>3, Zenon DEF After

\* The bytes of the context, as they are read.
LEMMA ContextAfter ==
  ASSUME NEW word \in Seq(Shelled), NEW mark \in {"'", "\""}
  PROVE  /\ After("a", word, "none") = [word |-> word \o <<"a">>, open |-> "none"]
         /\ After(mark, word, "none") = [word |-> word, open |-> mark]
         /\ After(mark, word, mark) = [word |-> word, open |-> "none"]
         /\ word \o <<>> = word /\ <<>> \o <<"a">> = <<"a">>
<1>1. "a" \notin Q!Special \cup {"'", "\"", "none", ";", Q!Code("\n")} /\ "a" \notin Q!Codes
  BY DEF Q!Codes, Q!Special, Q!Code
<1>2. Q!pathdecode("a") = "a"
  BY <1>1 DEF Q!pathdecode
<1>3. After("a", word, "none") = [word |-> word \o <<"a">>, open |-> "none"]
  BY <1>1, <1>2, LiteralAfter
<1>4. /\ After(mark, word, "none") = [word |-> word, open |-> mark]
      /\ After(mark, word, mark) = [word |-> word, open |-> "none"]
  BY DEF After
<1> QED
  BY <1>3, <1>4, NothingMore, Zenon

\* A sequence of some is one of more.
LEMMA Widened ==
  ASSUME NEW B, NEW C, B \subseteq C, NEW s \in Seq(B)
  PROVE  s \in Seq(C)
<1>1. Len(s) \in Nat /\ s \in [1 .. Len(s) -> B]
  OBVIOUS
<1>2. s \in [1 .. Len(s) -> C]
  BY <1>1
<1> QED
  BY <1>1, <1>2, SeqDef

\* What is around the path, and the path, are sequences of bytes.
LEMMA Words ==
  ASSUME piece \in Q!Piece, InContext
  PROVE  /\ Begun \in Seq(Shelled) /\ Ending \in Seq(Shelled) /\ Path \in Seq(Shelled)
         /\ Path \in Seq(Q!Byte)
         /\ Begun \o SubSeq(Path, 1, 0) = Begun
         /\ Begun \o SubSeq(Path, 1, Len(Path)) = Begun \o Path
         /\ Begun \o Path \in Seq(Shelled)
         /\ \A k \in 1 .. Len(Path) :
              /\ (Begun \o SubSeq(Path, 1, k - 1)) \o <<Path[k]>> = Begun \o SubSeq(Path, 1, k)
              /\ Begun \o SubSeq(Path, 1, k - 1) = <<>> => Begun = <<>> /\ k = 1
<1>1. Path \in Seq(Q!Byte)
  BY DEF Q!Piece, Path
<1>2. \A b \in Q!Byte : b \in Shelled
  BY DEF Shelled
<1>3. Path \in Seq(Shelled)
  <2>1. Q!Byte \subseteq Shelled
    BY <1>2, Zenon
  <2> QED
    BY <1>1, <2>1, Widened, Zenon
<1>4. "a" \in Shelled
  BY DEF Shelled, Q!Byte
<1>5. <<"a">> \in Seq(Shelled) /\ <<>> \in Seq(Shelled)
  BY <1>4
<1>6. Begun \in Seq(Shelled) /\ Ending \in Seq(Shelled)
  BY <1>5, Zenon DEF Begun, Ending, Q!Literally
<1> DEFINE u == Begun
           v == Path
<1> HIDE DEF u, v
<1>7. u \in Seq(Shelled) /\ v \in Seq(Shelled)
  BY <1>3, <1>6 DEF u, v
<1>8. u \o SubSeq(v, 1, 0) = u /\ u \o SubSeq(v, 1, Len(v)) = u \o v /\ u \o v \in Seq(Shelled)
  BY <1>7, Prefixes
<1>9. ASSUME NEW k \in 1 .. Len(v)
      PROVE  /\ (u \o SubSeq(v, 1, k - 1)) \o <<v[k]>> = u \o SubSeq(v, 1, k)
             /\ u \o SubSeq(v, 1, k - 1) = <<>> => u = <<>> /\ k = 1
  <2>1. (u \o SubSeq(v, 1, k - 1)) \o <<v[k]>> = u \o SubSeq(v, 1, k)
    BY <1>7, PrefixGrows
  <2> DEFINE s == SubSeq(v, 1, k - 1)
  <2>2. s \in Seq(Shelled) /\ Len(s) = k - 1
    BY <1>7
  <2> HIDE DEF s
  <2>3. Len(u \o s) = Len(u) + (k - 1) /\ Len(u) \in Nat
    BY <1>7, <2>2
  <2>4. u \o s = <<>> => Len(u) + (k - 1) = 0
    BY <2>3
  <2>5. u \o s = <<>> => Len(u) = 0 /\ k = 1
    BY <2>3, <2>4
  <2>6. Len(u) = 0 => u = <<>>
    BY <1>7
  <2> QED
    BY <2>1, <2>5, <2>6 DEF s
<1> QED
  BY <1>1, <1>3, <1>6, <1>8, <1>9 DEF u, v

\* One byte more of the text means what one byte more is expected to.
LEMMA ExpectedNext ==
  ASSUME piece \in Q!Piece, Plain, InContext,
         NEW n \in Nat, n < Len(Q!TextOf(piece))
  PROVE  After(Q!TextOf(piece)[n + 1], Expected(n).word, Expected(n).open) = Expected(n + 1)
<1> DEFINE whole == Q!TextOf(piece)
           b == whole[n + 1]
           L == Len(piece.path)
           A == Len(piece.after)
           size == Len(whole)
<1>1. /\ PathAt \in Nat /\ L \in Nat /\ AfterAt \in Nat /\ A \in Nat
      /\ AfterAt = PathAt + L
      /\ size = AfterAt + A /\ n < size
      /\ \A i \in 1 .. PathAt : whole[i] = piece.before[i]
      /\ \A i \in 1 .. L : whole[PathAt + i] = Q!pathencode(Path[i])
      /\ \A i \in 1 .. A : whole[AfterAt + i] = piece.after[i]
  BY WholeIs DEF Path
<1>2. /\ Begun \in Seq(Shelled) /\ Begun \o Path \in Seq(Shelled)
      /\ Begun \o SubSeq(Path, 1, 0) = Begun
      /\ Begun \o SubSeq(Path, 1, Len(Path)) = Begun \o Path
      /\ \A k \in 1 .. Len(Path) :
           /\ (Begun \o SubSeq(Path, 1, k - 1)) \o <<Path[k]>> = Begun \o SubSeq(Path, 1, k)
           /\ Begun \o SubSeq(Path, 1, k - 1) = <<>> => Begun = <<>> /\ k = 1
  BY Words
<1>3. L = Len(Path)
  BY DEF Path
<1>0. <<>> \in Seq(Shelled)
  OBVIOUS
<1>4. \A m : Expected(m) =
        IF m < PathAt THEN [word |-> IF m = 0 THEN <<>> ELSE Begun, open |-> "none"]
        ELSE IF m <= AfterAt THEN [word |-> Begun \o SubSeq(Path, 1, m - PathAt), open |-> Mark]
        ELSE [word |-> (Begun \o Path) \o (IF m = size THEN Ending ELSE <<>>), open |-> "none"]
  BY Zenon DEF Expected
<1> SUFFICES After(b, Expected(n).word, Expected(n).open) = Expected(n + 1)
  BY DEF whole
<1> HIDE DEF whole, size, L, A
<1>5. CASE n < PathAt
  <2>1. n + 1 \in 1 .. PathAt /\ PathAt <= AfterAt /\ (PathAt \in {1, 2} => n \in {0, 1})
    BY <1>1, <1>5
  <2>2. b = piece.before[n + 1]
    BY <1>1, <2>1
  <2>3. Expected(n).word = (IF n = 0 THEN <<>> ELSE Begun) /\ Expected(n).open = "none"
    BY <1>4, <1>5
  <2>4. CASE PathAt = 1
    <3>1. n = 0 /\ n + 1 = 1 /\ ~(1 < PathAt) /\ 1 <= AfterAt /\ 1 - PathAt = 0
      BY <1>1, <1>5, <2>1, <2>4
    <3>2. Expected(1) = [word |-> Begun, open |-> Mark]
      BY <1>2, <1>4, <3>1, Zenon
    <3>3. After(b, <<>>, "none") = [word |-> Begun, open |-> Mark]
      <4>1. 1 # 2
        OBVIOUS
      <4>2. \/ b = "a" /\ Mark = "none" /\ Begun = <<"a">>
            \/ b = "\"" /\ Mark = "\"" /\ Begun = <<>>
        BY <2>2, <2>4, <3>1, <4>1, ContextIs, Zenon
      <4>3. "\"" \in {"'", "\""}
        OBVIOUS
      <4> QED
        BY <1>0, <4>2, <4>3, ContextAfter, Zenon
    <3>4. Expected(n).word = <<>> /\ Expected(n).open = "none"
      BY <2>3, <3>1
    <3> QED
      BY <3>1, <3>2, <3>3, <3>4, Zenon
  <2>5. CASE PathAt = 2
    <3>0. 1 # 2 /\ "'" \in {"'", "\""}
      OBVIOUS
    <3>1. piece.before[1] = "a" /\ piece.before[2] = "'" /\ Mark = "'" /\ Begun = <<"a">>
      BY <2>5, <3>0, ContextIs, Zenon
    <3>2. CASE n = 0
      <4>1. n + 1 = 1 /\ 1 < PathAt /\ 1 # 0
        BY <2>5, <3>2
      <4>2. Expected(1) = [word |-> Begun, open |-> "none"]
        BY <1>4, <4>1, Zenon
      <4>3. After("a", <<>>, "none") = [word |-> <<"a">>, open |-> "none"]
        BY <1>0, <3>0, ContextAfter, Zenon
      <4>4. Expected(n).word = <<>> /\ Expected(n).open = "none"
        BY <2>3, <3>2
      <4> QED
        BY <2>2, <3>1, <4>1, <4>2, <4>3, <4>4, Zenon
    <3>3. CASE n = 1
      <4>1. n + 1 = 2 /\ ~(2 < PathAt) /\ 2 <= AfterAt /\ 2 - PathAt = 0
        BY <1>1, <2>1, <2>5, <3>3
      <4>2. Expected(2) = [word |-> Begun, open |-> Mark]
        BY <1>2, <1>4, <4>1, Zenon
      <4>3. After("'", Begun, "none") = [word |-> Begun, open |-> "'"]
        BY <1>2, <3>0, ContextAfter, Zenon
      <4>4. n # 0
        BY <3>3
      <4>5. Expected(n).word = Begun /\ Expected(n).open = "none"
        BY <2>3, <4>4
      <4> QED
        BY <2>2, <3>1, <4>1, <4>2, <4>3, <4>5, Zenon
    <3> QED
      BY <2>1, <2>5, <3>2, <3>3
  <2> QED
    BY <2>4, <2>5, ContextIs, Zenon
<1>6. CASE n >= PathAt /\ n < AfterAt
  <2> DEFINE k == n - PathAt + 1
             word == Begun \o SubSeq(Path, 1, k - 1)
  <2>1. /\ k \in 1 .. L /\ n + 1 = PathAt + k /\ n - PathAt = k - 1 /\ (n + 1) - PathAt = k
        /\ ~(n < PathAt) /\ ~(n + 1 < PathAt) /\ n <= AfterAt /\ n + 1 <= AfterAt
    BY <1>1, <1>6
  <2> HIDE DEF k
  <2>2. b = Q!pathencode(Path[k])
    BY <1>1, <2>1
  <2>3. Path[k] \in PlainByte
    <3>1. Path \in Seq(Q!Byte)
      BY Words
    <3>2. k \in DOMAIN Path
      BY <1>3, <2>1, <3>1
    <3> QED
      BY <3>2 DEF Plain, Path
  <2>4. Expected(n) = [word |-> word, open |-> Mark]
    BY <1>4, <2>1, Zenon
  <2>5. Expected(n + 1) = [word |-> word \o <<Path[k]>>, open |-> Mark]
    <3>1. word \o <<Path[k]>> = Begun \o SubSeq(Path, 1, k)
      BY <1>2, <1>3, <2>1
    <3>2. Expected(n + 1) = [word |-> Begun \o SubSeq(Path, 1, (n + 1) - PathAt), open |-> Mark]
      BY <1>4, <2>1, Zenon
    <3> QED
      BY <2>1, <3>1, <3>2, Zenon
  <2>6. b = "~" => word # <<>>
    <3> SUFFICES ASSUME b = "~", word = <<>> PROVE FALSE
      OBVIOUS
    <3>1. Path[k] = "~"
      BY <2>2, <2>3, DecodedIs
    <3>2. Begun = <<>> /\ k = 1
      BY <1>2, <1>3, <2>1
    <3>3. piece.before = <<"\"">>
      <4>1. <<"a">> # <<>>
        OBVIOUS
      <4>2. Mark = "\""
        BY <3>2, <4>1, ContextIs, Zenon
      <4> QED
        BY <4>2 DEF Mark
    <3>4. Len(piece.path) > 0
      BY <1>1, <2>1 DEF L
    <3> QED
      BY <3>1, <3>2, <3>3, <3>4 DEF Plain, InFront, Path
  <2>7. Mark \in {"none", "'", "\""}
    BY DEF Mark
  <2> HIDE DEF word
  <2>8. After(b, word, Mark) = [word |-> word \o <<Path[k]>>, open |-> Mark]
    <3>1. /\ b \notin Q!Special \cup {"'", "\"", "none", ";"} /\ b # Q!Code("\n")
          /\ Q!pathdecode(b) = Path[k]
      BY <2>2, <2>3, DecodedIs
    <3> HIDE DEF b
    <3> QED
      BY <2>6, <2>7, <3>1, LiteralAfter
  <2>9. Expected(n).word = word /\ Expected(n).open = Mark
    BY <2>4
  <2> QED
    BY <2>5, <2>8, <2>9, Zenon
<1>7. CASE n >= AfterAt
  <2> DEFINE k == n - AfterAt + 1
             both == Begun \o Path
  <2>1. /\ k \in 1 .. A /\ n + 1 = AfterAt + k /\ (k = 1 => n = AfterAt)
        /\ (n + 1 = size <=> k = A) /\ (n = size <=> FALSE)
        /\ ~(n < PathAt) /\ ~(n + 1 < PathAt) /\ ~(n + 1 <= AfterAt)
        /\ (n <= AfterAt <=> k = 1) /\ (k = 1 => n - PathAt = Len(Path))
    BY <1>1, <1>3, <1>7
  <2> HIDE DEF k
  <2>2. b = piece.after[k]
    BY <1>1, <2>1
  <2>3. both \in Seq(Shelled) /\ both \o <<>> = both
    BY <1>2
  <2>4. Expected(n) = [word |-> both, open |-> IF k = 1 THEN Mark ELSE "none"]
    BY <1>2, <1>4, <2>1, <2>3, Zenon
  <2>5. Expected(n + 1) = [word |-> IF k = A THEN both \o Ending ELSE both, open |-> "none"]
    BY <1>4, <2>1, <2>3, Zenon
  <2> HIDE DEF both
  <2>6. Expected(n).word = both /\ Expected(n).open = IF k = 1 THEN Mark ELSE "none"
    BY <2>4
  <2>7. /\ After("a", both, "none") = [word |-> both \o <<"a">>, open |-> "none"]
        /\ After("'", both, "'") = [word |-> both, open |-> "none"]
        /\ After("\"", both, "\"") = [word |-> both, open |-> "none"]
    <3>1. "'" \in {"'", "\""} /\ "\"" \in {"'", "\""}
      OBVIOUS
    <3> QED
      BY <2>3, <3>1, ContextAfter, Zenon
  <2>8. CASE A = 1
    <3>1. k = 1 /\ 1 # 2
      BY <2>1, <2>8
    <3>2. \/ b = "a" /\ Mark = "none" /\ Ending = <<"a">>
          \/ b = "\"" /\ Mark = "\"" /\ Ending = <<>>
      BY <2>2, <2>8, <3>1, ContextIs, Zenon DEF A, Ending
    <3>3. /\ Expected(n).word = both /\ Expected(n).open = Mark
          /\ Expected(n + 1) = [word |-> both \o Ending, open |-> "none"]
      BY <2>5, <2>6, <2>8, <3>1
    <3> HIDE DEF b
    <3> QED
      BY <2>3, <2>7, <3>2, <3>3, Zenon
  <2>9. CASE A = 2
    <3>1. k \in {1, 2} /\ 1 # 2
      BY <2>1, <2>9
    <3>2. piece.after[1] = "'" /\ piece.after[2] = "a" /\ Mark = "'" /\ Ending = <<"a">>
      BY <2>9, <3>1, ContextIs, Zenon DEF A, Ending
    <3>3. (k = 1 => b = "'") /\ (k = 2 => b = "a")
      BY <2>2, <3>2
    <3> HIDE DEF b
    <3>4. CASE k = 1
      <4>1. /\ Expected(n).word = both /\ Expected(n).open = Mark
            /\ Expected(n + 1) = [word |-> both, open |-> "none"]
        BY <2>5, <2>6, <2>9, <3>1, <3>4
      <4> QED
        BY <2>7, <3>2, <3>3, <3>4, <4>1, Zenon
    <3>5. CASE k = 2
      <4>1. /\ Expected(n).word = both /\ Expected(n).open = "none"
            /\ Expected(n + 1) = [word |-> both \o Ending, open |-> "none"]
        BY <2>5, <2>6, <2>9, <3>1, <3>5
      <4> QED
        BY <2>7, <3>2, <3>3, <3>5, <4>1, Zenon
    <3> QED
      BY <3>1, <3>4, <3>5
  <2> QED
    BY <2>8, <2>9, ContextIs, Zenon DEF A
<1> QED
  BY <1>1, <1>5, <1>6, <1>7

\* So what the text means is what is expected of it, up to any byte.
LEMMA MeantIsExpected ==
  ASSUME piece \in Q!Piece, Plain, InContext, NEW n \in 0 .. Len(Q!TextOf(piece))
  PROVE  Q!Meant(Q!TextOf(piece))[n] = Expected(n)
<1> DEFINE size == Len(Q!TextOf(piece))
           meant == Q!Meant(Q!TextOf(piece))
           S == {m \in 0 .. size : meant[m] = Expected(m)}
<1>1. size \in Nat /\ PathAt \in {1, 2}
  BY WholeIs, ContextIs
<1>2. 0 \in S
  <2>1. meant[0] = [word |-> <<>>, open |-> "none"]
    BY MeantFirst
  <2>2. 0 < PathAt /\ 0 \in 0 .. size
    BY <1>1
  <2>3. Expected(0) = [word |-> <<>>, open |-> "none"]
    BY <2>2, Zenon DEF Expected
  <2> QED
    BY <2>1, <2>2, <2>3
<1>3. ASSUME NEW k \in 0 .. size - 1, k \in S PROVE k + 1 \in S
  <2>1. k \in Nat /\ k < size /\ k + 1 \in 0 .. size
    BY <1>1
  <2>2. meant[k + 1] = After(Q!TextOf(piece)[k + 1], meant[k].word, meant[k].open)
    BY <2>1, MeantNext
  <2>3. After(Q!TextOf(piece)[k + 1], Expected(k).word, Expected(k).open) = Expected(k + 1)
    BY <2>1, ExpectedNext
  <2>4. meant[k] = Expected(k)
    BY <1>3
  <2> HIDE DEF meant
  <2>5. meant[k + 1] = Expected(k + 1)
    BY <2>2, <2>3, <2>4, Zenon
  <2> QED
    BY <2>1, <2>5
<1> HIDE DEF S
<1>4. \A m \in 0 .. size : m \in S
  <2> HIDE DEF size
  <2> QED
    BY <1>1, <1>2, <1>3, Upwards
<1> QED
  BY <1>4 DEF S

\* The text has no blank.
LEMMA WholePlain ==
  ASSUME piece \in Q!Piece, Plain, InContext, NEW i \in 1 .. Len(Q!TextOf(piece))
  PROVE  ~Q!whitespace(Q!TextOf(piece)[i])
<1> DEFINE b == Q!TextOf(piece)[i]
           L == Len(piece.path)
           A == Len(piece.after)
<1>1. /\ PathAt \in Nat /\ L \in Nat /\ AfterAt \in Nat /\ A \in Nat
      /\ AfterAt = PathAt + L
      /\ i \in 1 .. AfterAt + A
      /\ \A k \in 1 .. PathAt : Q!TextOf(piece)[k] = piece.before[k]
      /\ \A k \in 1 .. L : Q!TextOf(piece)[PathAt + k] = Q!pathencode(piece.path[k])
      /\ \A k \in 1 .. A : Q!TextOf(piece)[AfterAt + k] = piece.after[k]
  BY WholeIs
<1>2. PathAt \in {1, 2} /\ A \in {1, 2}
  BY ContextIs, Zenon
<1>3. \A d \in {"a", "'", "\""} : ~Q!whitespace(d)
  BY DEF Q!whitespace
<1>4. \A k \in 1 .. PathAt : piece.before[k] \in {"a", "'", "\""}
  <2>1. CASE PathAt = 1
    <3>1. \A k \in 1 .. PathAt : k = 1
      BY <2>1
    <3> QED
      BY <3>1, ContextIs
  <2>2. CASE PathAt = 2
    <3>1. \A k \in 1 .. PathAt : k = 1 \/ k = 2
      BY <2>2
    <3> QED
      BY <2>2, <3>1, ContextIs
  <2> QED
    BY <1>2, <2>1, <2>2
<1>5. \A k \in 1 .. A : piece.after[k] \in {"a", "'", "\""}
  <2>1. CASE A = 1
    <3>1. \A k \in 1 .. A : k = 1
      BY <2>1
    <3> QED
      BY <3>1, ContextIs
  <2>2. CASE A = 2
    <3>1. \A k \in 1 .. A : k = 1 \/ k = 2
      BY <2>2
    <3> QED
      BY <2>2, <3>1, ContextIs
  <2> QED
    BY <1>2, <2>1, <2>2
<1>6. \A k \in 1 .. L : piece.path[k] \in PlainByte
  <2>1. piece.path \in Seq(Q!Byte)
    BY DEF Q!Piece
  <2> QED
    BY <2>1 DEF Plain
<1> HIDE DEF L, A
<1>7. CASE i <= PathAt
  <2>1. i \in 1 .. PathAt
    BY <1>1, <1>7
  <2>2. b \in {"a", "'", "\""}
    BY <1>1, <1>4, <2>1
  <2> QED
    BY <1>3, <2>2
<1>8. CASE i > PathAt /\ i <= AfterAt
  <2> DEFINE k == i - PathAt
  <2>1. k \in 1 .. L /\ PathAt + k = i
    BY <1>1, <1>8
  <2> HIDE DEF k
  <2>2. b = Q!pathencode(piece.path[k]) /\ piece.path[k] \in PlainByte
    BY <1>1, <1>6, <2>1
  <2>3. b \notin Q!Special
    BY <2>2, DecodedIs
  <2> QED
    BY <2>3 DEF Q!whitespace, Q!Special
<1>9. CASE i > AfterAt
  <2> DEFINE k == i - AfterAt
  <2>1. k \in 1 .. A /\ AfterAt + k = i
    BY <1>1, <1>9
  <2> HIDE DEF k
  <2>2. b \in {"a", "'", "\""}
    BY <1>1, <1>5, <2>1
  <2> QED
    BY <1>3, <2>2
<1> QED
  BY <1>1, <1>7, <1>8, <1>9

(***************************************************************************)
(* A path is printed as one token, which the shell takes for that very     *)
(* path, bare or within either quotation marks, whether it comes from a    *)
(* POSIX argument or out of a Windows command line.  Plain names what a    *)
(* path must not have for this: the run apostrophe and Meaning() show that *)
(* each does harm.                                                         *)
(***************************************************************************)
THEOREM PathAsItselfCorrect == SpecPath => [](Plain => PathAsItself)
<1>1. ASSUME FieldInv, phase # "waiting", Plain, InContext
      PROVE  /\ phase # "unmatched"
             /\ phase = "done" => text = <<>> /\ Q!Evaluated(mem) = (Begun \o Path) \o Ending
  <2> DEFINE whole == Q!TextOf(piece)
             size == Len(whole)
  <2>1. ReadingField
    BY <1>1 DEF FieldInv
  <2>2. piece \in Q!Piece /\ Len(text) <= size /\ text \in Seq(Q!Byte)
        /\ \A i \in 1 .. Len(text) : text[i] = whole[ReadSoFar + i]
    BY <2>1 DEF ReadingField
  <2>3. size \in Nat /\ Len(text) \in Nat /\ whole \in Seq(Q!Byte)
    BY <2>1, FieldSized
  <2>4. \A i \in 1 .. size : ~Q!whitespace(whole[i])
    BY <1>1, <2>2, WholePlain
  <2>5. Understood
    BY <2>1 DEF ReadingField
  <2>6. ReadSoFar = size - Len(text) /\ ReadSoFar \in 0 .. size
    <3>1. ReadSoFar = size - Len(text)
      BY DEF ReadSoFar
    <3> HIDE DEF size
    <3> QED
      BY <2>2, <2>3, <3>1
  <2>7. SoFar = Expected(ReadSoFar)
    BY <1>1, <2>2, <2>6, MeantIsExpected DEF SoFar
  <2>8. text = <<>> => SoFar = [word |-> (Begun \o Path) \o Ending, open |-> "none"]
    <3> SUFFICES ASSUME text = <<>>
                 PROVE  SoFar = [word |-> (Begun \o Path) \o Ending, open |-> "none"]
      OBVIOUS
    <3>1. ReadSoFar = size
      BY <2>3, <2>6
    <3>2. /\ PathAt \in Nat /\ Len(piece.path) \in Nat /\ AfterAt = PathAt + Len(piece.path)
          /\ size = AfterAt + Len(piece.after)
      BY <2>2, WholeIs
    <3>3. Len(piece.after) \in {1, 2}
      BY <1>1, ContextIs, Zenon
    <3>4. ~(size < PathAt) /\ ~(size <= AfterAt)
      <4> DEFINE A == Len(piece.after)
                 L == Len(piece.path)
      <4>1. /\ PathAt \in Nat /\ L \in Nat /\ AfterAt = PathAt + L
            /\ size = AfterAt + A /\ A \in {1, 2}
        BY <3>2, <3>3
      <4> HIDE DEF A, L, size
      <4> QED
        BY <4>1
    <3> QED
      BY <2>7, <3>1, <3>4, Zenon DEF Expected
  <2>9. text # <<>> => ~Q!LeadingBlank
    <3> SUFFICES ASSUME text # <<>> PROVE ~Q!LeadingBlank
      OBVIOUS
    <3> HIDE DEF whole, size
    <3>1. Head(text) = text[1] /\ 1 \in 1 .. Len(text)
      BY <2>2
    <3>2. ReadSoFar + 1 \in 1 .. size
      BY <2>3, <2>6, <3>1
    <3>3. Head(text) = whole[ReadSoFar + 1]
      BY <2>2, <3>1
    <3> QED
      BY <2>4, <3>2, <3>3 DEF Q!LeadingBlank
  <2>10. phase = "unmatched" => text = <<>> /\ SoFar.open # "none"
    BY <2>5 DEF Understood
  <2>11. phase = "done" => text = <<>> /\ Q!Evaluated(mem) = SoFar.word
    BY <2>5, <2>9, TakenEvaluated DEF Understood
  <2>12. text = <<>> => SoFar.word = (Begun \o Path) \o Ending /\ SoFar.open = "none"
    BY <2>8
  <2> QED
    BY <2>10, <2>11, <2>12
<1>2. FieldInv => (Plain => PathAsItself)
  <2> SUFFICES ASSUME FieldInv, Plain, <<piece.before, piece.after>> \in Q!Around
               PROVE  /\ phase # "unmatched"
                      /\ phase = "done" =>
                           /\ text = <<>>
                           /\ Q!Evaluated(mem) = (Begun \o Path) \o Ending
    BY DEF PathAsItself, Q!PathAsItself, Begun, Path, Ending
  <2>1. phase = "done" => phase # "waiting"
    OBVIOUS
  <2>2. phase = "unmatched" => phase # "waiting"
    OBVIOUS
  <2> QED
    BY <1>1, <2>1, <2>2 DEF InContext
<1> QED
  BY <1>2, InitField, NextField, PTL DEF SpecPath

=============================================================================
