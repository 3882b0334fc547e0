-------------------------------- MODULE Output ------------------------------
(***************************************************************************)
(* The buffers that all output goes through, and the system calls that     *)
(* empty them.                                                             *)
(*                                                                         *)
(* uconfig() prints text to "out" and a message to "err".  A buffer is     *)
(* written when it is full, "out" before a successful return, and "err"    *)
(* before a failure.  What a system call takes may be less than it is      *)
(* given, and it may fail; each platform has its own way with that.        *)
(* Nothing but the order of bytes matters here, so the bytes of a stream   *)
(* are numbered, and a text is its length.                                 *)
(***************************************************************************)
EXTENDS Integers, Sequences, SequencesExt

CONSTANTS
  OutCap, ErrCap,   \* the sizes of the buffers
  ConsoleCap,       \* the size of a console's buffer of UTF-16 units; 256
  Inputs            \* the runs of the program under consideration

ASSUME CapAssumption ==
  OutCap \in Nat \ {0} /\ ErrCap \in Nat \ {0} /\ ConsoleCap \in Nat \ {0, 1}

(***************************************************************************)
(* A run prints texts to "out", and then either returns or fails with a    *)
(* message.  Messages may go to standard output (--errors-to-stdout) or    *)
(* nowhere (--silence-errors and others).  "windows" is a file or a pipe   *)
(* there, "console" a console.  One character of "out" may take two bytes; *)
(* these stand for four, and for the surrogates that a console gets.       *)
(***************************************************************************)
Input == [prints   : Seq(Nat),
          message  : Nat,                 \* 0 if the run returns
          messages : {"stderr", "stdout", "null"},
          pair     : Nat,                 \* its first byte; 0 if there is none
          platform : {"posix", "windows", "console", "wasm"}]

ASSUME InputsAssumption == Inputs \subseteq Input

Stream == {"out", "err"}
Item   == [stream : Stream, byte : Nat]

VARIABLES
  input,     \* never changes
  calls,     \* the calls of prints8() to come, and how much they print
  printed,   \* how much of each stream was printed
  buf,       \* the contents of the two buffers
  writing,   \* what os_write() has left to write, and where to
  fds,       \* what arrived at standard output and standard error
  broken,    \* the descriptors that did not take all they were given
  status     \* "running", "ending", "success" or "failure"

vars == <<input, calls, printed, buf, writing, fds, broken, status>>

Fails == input.message > 0

\* uconfig(): with --silence-errors "err" is newnullout(), and with
\* --errors-to-stdout it is "out".
Discarded(stream) == stream = "err" /\ input.messages = "null"
BufferOf(stream)  == IF stream = "err" /\ input.messages = "stdout" THEN "out" ELSE stream
CapOf(b)          == IF b = "out" THEN OutCap ELSE ErrCap

Nowhere == [to |-> "none", data |-> <<>>]

TypeOK ==
  /\ input \in Input
  /\ calls \in Seq([stream : Stream, len : Nat])
  /\ printed \in [Stream -> Nat]
  /\ buf \in [Stream -> Seq(Item)] /\ \A b \in Stream : Len(buf[b]) < CapOf(b)
  /\ writing = Nowhere \/ (writing.to \in Stream /\ writing.data \in Seq(Item) \ {<<>>})
  /\ fds \in [Stream -> Seq(Item)]
  /\ broken \subseteq Stream
  /\ status \in {"running", "ending", "success", "failure"}

Init ==
  /\ input \in Inputs
  /\ calls = [i \in DOMAIN input.prints |-> [stream |-> "out", len |-> input.prints[i]]]
               \o <<[stream |-> "err", len |-> input.message]>>
  /\ printed = [s \in Stream |-> 0]
  /\ buf = [b \in Stream |-> <<>>]
  /\ writing = Nowhere
  /\ fds = [b \in Stream |-> <<>>]
  /\ broken = {}
  /\ status = "running"

-----------------------------------------------------------------------------
(***************************************************************************)
(* prints8() and flush().                                                  *)
(***************************************************************************)
Computing == writing = Nowhere

\* The bytes of a stream from the first to the last.
Bytes(stream, first, last) ==
  [k \in 1 .. last - first + 1 |-> [stream |-> stream, byte |-> first + k - 1]]

\* os_write() is called with all of buffer b; not with nothing.
Handed(b, contents) == IF contents = <<>> THEN Nowhere ELSE [to |-> b, data |-> contents]

\* Fault: the buffer is not emptied.
FlushedKept(b, contents) ==
  /\ writing' = Handed(b, contents)
  /\ buf' = [buf EXCEPT ![b] = IF Len(contents) < CapOf(b) THEN contents ELSE <<Head(contents)>>]

Flushed(b, contents) ==
  /\ writing' = Handed(b, contents)
  /\ buf' = [buf EXCEPT ![b] = <<>>]

\* Fault: a buffer that is full is not written.
FullBeyond(b, contents) == Len(contents) > CapOf(b)

Full(b, contents) == Len(contents) = CapOf(b)

\* One round of the loop in prints8(): as much as there is room for.
Copy ==
  /\ status = "running" /\ Computing
  /\ calls # <<>>
  /\ LET call  == Head(calls)
         b     == BufferOf(call.stream)
         avail == CapOf(b) - Len(buf[b])
         count == IF avail < call.len THEN avail ELSE call.len
         last  == printed[call.stream] + count
         contents == buf[b] \o Bytes(call.stream, printed[call.stream] + 1, last)
     IN  /\ call.len > 0
         /\ ~Discarded(call.stream)
         /\ printed' = [printed EXCEPT ![call.stream] = last]
         /\ calls' = [calls EXCEPT ![1].len = @ - count]
         /\ IF Full(b, contents)
            THEN Flushed(b, contents)
            ELSE buf' = [buf EXCEPT ![b] = contents] /\ UNCHANGED writing
  /\ UNCHANGED <<input, fds, broken, status>>

Copied ==
  /\ status = "running" /\ Computing
  /\ calls # <<>>
  /\ Head(calls).len = 0 \/ Discarded(Head(calls).stream)
  /\ calls' = Tail(calls)
  /\ UNCHANGED <<input, printed, buf, writing, fds, broken, status>>

\* Fault: a run that fails writes what it had to say otherwise.
LastFlushOut == "out"

\* The buffer to flush at the end.
LastFlush == IF Fails THEN BufferOf("err") ELSE "out"

Ending ==
  /\ status = "running" /\ Computing
  /\ calls = <<>>
  /\ status' = "ending"
  /\ Flushed(LastFlush, buf[LastFlush])
  /\ UNCHANGED <<input, calls, printed, fds, broken>>

\* os_fail(), or a return to os_main().
Exit ==
  /\ status = "ending" /\ Computing
  /\ status' = IF Fails \/ (input.platform \in {"windows", "console"} /\ broken # {})
               THEN "failure" ELSE "success"
  /\ UNCHANGED <<input, calls, printed, buf, writing, fds, broken>>

(***************************************************************************)
(* os_write().                                                             *)
(***************************************************************************)
\* Fault: what write() did not take is forgotten.
RemainsNothing(n) == Nowhere

\* What is left to write after n bytes.
Remains(n) == Handed(writing.to, SubSeq(writing.data, n + 1, Len(writing.data)))

\* A write by n bytes that are made of data.
Writes(n, data) ==
  /\ fds' = [fds EXCEPT ![writing.to] = @ \o data]
  /\ writing' = Remains(n)
  /\ UNCHANGED <<input, calls, printed, buf, broken, status>>

Accepts(platform) == input.platform = platform /\ ~Computing /\ writing.to \notin broken

\* write() may take less than it was given; the rest is written next.
Write ==
  /\ Accepts("posix")
  /\ \E n \in DOMAIN writing.data : Writes(n, SubSeq(writing.data, 1, n))

\* WriteFile() takes all.
WriteFile ==
  /\ Accepts("windows")
  /\ Writes(Len(writing.data), writing.data)

\* The character begins at i.
PairAt(data, i) ==
  /\ input.pair > 0
  /\ i \in 1 .. Len(data) - 1
  /\ \A k \in {0, 1} : data[i + k] = [stream |-> "out", byte |-> input.pair + k]

\* What the console shows for bytes that it gets at once: a replacement
\* character, byte 0, for half a character.
Shown(data) ==
  [i \in DOMAIN data |->
     IF \/ data[i].stream = "err" \/ input.pair = 0
        \/ data[i].byte \notin {input.pair, input.pair + 1}
        \/ PairAt(data, i) \/ PairAt(data, i - 1)
     THEN data[i] ELSE [data[i] EXCEPT !.byte = 0]]

\* Fault: units are collected until none fits.
ChunkToTheBrim(data) == IF Len(data) < ConsoleCap THEN Len(data) ELSE ConsoleCap

\* printc32_() collects units as long as there is room for two.
Chunk(data) ==
  CHOOSE n \in DOMAIN data :
    LET ends(k) == (k > ConsoleCap - 2 \/ k = Len(data)) /\ ~PairAt(data, k)
    IN  ends(n) /\ \A k \in 1 .. n - 1 : ~ends(k)

\* What is handed to os_write() is decoded on its own, and passed on in pieces.
WriteConsole ==
  /\ Accepts("console")
  /\ LET n == Chunk(writing.data)
     IN  Writes(n, Shown(SubSeq(writing.data, 1, n)))

\* WASI: one call only, and what it did not take is lost.
WriteOnce ==
  /\ input.platform = "wasm"
  /\ ~Computing
  /\ \E n \in DOMAIN writing.data :
       /\ fds' = [fds EXCEPT ![writing.to] = @ \o SubSeq(writing.data, 1, n)]
       /\ broken' = IF n < Len(writing.data) THEN broken \cup {writing.to} ELSE broken
  /\ writing' = Nowhere
  /\ UNCHANGED <<input, calls, printed, buf, status>>

\* POSIX and WASI: the program exits at once.
WriteFails ==
  /\ input.platform \in {"posix", "wasm"}
  /\ ~Computing
  /\ broken' = broken \cup {writing.to}
  /\ writing' = Nowhere
  /\ status' = "failure"
  /\ UNCHANGED <<input, calls, printed, buf, fds>>

\* Windows: it goes on, and remembers not to write there again.
WriteIgnored ==
  /\ input.platform \in {"windows", "console"}
  /\ ~Computing
  /\ broken' = broken \cup {writing.to}
  /\ writing' = Nowhere
  /\ UNCHANGED <<input, calls, printed, buf, fds, status>>

Stopped == status \in {"success", "failure"} /\ UNCHANGED vars

Next ==
  \/ Copy \/ Copied \/ Ending \/ Exit
  \/ Write \/ WriteFile \/ WriteConsole \/ WriteOnce
  \/ WriteFails \/ WriteIgnored
  \/ Stopped

\* The program runs by itself, and write() returns.
Spec == Init /\ [][Next]_vars /\ WF_vars(Next)

-----------------------------------------------------------------------------
(***************************************************************************)
(* Properties.                                                             *)
(***************************************************************************)

\* What was printed to the streams that share a buffer.
Everything(b) ==
  (IF b = "out" THEN Bytes("out", 1, printed["out"]) ELSE <<>>) \o
  (IF b = BufferOf("err") THEN Bytes("err", 1, printed["err"]) ELSE <<>>)

\* A flush comes between the two bytes of the character.
Torn(b) ==
  \E i \in DOMAIN Everything(b) :
    i % CapOf(b) = 0 /\ Everything(b)[i] = [stream |-> "out", byte |-> input.pair]

\* The text arrived, or is mistranslated where a flush tore a character.
Is(b, data, text) ==
  /\ Len(data) = Len(text)
  /\ \A i \in DOMAIN data :
       \/ data[i] = text[i]
       \/ /\ data[i].byte = 0 /\ input.platform = "console"
          /\ Torn(b) /\ text[i].byte \in {input.pair, input.pair + 1}

\* The message is printed last.
Earlier(x, y) == IF x.stream = y.stream THEN x.byte < y.byte ELSE y.stream = "err"

(***************************************************************************)
(* Every byte printed is, once, and in the order of printing, in the       *)
(* descriptor, in the hands of os_write(), or in the buffer.  After a      *)
(* write has failed, no hole is left: nothing more arrives, except on      *)
(* WASI, where bytes may be missing but not change places.  A console      *)
(* mistranslates no character but one that a flush of the buffer tore.     *)
(***************************************************************************)
InOrder ==
  \A b \in Stream :
    IF b \notin broken
    THEN Is(b, fds[b] \o (IF writing.to = b THEN writing.data ELSE <<>>) \o buf[b], Everything(b))
    ELSE IF input.platform = "wasm"
    THEN /\ \A i \in DOMAIN fds[b] : Contains(Everything(b), fds[b][i])
         /\ \A i, j \in DOMAIN fds[b] : i < j => Earlier(fds[b][i], fds[b][j])
    ELSE /\ Len(fds[b]) <= Len(Everything(b))
         /\ Is(b, fds[b], SubSeq(Everything(b), 1, Len(fds[b])))

\* The length of the first n texts.
Printing[n \in 0 .. Len(input.prints)] ==
  IF n = 0 THEN 0 ELSE Printing[n - 1] + input.prints[n]

(***************************************************************************)
(* A build system that sees success has all of the output, unless it runs  *)
(* the program on WASI and a write fell short.                             *)
(***************************************************************************)
SuccessIsComplete ==
  status = "success" =>
    /\ printed["out"] = Printing[Len(input.prints)]
    /\ \/ Is("out", fds["out"], Bytes("out", 1, printed["out"]))
       \/ input.platform = "wasm" /\ "out" \in broken

(***************************************************************************)
(* A run that fails has put none of its results on standard output, unless *)
(* they fill a buffer, or messages go there too; and its message is        *)
(* complete, unless messages go nowhere or a write failed.                 *)
(***************************************************************************)
FailureIsQuiet ==
  status = "failure" =>
    /\ printed["out"] < OutCap /\ input.messages # "stdout" /\ Fails => fds["out"] = <<>>
    /\ broken = {} /\ input.messages # "null" =>
         IsSuffix(Bytes("err", 1, input.message), fds[BufferOf("err")])

(***************************************************************************)
(* The program exits, however little write() takes at a time.              *)
(***************************************************************************)
Termination == <>(status \in {"success", "failure"})

=============================================================================
